--------------------------------- MODULE Gendoc ---------------------------------
(***************************************************************************)
(* The text format of util/parser.d as the archives of                     *)
(* util/serialization/gendoc.d write it and read it back: one section for  *)
(* a structure, a line for a plain field, a string or an array, a section  *)
(* inside for a map.                                                       *)
(*                                                                         *)
(* A text is a sequence of characters.  The names of types and fields and  *)
(* the values of numbers are one character each; tabs at the beginning of  *)
(* a line are left out.                                                    *)
(***************************************************************************)
EXTENDS Integers, Sequences, SequencesExt

CONSTANTS
    Exception,    \* an exception of the parser or the reader, which callers catch
    Error         \* a range error, which nobody does

Blank == " "
Tab == "tab"
NewLine == "\n"
Quote == "\""
Escape == "\\"
Bell == "bell"

\* What reading ends with instead of a value.
Thrown == {Exception, Error}

\* f of a value; what was thrown instead of it goes on.
Unless(value, f(_)) == IF value \in Thrown THEN value ELSE f(value)

-----------------------------------------------------------------------------
(* Searching, as util/common.d does it; 0 for -1 *)

IsAt(s, i, c) == i \in DOMAIN s /\ s[i] = c

LeastOf(S) == IF S = {} THEN 0 ELSE CHOOSE i \in S : \A n \in S : i <= n

\* findPos, and countUntil from the first character.
FindPos(s, from, c) == LeastOf({i \in DOMAIN s : i >= from /\ s[i] = c})

\* findPosEscaped, and countUntilEscaped: a character after an escape is not one,
\* unless the search begins with it.
FindPosEscaped(s, from, c) ==
    LeastOf({i \in DOMAIN s : i >= from /\ s[i] = c /\ (i = from \/ s[i - 1] # Escape)})

FindLastPos(s, c) == IF FindPos(s, 1, c) = 0 THEN 0
                     ELSE CHOOSE i \in DOMAIN s : s[i] = c /\ \A n \in i + 1 .. Len(s) : s[n] # c

Before(s, i) == SubSeq(s, 1, i - 1)
After(s, i) == SubSeq(s, i + 1, Len(s))

Strip(s) ==
    LET solid == {i \in DOMAIN s : s[i] \notin {Blank, Tab, NewLine}}
    IN  IF solid = {} THEN <<>>
        ELSE SubSeq(s, LeastOf(solid), CHOOSE i \in solid : \A n \in solid : n <= i)

RECURSIVE Split(_, _)
Split(s, c) ==
    IF FindPos(s, 1, c) = 0 THEN <<s>>
    ELSE <<Before(s, FindPos(s, 1, c))>> \o Split(After(s, FindPos(s, 1, c)), c)

\* The same, but an empty piece is the last: it is left together with the rest.
RECURSIVE Pieces(_, _)
Pieces(s, c) ==
    IF FindPos(s, 1, c) <= 1 THEN <<s>>
    ELSE <<Before(s, FindPos(s, 1, c))>> \o Pieces(After(s, FindPos(s, 1, c)), c)

\* Each c of the text becomes the text new.
Substitute(s, c, new) == FlattenSeq([i \in DOMAIN s |-> IF s[i] = c THEN new ELSE <<s[i]>>])

-----------------------------------------------------------------------------
(* Writing: gendoc.d, then writeSection and writeValue of parser.d *)

\* escapeChars
EscapeChars(type) ==
    IF \E i \in 2 .. Len(type) : type[i] \in {"[", "]", "(", ")"}
    THEN <<Quote>> \o type \o <<Quote>> ELSE type

\* A leaf: its words before the value, the values in brackets if there are more
\* than one, a comma.
WriteLeaf(words, vals) ==
    LET with(i) == vals[i] \o (IF i < Len(vals) THEN <<",", Blank>> ELSE <<Blank>>)
        value == IF vals = <<>> THEN <<>>
                 ELSE IF Len(vals) = 1 THEN <<Blank>> \o vals[1]
                 ELSE <<Blank, "(", Blank>> \o FlattenSeq([i \in DOMAIN vals |-> with(i)]) \o <<")">>
        head(i) == words[i] \o (IF i < Len(words) THEN <<Blank>> ELSE <<>>)
    IN  FlattenSeq([i \in DOMAIN words |-> head(i)]) \o value \o <<",", NewLine>>

WriteSection(words, body) ==
    FlattenSeq([i \in DOMAIN words |-> words[i] \o <<Blank>>])
        \o <<NewLine, "{", NewLine>> \o body \o <<"}", NewLine>>

\* writePlainField, writeArray for a string and for other arrays, and
\* writeAssociativeArray.
WriteField(f) ==
    CASE f.kind = "plain" -> WriteLeaf(<<EscapeChars(f.type), f.key>>, <<f.val>>)
      [] f.kind = "string" ->
            WriteLeaf(<<EscapeChars(f.type), f.key>>, << <<Quote>> \o f.val \o <<Quote>> >>)
      [] f.kind = "array" -> WriteLeaf(<<EscapeChars(f.type), f.key>>, f.val)
      [] f.kind = "map" ->
            WriteSection(<< <<"Map">>, EscapeChars(f.type), f.key >>,
                FlattenSeq([i \in DOMAIN f.val |-> WriteLeaf(<<f.val[i][1]>>, <<f.val[i][2]>>)]))

\* A structure: its plain fields first, then the sections.
Write(fields) ==
    LET leaf(f) == f.kind # "map"
        all == SelectSeq(fields, leaf) \o SelectSeq(fields, LAMBDA f : ~leaf(f))
    IN  WriteSection(<< <<"Struct">>, <<"T">>, <<"t">> >>,
                     FlattenSeq([i \in DOMAIN all |-> WriteField(all[i])]))

-----------------------------------------------------------------------------
(* readToBuff *)

Brackets == <<"[", "]", "(", ")", "{", "}">>

\* A quoted value: its blanks become bells, its brackets are escaped one kind
\* after the other between the same two positions, though the text grows.
RECURSIVE EscapeBetween(_, _, _, _)
EscapeBetween(s, pos1, pos2, k) ==
    LET to(c, new) == Before(s, pos1) \o Substitute(SubSeq(s, pos1, pos2 - 1), c, new)
                          \o SubSeq(s, pos2, Len(s))
    IN  IF k = 0 THEN EscapeBetween(to(Blank, <<Bell>>), pos1, pos2, 1)
        ELSE IF k > Len(Brackets) THEN s
        ELSE EscapeBetween(to(Brackets[k], <<Escape, Brackets[k]>>), pos1, pos2, k + 1)

\* The loop over the quoted values of a line; one that begins the line is none.
RECURSIVE EscapeQuoted(_, _, _)
EscapeQuoted(s, pos1, pos2) ==
    IF pos1 <= 1 \/ pos2 = 0 THEN s
    ELSE LET t == EscapeBetween(s, pos1, pos2, 0)
             next1 == FindPos(t, pos2 + 1, Quote)
         IN  EscapeQuoted(t, next1, FindPos(t, next1 + 1, Quote))

\* removing a comment, which may begin inside quotes.
Uncommented(s) ==
    LET slashes == {i \in DOMAIN s : s[i] = "/" /\ IsAt(s, i + 1, "/")}
    IN  IF slashes = {} THEN s ELSE Before(s, LeastOf(slashes))

Balanced(s) == Len(SelectSeq(s, LAMBDA c : c = Quote)) % 2 = 0

CleanLine(s) ==
    LET pos1 == FindPos(s, 1, Quote)
    IN  Substitute(EscapeQuoted(s, pos1, FindPos(s, pos1 + 1, Quote)), Tab, <<Blank>>)

\* Removing doubled blanks.
Collapse(s) ==
    LET stays(i) == ~(s[i] = Blank /\ IsAt(s, i - 1, Blank))
    IN  FlattenSeq([i \in DOMAIN s |-> IF stays(i) THEN <<s[i]>> ELSE <<>>])

\* The buffer the parser reads, from the lines of the text, each cut at a comment.
Buffer(text) ==
    LET stripped == [i \in DOMAIN Split(text, NewLine) |-> Strip(Split(text, NewLine)[i])]
        lines == SelectSeq([i \in DOMAIN stripped |-> Uncommented(stripped[i])], LAMBDA s : s # <<>>)
    IN  IF \A i \in DOMAIN lines : Balanced(lines[i])
        THEN Collapse(FlattenSeq([i \in DOMAIN lines |-> CleanLine(lines[i]) \o <<Blank>>]))
        ELSE Exception

-----------------------------------------------------------------------------
(* Parsing *)

\* bell2Space, which also drops every escape before a bracket.
Unescaped(s) ==
    LET drops(i) == s[i] = Escape /\ i < Len(s) /\ s[i + 1] \in {Brackets[k] : k \in DOMAIN Brackets}
    IN  FlattenSeq([i \in DOMAIN s |-> IF drops(i) THEN <<>> ELSE IF s[i] = Bell THEN <<Blank>> ELSE <<s[i]>>])

\* trimString
Trim(s) == IF Len(s) >= 2 /\ s[1] = Quote /\ Last(s) = Quote THEN SubSeq(s, 2, Len(s) - 1) ELSE s

Words(s) == LET w == Pieces(s, Blank) IN [i \in DOMAIN w |-> Unescaped(w[i])]

Leaf(words, vals) == [mods |-> Front(words), key |-> Last(words), vals |-> vals]

\* readNode
ReadNode(s) ==
    LET round == FindPosEscaped(s, 1, "(")
        open == IF round # 0 THEN round ELSE FindPosEscaped(s, 1, "[")
        endRound == FindPosEscaped(s, open, ")")
        close == IF endRound # 0 THEN endRound ELSE FindPosEscaped(s, open, "]")
        vals == Pieces(SubSeq(s, open + 1, close - 1), ",")
    IN  IF FindPos(s, 1, Blank) = 0 THEN Leaf(<<Unescaped(s)>>, <<>>)
        ELSE IF open = 0
        THEN Leaf(Words(Strip(Before(s, FindLastPos(s, Blank)))),
                  <<Strip(Unescaped(After(s, FindLastPos(s, Blank))))>>)
        ELSE IF close = 0 THEN Exception
        ELSE Leaf(Words(Strip(Before(s, open))),
                  [i \in DOMAIN vals |-> Strip(Unescaped(vals[i]))])

\* getCloseBracket: the bracket that closes the first section of s.
CloseBracket(s) ==
    LET open == FindPosEscaped(s, 1, "{")
        plain(i, c) == s[i] = c /\ s[i - 1] # Escape
        depth[i \in open .. Len(s)] ==
            IF i = open THEN 1
            ELSE depth[i - 1] + (IF plain(i, "{") THEN 1 ELSE IF plain(i, "}") THEN -1 ELSE 0)
    IN  IF open = 0 THEN 0 ELSE LeastOf({i \in open .. Len(s) : depth[i] = 0})

\* Mutant: a comma in quotes counts.
CommaInQuotes(s) == FindPos(s, 1, ",")

\* getComma: the first comma outside brackets and quotes; escaped brackets count.
Comma(s) ==
    LET closed[i \in 0 .. Len(s)] ==
            IF i = 0 THEN FALSE ELSE IF s[i] \in {"(", "["} THEN TRUE
            ELSE IF s[i] \in {")", "]"} THEN FALSE ELSE closed[i - 1]
        value[i \in 0 .. Len(s)] == IF i = 0 THEN FALSE ELSE (s[i] = Quote) # value[i - 1]
    IN  LeastOf({i \in DOMAIN s : s[i] = "," /\ ~closed[i - 1] /\ ~value[i - 1]})

\* readSection, with its body cut into elements by getNextElement: up to a comma a
\* leaf, up to a closing bracket a section.  A comma that is not found is the
\* greatest size_t: a leaf without one ends in a range error.
RECURSIVE ReadSection(_), ReadBody(_)
ReadSection(s) ==
    LET open == FindPosEscaped(s, 1, "{")
        close == CloseBracket(s)
        head == Words(Strip(Before(s, open)))
    IN  IF open = 0 \/ close = 0 THEN Exception
        ELSE Unless(ReadBody(Strip(SubSeq(s, open + 1, close - 1))), LAMBDA body :
                [key |-> head[1], vals |-> Tail(head), nodes |-> body[1], sections |-> body[2]])

ReadBody(s) ==
    LET comma == Comma(s)
        sec == FindPosEscaped(s, 1, "{")
        close == CloseBracket(s)
        after == IF IsAt(s, close + 1, ",") THEN close + 1 ELSE close
    IN  IF s = <<>> THEN << <<>>, <<>> >>
        ELSE IF sec # 0 /\ (comma = 0 \/ sec < comma)
        THEN Unless(ReadSection(Strip(SubSeq(s, 1, close))), LAMBDA section :
             Unless(ReadBody(After(s, after)), LAMBDA rest : <<rest[1], <<section>> \o rest[2]>>))
        ELSE IF comma = 0 THEN Error
        ELSE Unless(ReadNode(Strip(Before(s, comma))), LAMBDA node :
             Unless(ReadBody(Strip(After(s, comma))), LAMBDA rest : <<<<node>> \o rest[1], rest[2]>>))

\* parse: the sections of the whole text.
RECURSIVE ReadAll(_)
ReadAll(s) ==
    IF s = <<>> THEN <<>>
    ELSE Unless(ReadSection(s), LAMBDA first :
         Unless(ReadAll(Strip(After(s, CloseBracket(s)))), LAMBDA rest : <<first>> \o rest))

Parse(text) == Unless(Buffer(text), ReadAll)

-----------------------------------------------------------------------------
(* Reading fields back: gendoc.d *)

Digits == {"1", "2"}

\* subSection(name, values): trimmed, the first values of the first that fits.
FirstSection(sections, key, vals) ==
    LET fits == {i \in DOMAIN sections :
                    /\ sections[i].key = key
                    /\ Len(vals) <= Len(sections[i].vals)
                    /\ \A n \in DOMAIN vals : Trim(sections[i].vals[n]) = vals[n]}
    IN  LeastOf(fits)

FirstNode(nodes, key) == LeastOf({i \in DOMAIN nodes : nodes[i].key = key})

\* to!Element: a number, in this model one digit.
Converts(s) == \E d \in Digits : s = <<d>>

\* isFieldExists and readField for a field of the type and key of f.
ReadField(tree, f) ==
    LET n == FirstNode(tree.nodes, f.key)
        node == tree.nodes[n]
        m == FirstSection(tree.sections, <<"Map">>, <<f.type, f.key>>)
        entries == tree.sections[m].nodes
        first(vals) == IF vals = <<>> THEN <<>> ELSE Trim(vals[1])
    IN  IF f.kind = "map"
        THEN IF m = 0 THEN Exception
             ELSE [i \in DOMAIN entries |-> <<entries[i].key, first(entries[i].vals)>>]
        ELSE IF n = 0 THEN Exception
        ELSE IF node.mods = <<>> THEN Error
        ELSE IF Trim(node.mods[1]) # f.type THEN Exception
        ELSE IF f.kind = "string" THEN first(node.vals)
        ELSE IF f.kind = "plain"
        THEN IF Converts(first(node.vals)) THEN first(node.vals) ELSE Exception
        ELSE IF \A i \in DOMAIN node.vals : Converts(node.vals[i]) THEN node.vals ELSE Exception

\* readAggregate of the structure whose fields, but for their values, are given.
Read(text, fields) ==
    Unless(Parse(text), LAMBDA doc :
        LET s == FirstSection(doc, <<"Struct">>, << <<"T">>, <<"t">> >>)
            vals == [i \in DOMAIN fields |-> ReadField(doc[s], fields[i])]
            failing == {i \in DOMAIN fields : vals[i] \in Thrown}
        IN  IF s = 0 THEN Exception
            ELSE IF failing # {} THEN vals[LeastOf(failing)]
            ELSE [i \in DOMAIN fields |-> [fields[i] EXCEPT !.val = vals[i]]])
=============================================================================

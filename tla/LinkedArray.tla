----------------------------- MODULE LinkedArray -----------------------------
(***************************************************************************)
(* The "virtual array" of util/linkedarray.d: elements in chunks of        *)
(* chunkSize, addressed by index / chunkSize and index % chunkSize.  mMem  *)
(* is the sequence of the chunks with keys 0, 1, ...; the elements         *)
(* appended are numbered in the order the program appends them, so that a  *)
(* lost or displaced one shows.                                            *)
(***************************************************************************)
EXTENDS Integers, Sequences, SequencesExt

CONSTANTS
    chunkSize,      \* at least 1
    MaxElements     \* bound: elements appended in a behaviour

VARIABLES
    mMem,
    appended        \* how many elements the program has appended

vars == <<mMem, appended>>

Init == mMem = <<>> /\ appended = 0

contents == FlattenSeq(mMem)
length == Len(contents)

\* array[from..$], of a D array that has at least `from` elements
Rest(array, from) == SubSeq(array, from + 1, Len(array))
First(array, n) == SubSeq(array, 1, n)

\* mMem[x] ~= array and mMem[x] = array
Chunk(mem, x) == IF x < Len(mem) THEN mem[x + 1] ELSE <<>>
Put(mem, x, array) ==
    IF x < Len(mem) THEN [mem EXCEPT ![x + 1] = array] ELSE Append(mem, array)

\* The while loop of opOpAssign: lastX does not move, and each turn skips the
\* element after the chunk it stores.
Loop(mem, x, array) ==
    LET turns == Len(array) \div (chunkSize + 1)
        left == Rest(array, turns * (chunkSize + 1))
    IN  IF array = <<>> THEN mem
        ELSE IF left = <<>>
             THEN Put(mem, x, First(Rest(array, (turns - 1) * (chunkSize + 1)), chunkSize))
             ELSE Put(mem, x, left)

\* Mutant: the last chunk is stored over, not added to.
ConcatOver(mem, array) ==
    LET lastX == Len(FlattenSeq(mem)) \div chunkSize
        space == chunkSize - (Len(FlattenSeq(mem)) % chunkSize)
    IN  Put(mem, lastX, IF Len(array) <= space THEN array ELSE First(array, space))

\* opOpAssign!"~"
Concat(mem, array) ==
    LET l == Len(FlattenSeq(mem))
        lastX == l \div chunkSize
        space == chunkSize - (l % chunkSize)
        head == Put(mem, lastX, Chunk(mem, lastX) \o First(array, space))
    IN  IF Len(array) <= space
        THEN Put(mem, lastX, Chunk(mem, lastX) \o array)
        ELSE IF Len(array) <= chunkSize
             THEN Put(head, lastX + 1, Rest(array, space + 1))
             ELSE Loop(head, lastX + 1, Rest(array, space + 1))

AppendArray(n) ==
    /\ appended + n <= MaxElements
    /\ mMem' = Concat(mMem, [i \in 1 .. n |-> appended + i])
    /\ appended' = appended + n

Next == \E n \in 1 .. MaxElements : AppendArray(n)

Spec == Init /\ [][Next]_vars

-----------------------------------------------------------------------------
At(index) == mMem[(index \div chunkSize) + 1][(index % chunkSize) + 1]   \* opIndex

\* opSlice, for x < y <= length.  A chunk y1 that does not exist is a RangeError.
SliceDefined(x, y) == x \div chunkSize = y \div chunkSize \/ y \div chunkSize < Len(mMem)
Slice(x, y) ==
    LET x1 == x \div chunkSize   x2 == x % chunkSize
        y1 == y \div chunkSize   y2 == y % chunkSize
    IN  IF x1 = y1 THEN SubSeq(mMem[x1 + 1], x2 + 1, y2)
        ELSE Rest(mMem[x1 + 1], x2) \o First(mMem[y1 + 1], y2)

-----------------------------------------------------------------------------
(* Properties *)

\* A slice inside one chunk, or over two neighbouring ones, is right.
ShortSlices ==
    \A x \in 0 .. length - 1 : \A y \in x + 1 .. length :
        SliceDefined(x, y) /\ y \div chunkSize <= x \div chunkSize + 1 =>
            Slice(x, y) = SubSeq(contents, x + 1, y)

\* An append the last chunk has room for keeps every element, old and new, and
\* leaves every short slice right.  (A longer append drops the element after each
\* chunk it fills, and more.)
FittingAppendKeeps ==
    [][appended' - appended <= chunkSize - (length % chunkSize) =>
          /\ contents' = contents \o [i \in 1 .. appended' - appended |-> appended + i]
          /\ ShortSlices']_vars
=============================================================================

--------------------------------- MODULE List ---------------------------------
(***************************************************************************)
(* The singly linked list of util/list.d.  Each Element keeps a value, the *)
(* next Element and mLength, the length of the list that starts with it;   *)
(* the List keeps mHead and its own mLength.  The chain of Elements from   *)
(* mHead is a sequence here, the arithmetic is that of size_t.             *)
(***************************************************************************)
EXTENDS Integers, Sequences, SequencesExt

CONSTANTS
    Values,
    SizeT,       \* size_t counts modulo this
    MaxLength    \* bound: the Elements of the list

ASSUME ListAssumption == SizeT \in Nat \ {0} /\ MaxLength \in Nat /\ MaxLength < SizeT

VARIABLES
    elements,    \* the chain from mHead: [value, length]
    mLength,
    popped       \* what the last pop returned

vars == <<elements, mLength, popped>>

Element == [value : Values, length : 0 .. SizeT - 1]
new(v) == [value |-> v, length |-> 1]

TypeOK ==
    /\ elements \in Seq(Element)
    /\ mLength \in 0 .. SizeT - 1
    /\ popped \in {<<>>} \cup {<<v>> : v \in Values}

Init == elements = <<>> /\ mLength = 0 /\ popped = <<>>

Plus(a, b) == (a + b) % SizeT
Minus(a, b) == (a - b) % SizeT

Room == Len(elements) < MaxLength

\* Element.pushBack: every Element on the way counts one more, the last one two.
GrowBack(s, v) ==
    Append([i \in DOMAIN s |->
               [s[i] EXCEPT !.length = IF i = Len(s) THEN 2 ELSE Plus(@, 1)]], new(v))

\* Mutant: the new Element is linked behind the head.
PushSecond(v) ==
    /\ Room
    /\ elements' = IF elements = <<>> THEN GrowBack(elements, v)
                   ELSE <<Head(elements), new(v)>> \o Tail(elements)
    /\ mLength' = elements'[1].length
    /\ UNCHANGED popped

PushBack(v) ==
    /\ Room
    /\ elements' = GrowBack(elements, v)
    /\ mLength' = elements'[1].length
    /\ UNCHANGED popped

\* Element.popBack: every Element on the way counts one less, the one that
\* becomes the last gets length 0.
ShrinkBack(s) ==
    [i \in 1 .. Len(s) - 1 |->
        [s[i] EXCEPT !.length = IF i = Len(s) - 1 THEN 0 ELSE Minus(@, 1)]]

\* Mutant: the length of an emptied list is not reset.
PopBackKeepsLength ==
    /\ elements # <<>>
    /\ popped' = <<Last(elements).value>>
    /\ elements' = ShrinkBack(elements)
    /\ mLength' = IF elements' = <<>> THEN mLength ELSE elements'[1].length

PopBack ==
    /\ elements # <<>>
    /\ popped' = <<Last(elements).value>>
    /\ elements' = ShrinkBack(elements)
    /\ mLength' = IF elements' = <<>> THEN 0 ELSE elements'[1].length

\* new Element(val, lnext)
PushFront(v) ==
    /\ Room
    /\ elements' = <<[value |-> v,
                      length |-> IF elements = <<>> THEN 1 ELSE Plus(elements[1].length, 1)]>>
                   \o elements
    /\ mLength' = elements'[1].length
    /\ UNCHANGED popped

\* The list counts down its own mLength; the new head keeps the length it had.
PopFront ==
    /\ elements # <<>>
    /\ popped' = <<Head(elements).value>>
    /\ elements' = Tail(elements)
    /\ mLength' = IF elements' = <<>> THEN 0 ELSE Minus(mLength, 1)

Next == PopBack \/ PopFront \/ \E v \in Values : PushBack(v) \/ PushFront(v)

Spec == Init /\ [][Next]_vars

-----------------------------------------------------------------------------
(* Properties *)

\* Whatever the lengths say, the values come and go as in a deque.
Contents == INSTANCE Deque WITH values <- [i \in DOMAIN elements |-> elements[i].value]
IsDeque == Contents!Spec

\* However the lengths of the Elements go wrong after popBack, the list's length
\* is at most one too low: it never wraps around below 0.
LengthOffByOne == mLength \in {Len(elements) - 1, Len(elements)}
=============================================================================

-------------------------------- MODULE Deque --------------------------------
(***************************************************************************)
(* What util/list.d offers: values pushed and popped at both ends.         *)
(***************************************************************************)
EXTENDS Sequences, SequencesExt

CONSTANT Values

VARIABLES values,   \* the contents, front first
          popped    \* what the last pop returned; unchanged by a push

Init == values = <<>> /\ popped = <<>>

PushBack(v)  == values' = Append(values, v) /\ UNCHANGED popped
PushFront(v) == values' = <<v>> \o values /\ UNCHANGED popped
PopBack      == values # <<>> /\ popped' = <<Last(values)>> /\ values' = Front(values)
PopFront     == values # <<>> /\ popped' = <<Head(values)>> /\ values' = Tail(values)

Next == PopBack \/ PopFront \/ \E v \in Values : PushBack(v) \/ PushFront(v)

Spec == Init /\ [][Next]_<<values, popped>>
=============================================================================

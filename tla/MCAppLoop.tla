------------------------------ MODULE MCAppLoop ------------------------------
(* AppLoop with one pair of keys that step the camera, two sizes and two       *)
(* positions: the middle and another.  A user has one of two habits: mouse and *)
(* SPACE, or the other keys and the closing of the window; resizes with both.  *)
EXTENDS AppLoop
CONSTANTS W, S
VARIABLE habit
MCOpposites == {<<W, S>>}

ByMouse(e) == e.type = "move" \/ (e.type \in {"press", "release"} /\ e.key = SPACE)
HabitEvents == {e \in UserEvents : ByMouse(e) = (habit = "mouse")}

\* The window is moved first, if at all.
MCUser ==
    \/ \E e \in HabitEvents : UserDoes(e)
    \/ \E s \in Sizes : (s # window.size \/ inputs = 0) /\ UserResizes(s)
MCNext == (MCUser \/ Loop) /\ UNCHANGED habit
MCInit == Init /\ habit \in {"mouse", "keys"}

MCSpec ==
    /\ MCInit
    /\ [][MCNext]_<<vars, habit>>
    /\ WF_vars(Loop /\ UNCHANGED habit)
=============================================================================

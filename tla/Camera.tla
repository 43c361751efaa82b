--------------------------------- MODULE Camera ---------------------------------
(***************************************************************************)
(* The camera of client/camera.d: instant and timed moves, the turns that  *)
(* move what it looks at, and the update of every frame.  The camera moves *)
(* on one line, where a direction is a sign and rotate is a half turn; up, *)
(* which roll turns, is left out.                                          *)
(*                                                                         *)
(* A coordinate is an integer or nan, the result of dividing the null      *)
(* vector by its length.  newpostime starts as NaN: it is not greater than *)
(* 0, as 0 is not, and stands here as 0.                                   *)
(***************************************************************************)
EXTENDS Integers

CONSTANTS
    Places,       \* where the program sends the camera
    Intervals,    \* in whole times of a frame, 0 for an instant move
    Delays,       \* the time between two frames, a slow one too
    nan,
    Reach         \* bound: no coordinate beyond

VARIABLES
    mPos, mTarget,
    newpos, newpostime, newposvel,
    asked,        \* history: the place and the length of the timed move, once there is one
    blamed        \* history: was the camera put elsewhere since, or the move one of no length?

moveVars == <<newpos, newpostime, newposvel>>
vars == <<mPos, mTarget, moveVars, asked, blamed>>

Init ==
    /\ mPos = 0 /\ mTarget = -1
    /\ newpos = 0 /\ newpostime = 0 /\ newposvel = 0
    /\ asked = FALSE
    /\ blamed = FALSE

-----------------------------------------------------------------------------
(* Arithmetic of the coordinates *)

Plus(a, b) == IF nan \in {a, b} THEN nan ELSE a + b
Minus(a, b) == IF nan \in {a, b} THEN nan ELSE a - b
Times(a, b) == IF nan \in {a, b} THEN nan ELSE a * b

\* length, for a vector of one component.
Size(a) == IF a # nan /\ a < 0 THEN -a ELSE a

\* normalize divides by the length, of the null vector too.
Normalized(a) == IF a \in {nan, 0} THEN nan ELSE IF a < 0 THEN -1 ELSE 1

Near(a) == a = nan \/ a \in -Reach .. Reach

\* A move in no time: the target goes with the camera, a timed move goes on.
Jump(pos, by) ==
    /\ mPos' = pos
    /\ mTarget' = Plus(mTarget, by)
    /\ blamed' = TRUE
    /\ UNCHANGED <<moveVars, asked>>

\* A move in time: where to, how long and how fast.  Only speeds that are whole
\* numbers are taken.
Start(pos, interval) ==
    /\ newpos' = pos
    /\ newpostime' = interval
    /\ IF nan \in {pos, mPos} THEN newposvel' = nan
       ELSE \E speed \in 0 .. Size(pos - mPos) :
               Size(pos - mPos) = speed * interval /\ newposvel' = speed
    /\ asked' = TRUE
    /\ blamed' = (pos = mPos \/ nan \in {pos, mPos})
    /\ UNCHANGED <<mPos, mTarget>>

Move(pos, interval) ==
    IF interval = 0 THEN Jump(pos, Minus(pos, mPos)) ELSE Start(pos, interval)

\* moveRel goes against delta.
MoveRel(delta, interval) ==
    LET pos == Plus(mPos, -delta)
    IN  IF interval = 0 THEN Jump(pos, -delta) ELSE Start(pos, interval)

\* The setters of position and target, and rotate by a half turn.
SetPosition(pos) ==
    /\ mPos' = pos
    /\ blamed' = TRUE
    /\ UNCHANGED <<mTarget, moveVars, asked>>

SetTarget(pos) ==
    /\ mTarget' = pos
    /\ UNCHANGED <<mPos, moveVars, asked, blamed>>

Rotate ==
    /\ mTarget' = Minus(mPos, Minus(mTarget, mPos))
    /\ UNCHANGED <<mPos, moveVars, asked, blamed>>

\* Mutant: the last frame of a move takes its whole time.
Overshoots(delay) ==
    /\ newpostime > 0
    /\ LET step == Times(Normalized(Minus(newpos, mPos)), Times(newposvel, delay))
       IN  mPos' = Plus(mPos, step) /\ mTarget' = Plus(mTarget, step)
    /\ newpostime' = IF newpostime <= delay THEN 0 ELSE newpostime - delay
    /\ UNCHANGED <<newpos, newposvel, asked, blamed>>

\* update(dt): the direction is taken anew, the speed is the one of the start.
Update(delay) ==
    /\ newpostime > 0
    /\ LET dt == IF newpostime <= delay THEN newpostime ELSE delay
           step == Times(Normalized(Minus(newpos, mPos)), Times(newposvel, dt))
       IN  /\ mPos' = Plus(mPos, step)
           /\ mTarget' = Plus(mTarget, step)
           /\ newpostime' = newpostime - dt
    /\ UNCHANGED <<newpos, newposvel, asked, blamed>>

Next ==
    /\ \/ \E pos \in Places, interval \in Intervals :
            Move(pos, interval) \/ MoveRel(pos, interval)
       \/ \E pos \in Places : SetPosition(pos) \/ SetTarget(pos)
       \/ Rotate
       \/ \E delay \in Delays : Update(delay)
    /\ Near(mPos') /\ Near(mTarget') /\ Near(newpos')

Spec == Init /\ [][Next]_vars

-----------------------------------------------------------------------------
(* Properties *)

\* A timed move to another place that nothing disturbs ends there when its time
\* is over, however slow the frames are, and on the way covers what is left in
\* the time that is left.
ArrivesOnTime ==
    asked /\ ~blamed => mPos # nan /\ Size(newpos - mPos) = newposvel * newpostime
=============================================================================

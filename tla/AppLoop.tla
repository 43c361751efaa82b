-------------------------------- MODULE AppLoop --------------------------------
(***************************************************************************)
(* The frame loop of client/app.d with the world it runs                   *)
(* (client/mainworld.d), the window configuration of client/rendersys.d    *)
(* and the window library, GLFW, as it handles the events of X11.          *)
(*                                                                         *)
(* GLFW calls the application back while it polls the window system; the   *)
(* callbacks write to the mailbox of the thread that also reads it, later  *)
(* in the same frame.  Handling a message may call GLFW again.  One        *)
(* dimension is kept of sizes and of cursor positions; 0 is the middle of  *)
(* the window, of whatever size.  Of the camera's steps only the keys they *)
(* are made for are kept, of its turns the angle.                          *)
(***************************************************************************)
EXTENDS Integers, Sequences, SequencesExt, FiniteSets

CONSTANTS
    Sizes,         \* sizes of the window
    Positions,     \* where the cursor can be, as the window system tells
    Keys,
    ESC, SPACE,    \* GLFW_KEY_ESCAPE, GLFW_KEY_SPACE
    Opposites,     \* pairs of keys that step the camera: <<W, S>>, <<A, D>>, <<Q, E>>
    Synchronous,   \* glfwSetWindowSize calls the size callback itself (Windows),
                   \* or the window system sends an event (X11)
    MaxQueue,      \* bound: events waiting for the next poll
    MaxInputs      \* bound: what the user does in a behaviour

ASSUME AppAssumption ==
    /\ IsFiniteSet(Keys) /\ ESC \in Keys /\ SPACE \in Keys /\ ESC # SPACE
    /\ \A p \in Opposites : p[1] \in Keys /\ p[2] \in Keys /\ p[1] # p[2]
    /\ Positions \subseteq Int /\ 0 \in Positions
    /\ Synchronous \in BOOLEAN

VARIABLES
    pc,            \* in the frame: "poll", "update", "check", "drain"; "stopped"
    running,
    mailbox,       \* of the main thread
    mGraphicConfigs,
    oldposx,
    mCamMode,
    window,        \* GLFW's: [size, closed, focused, key, cursorMode, cursorPos,
                   \* known, centered], the last two where it thinks the pointer is
    pointer,       \* where the window system has it
    events,        \* what the window system has not yet delivered
    inputs,        \* how much the user has done
    asked,         \* history: a poll delivered ESC or the closing of the window
    turn,          \* history: the last turn of the camera, [by, moved, mode, first]
    tapped,        \* history: keys that the poll of this frame saw pressed
    steps          \* history: keys for which the camera stepped in this frame

loop == <<pc, running, mailbox>>
app == <<mGraphicConfigs, oldposx, mCamMode>>
system == <<pointer, events>>
history == <<asked, turn, tapped, steps>>
vars == <<loop, app, window, system, inputs, history>>

noTurn == [by |-> 0, moved |-> 0, mode |-> "none", first |-> FALSE]

Resize(s) == [type |-> "resize", size |-> s]
Move(x, moved, mode) == [type |-> "mpos", xpos |-> x, moved |-> moved, mode |-> mode]
Press(k) == [type |-> "press", key |-> k]
Release(k) == [type |-> "release", key |-> k]
Motion(x) == [type |-> "move", x |-> x]
Focus(in) == [type |-> "focus", in |-> in]

TypeOK ==
    /\ pc \in {"poll", "update", "check", "drain", "stopped"}
    /\ running \in BOOLEAN
    /\ \A i \in DOMAIN mailbox : mailbox[i].type \in {"resize", "mpos", "press", "release"}
    /\ mGraphicConfigs \in Sizes /\ oldposx \in Int /\ mCamMode \in BOOLEAN
    /\ window \in [size : Sizes, closed : BOOLEAN, focused : BOOLEAN,
                   key : [Keys -> {"up", "down", "stick"}],
                   cursorMode : {"normal", "captured"}, cursorPos : Int,
                   known : Positions, centered : BOOLEAN]
    /\ pointer \in Positions

\* The window has the size of the configuration; initScene captures the cursor
\* and takes it to be in the middle, wherever it is.
Init ==
    /\ pc = "poll" /\ running = TRUE /\ mailbox = <<>>
    /\ mGraphicConfigs \in Sizes /\ oldposx = 0 /\ mCamMode = TRUE
    /\ window \in [size : {mGraphicConfigs}, closed : {FALSE}, focused : {TRUE},
                   key : {[k \in Keys |-> "up"]},
                   cursorMode : {"captured"}, cursorPos : Positions,
                   known : {0}, centered : {FALSE}]
    /\ pointer = 0 /\ events = <<>> /\ inputs = 0
    /\ asked = FALSE /\ turn = noTurn /\ tapped = {} /\ steps = {}

-----------------------------------------------------------------------------
(* The user and the window system *)

Happens(e) == events' = Append(events, e)

UserEvents ==
    {[type |-> "close"]} \cup {Motion(p) : p \in Positions} \cup {Focus(in) : in \in BOOLEAN}
        \cup {Press(k) : k \in Keys} \cup {Release(k) : k \in Keys}

\* Whether the window has the focus once the events are delivered; without it, it
\* is told of no key.
HasFocus ==
    LET told == SelectSeq(events, LAMBDA e : e.type = "focus")
    IN  IF told = <<>> THEN window.focused ELSE Last(told).in

Possible(e) ==
    /\ e.type = "move" => e.x # pointer
    /\ e.type = "focus" => e.in # HasFocus
    /\ e.type \in {"press", "release"} => HasFocus

MayHappen == pc # "stopped" /\ inputs < MaxInputs /\ Len(events) < MaxQueue

UserDoes(e) ==
    /\ MayHappen /\ Possible(e)
    /\ Happens(e) /\ inputs' = inputs + 1
    /\ pointer' = IF e.type = "move" THEN e.x ELSE pointer
    /\ UNCHANGED <<loop, app, window, history>>

\* On X11 a window that is moved and not resized reports its size, too.
UserResizes(s) ==
    /\ MayHappen
    /\ Synchronous => window.size # s
    /\ Happens(Resize(s)) /\ window' = [window EXCEPT !.size = s]
    /\ inputs' = inputs + 1
    /\ UNCHANGED <<loop, app, pointer, history>>

User == (\E e \in UserEvents : UserDoes(e)) \/ (\E s \in Sizes : UserResizes(s))

-----------------------------------------------------------------------------
(* glfwPollEvents, which calls reshape, mouseUpdate and charUpdate *)

\* MotionNotify: where the pointer is, which is news if GLFW did not put it there.
\* To the position of a captured cursor the difference is added.
MoveCursor(s, x) ==
    LET captured == s.window.cursorMode = "captured"
        by == x - s.window.known
        pos == IF captured THEN s.window.cursorPos + by ELSE x
    IN  IF by = 0 \/ (captured /\ ~s.window.focused) THEN s
        ELSE [s EXCEPT !.window.known = x, !.window.centered = FALSE, !.window.cursorPos = pos,
                       !.mailbox = IF pos = s.window.cursorPos THEN @
                                   ELSE Append(@, Move(pos, by, s.window.cursorMode))]

\* Sticky keys: a key that is let go stays "stick" until it is read.  A repeated
\* press is no GLFW_PRESS.
PressKey(s, k) ==
    [s EXCEPT !.window.key[k] = "down",
              !.mailbox = IF s.window.key[k] = "down" THEN @ ELSE Append(@, Press(k))]

ReleaseKey(s, k) ==
    [s EXCEPT !.window.key[k] = "stick", !.mailbox = Append(@, Release(k))]

\* With the focus, a captured cursor is grabbed again, if the window system lets
\* it be; when the focus is lost, every key that is down is let go.
GainFocus(s, grabbed) ==
    IF s.window.focused THEN s
    ELSE [s EXCEPT !.window.focused = TRUE,
                   !.window.centered = @ /\ ~(grabbed /\ s.window.cursorMode = "captured")]

LoseFocus(s) ==
    LET keys == s.window.key
        down == SetToSeq({k \in Keys : keys[k] = "down"})
    IN  IF ~s.window.focused THEN s
        ELSE [s EXCEPT !.window.focused = FALSE,
                       !.window.key = [k \in Keys |-> IF keys[k] = "down" THEN "stick" ELSE keys[k]],
                       !.mailbox = @ \o [i \in DOMAIN down |-> Release(down[i])]]

Deliver(s, e, grabbed) ==
    CASE e.type = "close"   -> [s EXCEPT !.window.closed = TRUE]
      [] e.type = "resize"  -> [s EXCEPT !.mailbox = Append(@, e)]
      [] e.type = "move"    -> MoveCursor(s, e.x)
      [] e.type = "focus"   -> IF e.in THEN GainFocus(s, grabbed) ELSE LoseFocus(s)
      [] e.type = "press"   -> PressKey(s, e.key)
      [] e.type = "release" -> ReleaseKey(s, e.key)

Stops(e) == e.type = "close" \/ (e.type \in {"press", "release"} /\ e.key = ESC)

\* The pointer is put into the middle; the window system reports that, too, after
\* what is still waiting.
Warp(w, waiting) ==
    /\ window' = [w EXCEPT !.known = 0]
    /\ pointer' = 0
    /\ events' = IF pointer = 0 THEN waiting ELSE Append(waiting, Motion(0))

\* The first n events are delivered, one after the other; those of grabs find the
\* cursor free to be grabbed.
Delivered(n, grabs) ==
    LET after[i \in 0 .. n] ==
            IF i = 0 THEN [window |-> window, mailbox |-> mailbox]
            ELSE Deliver(after[i - 1], events[i], i \in grabs)
    IN  after[n]

\* The events that were there when the poll began are handled; then a captured
\* cursor is put back if it moved.
Poll ==
    /\ pc = "poll"
    /\ \E n \in 0 .. Len(events) : \E grabs \in SUBSET {i \in 1 .. n : events[i] = Focus(TRUE)} :
         LET s == Delivered(n, grabs)
             waiting == SubSeq(events, n + 1, Len(events))
         IN  /\ mailbox' = s.mailbox
             /\ IF s.window.focused /\ s.window.cursorMode = "captured" /\ ~s.window.centered
                THEN Warp([s.window EXCEPT !.centered = TRUE], waiting)
                ELSE window' = s.window /\ events' = waiting /\ UNCHANGED pointer
             /\ asked' = (asked \/ \E i \in 1 .. n : Stops(events[i]))
             /\ tapped' = {k \in Keys : \E i \in 1 .. n : events[i] = Press(k)}
    /\ pc' = "update" /\ steps' = {}
    /\ UNCHANGED <<running, app, inputs, turn>>

-----------------------------------------------------------------------------
(* The rest of the frame *)

Held(k) == window.key[k] # "up"    \* glfwGetKey

\* Each pair is an if and an else-if: the second key is read if the first is up.
Steps == UNION {IF Held(p[1]) THEN {p[1]} ELSE IF Held(p[2]) THEN {p[2]} ELSE {} : p \in Opposites}
ReadKeys == {ESC} \cup UNION {{p[1]} \cup (IF Held(p[1]) THEN {} ELSE {p[2]}) : p \in Opposites}

\* Reading a key lets it go if it is sticky.
LetGo == [k \in Keys |-> IF k \in ReadKeys /\ window.key[k] = "stick" THEN "up" ELSE window.key[k]]

\* MainWorld.update
Update ==
    /\ pc = "update"
    /\ running' = (running /\ ~Held(ESC))
    /\ steps' = Steps
    /\ window' = [window EXCEPT !.key = LetGo]
    /\ pc' = "check"
    /\ UNCHANGED <<mailbox, app, system, inputs, asked, turn, tapped>>

\* Mutant: the window alone decides whether to go on.
ChecksWindowOnly ==
    /\ pc = "check"
    /\ running' = ~window.closed
    /\ pc' = "drain"
    /\ UNCHANGED <<mailbox, app, window, system, inputs, history>>

\* running = running && rendersys.shouldContinue()
Check ==
    /\ pc = "check"
    /\ running' = (running /\ ~window.closed)
    /\ pc' = "drain"
    /\ UNCHANGED <<mailbox, app, window, system, inputs, history>>

Handling(type) == pc = "drain" /\ mailbox # <<>> /\ Head(mailbox).type = type

\* glfwSetWindowSize, with the rest of the mailbox; an iconified window keeps
\* its size.
SetWindowSize(s, rest) ==
    \/ /\ window.size # s
       /\ window' = [window EXCEPT !.size = s]
       /\ IF Synchronous THEN mailbox' = Append(rest, Resize(s)) /\ UNCHANGED events
          ELSE mailbox' = rest /\ Happens(Resize(s))
    \/ mailbox' = rest /\ UNCHANGED <<window, events>>

\* Mutant: a size the window already has is not stored.
IgnoresOwnSize ==
    /\ Handling("resize")
    /\ LET s == Head(mailbox).size IN
         IF s = window.size
         THEN mailbox' = Tail(mailbox) /\ UNCHANGED <<mGraphicConfigs, window, events>>
         ELSE mGraphicConfigs' = s /\ SetWindowSize(s, Tail(mailbox))
    /\ UNCHANGED <<pc, running, oldposx, mCamMode, pointer, inputs, history>>

\* Mutant: the new size is announced by a message at once.
Announces ==
    /\ Handling("resize")
    /\ LET s == Head(mailbox).size IN
         /\ mGraphicConfigs' = s
         /\ window' = [window EXCEPT !.size = s]
         /\ mailbox' = Tail(mailbox) \o IF s = window.size THEN <<>> ELSE <<Resize(s)>>
    /\ UNCHANGED <<pc, running, oldposx, mCamMode, pointer, events, inputs, history>>

\* graphicConfigs = newConf
HandleResize ==
    /\ Handling("resize")
    /\ mGraphicConfigs' = Head(mailbox).size
    /\ SetWindowSize(Head(mailbox).size, Tail(mailbox))
    /\ UNCHANGED <<pc, running, oldposx, mCamMode, pointer, inputs, history>>

\* The turn of the camera that message m makes, if the camera follows the mouse.
TurnBy(m) ==
    [by |-> IF mCamMode THEN m.xpos - oldposx ELSE 0, moved |-> m.moved,
     mode |-> m.mode, first |-> turn = noTurn]

\* Mutant: the old position is only kept up while the camera follows the mouse.
FollowsOnly ==
    /\ Handling("mpos")
    /\ oldposx' = IF mCamMode THEN Head(mailbox).xpos ELSE oldposx
    /\ mailbox' = Tail(mailbox)
    /\ turn' = TurnBy(Head(mailbox))
    /\ UNCHANGED <<pc, running, mGraphicConfigs, mCamMode, window, system, inputs, asked, tapped, steps>>

HandleMouse ==
    /\ Handling("mpos")
    /\ oldposx' = Head(mailbox).xpos
    /\ mailbox' = Tail(mailbox)
    /\ turn' = TurnBy(Head(mailbox))
    /\ UNCHANGED <<pc, running, mGraphicConfigs, mCamMode, window, system, inputs, asked, tapped, steps>>

\* SPACE lets the cursor go or captures it; it may not be possible to grab it.
HandlePress ==
    /\ Handling("press")
    /\ IF Head(mailbox).key = SPACE
       THEN /\ mCamMode' = ~mCamMode
            /\ \E grabbed \in BOOLEAN :
                 Warp([window EXCEPT !.cursorMode = IF mCamMode THEN "normal" ELSE "captured",
                                     !.centered = @ /\ (mCamMode \/ ~grabbed)], events)
       ELSE UNCHANGED <<mCamMode, window, system>>
    /\ mailbox' = Tail(mailbox)
    /\ UNCHANGED <<pc, running, mGraphicConfigs, oldposx, inputs, history>>

HandleRelease ==
    /\ Handling("release")
    /\ mailbox' = Tail(mailbox)
    /\ UNCHANGED <<pc, running, app, window, system, inputs, history>>

NextFrame ==
    /\ pc = "drain" /\ mailbox = <<>>
    /\ pc' = IF running THEN "poll" ELSE "stopped"
    /\ UNCHANGED <<running, mailbox, app, window, system, inputs, history>>

-----------------------------------------------------------------------------
Loop == \/ Poll \/ Update \/ Check \/ NextFrame
        \/ HandleResize \/ HandleMouse \/ HandlePress \/ HandleRelease

Next == User \/ Loop

Spec == Init /\ [][Next]_vars

\* The main thread runs on: nothing in the loop waits for anything.
FairSpec == Spec /\ WF_vars(Loop)

-----------------------------------------------------------------------------
(* Properties *)

\* What the user does counts in the very frame that polled it, even a key let go
\* again before the poll: ESC or the closing of the window ends the loop, and
\* nothing else does; any other key steps the camera, unless the opposite key does.
InputCounts ==
    /\ pc = "poll" => ~asked
    /\ pc = "stopped" => asked
    /\ pc = "check" => \A p \in Opposites :
          /\ p[1] \in tapped => p[1] \in steps
          /\ p[2] \in tapped => p[1] \in steps \/ p[2] \in steps

InFlight == mailbox \o events
Resizes == {i \in DOMAIN InFlight : InFlight[i].type = "resize"}

\* However resizes by the user and by the application overtake each other, the last
\* one on its way has the size of the window; when none is, the configuration has.
SizeAgrees ==
    window.size = IF Resizes = {} THEN mGraphicConfigs ELSE InFlight[Max(Resizes)].size

\* The camera turns by what the captured cursor moved, whatever positions the free
\* cursor had in between.  (Not so for the first movement, which starts from where
\* the cursor was, and for one that was reported before SPACE was handled.)
TurnsAsMoved ==
    turn.mode = "captured" /\ ~turn.first /\ turn.by # 0 => turn.by = turn.moved

\* The messages of a frame come to an end.
FrameEnds == pc = "drain" ~> pc # "drain"
=============================================================================

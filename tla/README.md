# Thunder Engine: TLA+ models and proofs

This directory models the parts of Thunder Engine (D, `src/src/`) whose behaviour
depends on the order in which things happen: the server's reading threads, its
accepting loop, the lazy singletons, the logs, the frame loop and the window library it
talks to, the resource manager, the configuration file, the scene graph, the camera, the
console and the small containers. Each module is translated from the code; `PROJECT.json`
maps every definition to the lines it stands for, lists the runs of TLC, the hazards the
properties are aimed at and the theorems proved with TLAPS.

## The system

| component | source | state it keeps | operations | what makes it correct |
|---|---|---|---|---|
| reading thread and framing | `util/net/socketManager.d:79-189`, `util/iprotocol.d:63-142`, `util/protocol.d:260-281` | the receive buffer, `addtBuf`, `flag`, `_reads`, `_rest`, the round's messages | receive, cut the bytes into messages, stash the rest, call the messages | no byte is called twice, messages are called in order; with a well-behaved peer none is lost and nothing else is called |
| test client | `util/net/clSocketManager.d` | how far the script is | six sends with a pause after each | the server understands all of it |
| connection registry | `util/net/socketManager.d:30-70` | `connections`, `count`, the mailbox of the accepting thread | accept, spawn, take a removal message | `count` and the list mean what the loop takes them for |
| singleton | `util/singleton.d` | `initialized` (per thread), `mSingleton` (shared), the class monitor | `getSingleton` | one object, the same for everyone |
| scene graph | `client/scenenode.d`, `client/stdscenemanager.d` | tree of nodes, names, poses, cached matrices | add, name, remove in three ways, move, read the matrix, walk, clear | names lead to children, the walk meets each node once, matrices are current |
| models of a node | `client/scenenode.d:249-325` | `mModels`, `mNamedModels` | attach, remove in three ways | removal takes the right model and keeps the rest |
| list, linked array | `util/list.d`, `util/linkedarray.d` | chain of elements with cached lengths; chunks | push and pop at both ends; append, index, slice | a deque; an array |
| log | `util/log.d` | a thread-local map of open files, a position and a buffer for each | create, close, write, the end of a thread | messages given to an open log reach its file, in order |
| resources | `util/resources/*` | groups, archives, factories, loaded resources | load the configuration, find, open, cache, register | the resource asked for is the one returned |
| configuration and text format | `util/conf.d`, `util/serialization/gendoc.d`, `util/serialization/serializer.d`, `util/parser.d` | the file | write, read with a default, read critically | what was written is read back; an old or broken file gives the default and no mixture |
| client application | `client/app.d`, `client/mainworld.d` | the current world, `running`, the mailbox, the cursor | a frame: draw, poll, update, drain the mailbox | events are handled once and in order; the loop ends |
| window library | `Dependencies/GLFW3/src/` | keys, cursor, focus, the window's size | gather events, call back, capture the cursor | a movement and a key count once |
| camera | `client/camera.d` | position, target, the timed move under way | move at once or in time, turn, update | a timed move ends at its place and time |
| server console | `server/app.d`, `util/concomms/*` | the list of commands | read a line, split it, execute | the command typed is the one executed; the end of the input ends the loop |
| models and codecs | `client/model/objcodec.d` and others | the decoded lines, the vertex buffer | read lines, index the corners | a face is drawn with its own corners |
| automata | `util/parsing/automata.d` | the state of the matcher | transfer, validate | the words of the rules are accepted, no others |
| select listener | `util/net/socket.d` | the list of sockets | select, accept, read | dead code, see "Not modelled" |
| rendering, mathematics, small utilities | `client/rendersys.d`, `client/texture.d`, `util/matrix.d` ... | | | see "Not modelled" |

How they interact: the accepting loop spawns one reading thread per connection and
hears of its end by a message in its mailbox; the reading thread calls messages
directly. The window library's callbacks write to the main thread's mailbox, which the
frame loop drains. The renderer asks the scene manager for the queue of meshes and
reads each node's matrix. Resource manager, archive manager, renderer and application
are singletons.

Hard behaviours: a TCP stream cut anywhere, threads that end without a word, counters
that drift from what they count, caches that outlive what they were computed from,
arrays changed while they are looped over, off-by-one errors at a boundary. Every one
is listed at its line under `hazards` in `PROJECT.json`.

## Modules

### Network

`ReadingThread` is one connection. A frame on the wire is a size, an identifier and a
body; contents do not matter for what is lost, repeated or reordered, so the model
keeps *offsets into the stream*: `frames` is what the peer sent, `lo .. hi` the bytes
in `actualBuf` (in `addtBuf` while `flag` holds), `reads` and `rest` are `_reads` and
`_rest`. Where the reader is in the middle of a frame, the size it reads is any number
and the bytes after it may be built into a message or not: they are those of an identifier
or of a compressed body, and may look like anything. A message is therefore known by the
bytes it was built from, `[from, to)`, and `Message(i)` are those of frame `i`. The actions
follow the code:

| action | code |
|---|---|
| `Receive`, `Disconnected`, `AddressFails` | the receive, its failure, the exception of `remoteAddress()` that nothing catches |
| `EndOfBuffer`, `SizeCut`, `TooBig`, `IdCut`, `BodyCut`, `WholeFrame` | one iteration of the loop of `readObjects`, one action per way it can go |
| `KeepBuffer`, `KeepTail`, `KeepNothing` | what is stashed in `addtBuf` |
| `Call`, `NextRound` | `foreach (Msg; msgs) Msg()` |

`MessageFeed` is what the thread promises whatever the peer does: an ordered feed of
messages that may lose some, and call something else in the place of one it lost (`Garble`).
`ReadingThread!FeedSpec` is the refinement: what is called belongs to the frame its bytes
begin in.
`CooperativePeer` restricts the environment to the conditions under which nothing is
lost and nothing else is called (`OnlySent`); the code relies on them and states them nowhere. `ClientScript` is the one client
in the sources, `connect()`, as an environment of the same thread.
`ConnectionRegistry` is `listen()`; of a reading thread it keeps only whether it runs,
ended with a message, or died silently.

### Threads of a process

`Singleton`: in D a `static` variable is thread local, so `initialized` is a function of
the thread while `mSingleton` is shared. The model's steps are the points between which
another thread may come.

`Log` keeps, for each thread and log, the entry of the thread's map, the position of its
handle and what stdio holds back; `file` is shared. A line takes one place of the file:
`WriteAt` puts lines over what is there, and leaves a `hole` where nobody wrote. `Open`
truncates, as mode "w" does. `kept` and `opened` are history variables: the lines given
while the log was open, and who ever opened the file.

`Console` is the loop over the lines of the input with `translate`, `exec`, `register`
and the two commands. A name the program knows is one character: what a lost last letter
leaves of it is not a name in either reading.

`MCThreads` composes the three: a behaviour is about the object, the logs or the console,
which share no variable.

### Scene

`SceneGraph` has one action per call. Position and rotation are one number, the pose,
accumulated along the ancestors; a matrix is the pair it is computed from. `blamed` is a
history variable: it holds for a node whose cached matrix may be stale because of what
the code forgets to mark. `NodeModels` is kept apart: the two arrays of a node do not
interact.

### Client loop

`AppLoop` is a frame of `startLooping`: `Poll` hands what the window system has gathered
to the library, whose callbacks write to the mailbox; `Update` is `MainWorld.update`;
`Check` is the line on `running`; one `Handle...` action per kind of message drains the
mailbox. The other half of the module is the part of GLFW the loop talks to, translated
from its sources: keys that stick until they are read (`input.c`), the focus whose loss
lets keys and cursor go (`window.c`), the captured cursor whose movements are added up and
which is put back into the middle of the window after each poll, with movements of before
still on their way (`x11_window.c`). A poll may find only a part of what the user did. The
cursor may not be free to be grabbed (`grabbed`), and a window that is moved reports its size
as if it were resized (`UserResizes` with the size it has).
The size callback comes by an event of the window system (X11) or from inside
`glfwSetWindowSize` (Windows): the constant `Synchronous`.

`Camera` is on one line, where a direction is a sign and `rotate` a half turn. `nan` is a
value of its own: the direction of the null vector. Only speeds that are whole numbers are
taken. `blamed` holds once the camera was put elsewhere during a timed move, or the move
was one of no length.

### Resources

`Resources` is the manager with its groups, archives and factories and the part of
`conf.d` it uses. Names are kept as far as they matter: the cache is keyed by file name and
group name written one after the other, so extensions and group names are sequences of
letters and two different requests can meet in one key. Files appear and disappear under
the manager, and whoever passed an archive to `addEntry` may close it or open it elsewhere.
`blamed` holds the groups for which that happened since `hasFile` answered; `answers`
remembers what `getResource` returned.

### Files and formats

`Gendoc` is the text format: `Write` what the archives of `gendoc.d` write for a structure
of plain fields, strings, arrays and maps, `Read` what the parser and the archives make of
any text. Texts are sequences of characters, because which character cuts what is the
question; names and numbers are one character. Exceptions are values, `Exception` and
`Error`, that `Unless` passes on: `readConf` catches the first, nobody the second.
`Conf` is the file: written over without truncating, broken off at any character when the
program dies, read with or without the default. `Gendoc` holds the RECURSIVE operators of
the project and is used by no module with a theorem.

`ObjMesh` is the decoding of an obj file: lines in any order, then the corners of the faces,
each looked up among the vertices listed so far by the comparison the code makes, the
comma in its condition included. `Automaton` is the matcher generated for any rules, with
the fall-through of a state without rules.

### Containers

`List` keeps the length every `Element` caches, because the bug of `popBack` is in them;
`Deque` is what it implements. `LinkedArray` numbers the elements appended, so a lost or
displaced one shows. `Structures` is a program that uses one of what one thread uses alone:
list, array, models of a node, camera, mesh or matcher. `MCStructures` adds the configuration
file, and is apart because `Conf` must not be reached from a module with a theorem.

## Runs

| run | asks | bounds, and why they are enough | result |
|---|---|---|---|
| `reading_thread` | what holds with any peer | 3 frames of 3 body lengths, one of them longer than the buffer of 3 bytes; header of 2+1 bytes; the constraint `Bound` lets one frame at most be unknown or too long, at any place. Every receive size, every cut, two rounds of stashing, and a reader out of step that takes any bytes for messages, of one byte up to the longest | holds |
| `cooperative_peer` | what a well-behaved peer gets | 3 frames, buffer of 5 | holds |
| `client_script` | the six sends of `connect()` | the real script with short bodies; the reader may lag by any number of pieces | holds |
| `connection_registry` | list, counter, mailbox | limit 2, 5 connections: the limit is reached, with every mix of ended and dead threads | holds |
| `threads` | double-checked locking; logs of several threads; the console | 3 threads, 2 objects (a second would show); 2 writers of one log, 4 messages each: either can overtake the other and be overtaken, before and after a spill; lines of at most 3 characters out of 5 words and the blank: blanks at the beginning, in a row and at the end | holds |
| `scene_graph` | names, walk, caches | 4 nodes, 2 names, 2 poses, 2 scales. Matrices and names are explored by turns (the constraint `Bound`: transforms on up to three nodes without names, names without transforms): the two share no variable but the tree | holds |
| `scene_stale` | do matrices follow the ancestors? | 3 nodes | violated |
| `mesh_corners` | is a corner drawn with its own vertex? | 2 vertices, one face | violated |
| `structures` | what one thread uses alone | list of 4 elements with lengths modulo 8; 12 elements in chunks of 3: up to four chunks; 3 models, 2 names, array of 4: a model twice, with two names, next to others; camera sent to -2, 1 and 4 at once or in 1 or 2 frames, frames of 1 and 3; meshes of 2 vertices and 2 normals out of values equal in one coordinate or another; all automata with 3 states and 2 letters for two sets of end states; files written twice with a string, an array or a map and a number, strings of up to 2 of the characters the format treats specially and of up to 4 round and square brackets: enough for two square ones to push a round one out of the quotes | holds |
| `resources` | caches and arrays of the manager | 2 directories, 2 files and 2 groups whose names run into each other (`x` with `ng`, `xn` with `g`), 3 factories of 2 types, 3 archives, 2 resources. The constraint `Bound` keeps two answers, two files, and one factory once there are groups: answers are compared in pairs, and factories meet groups only in `getResource` | holds |
| `app_loop` | the frame loop with window events at every point | 5 events of the user, 3 of them waiting at once; 2 sizes; 2 cursor positions; one pair of opposite keys. A user works with mouse, focus and SPACE or with the other keys, and resizes in both cases: mouse and keys share no variable but the focus. The window is moved without a change of size only as the first of the events: one more message of the size it has. X11 | holds |
| `app_loop_windows` | does a frame end where the size callback is synchronous? | 2 resizes | violated |

Nine modules state their types as `TypeOK`. `reading_thread` checks the one that is a
theorem of its own; those of the resources and the frame loop are theorems too (`ManagerTypes`,
`LoopTypes`), and those of the singleton, the registry and the log are conjuncts of inductive
invariants.

`CHECK_DEADLOCK FALSE` is set in all of them: a connection that is closed, a loop that
returned, a scene that used all its nodes really stop.

Fairness. `cooperative_peer` and `client_script` assume that the reading thread, which
blocks only in `receive`, goes on (weak fairness of its steps), and that the script goes
on sending. `threads` assumes for `CallReturns` that a thread runs on (weak fairness) and
that the monitor is not withheld for ever from one that waits (strong fairness of `Enter`),
and for `EndOfInputEnds` that the console's loop runs on once the input has ended: `readln`
does not wait there.
`app_loop` and `app_loop_windows` assume that the main thread, which waits for nothing in
its loop, runs on.
Nothing else is assumed fair.

## Divergences

Three runs show a disagreement between the code and its documentation:

- `scene_stale`: a node keeps the matrix it was last drawn with when its parent moves
  (`scenenode.d:96`), though coordinates are relative (`scenenode.d:7-9`).
- `mesh_corners`: the condition of `listedInVBO` joins its comparisons by a comma
  (`objcodec.d:201`), so corners that differ in x or y only share a vertex.
- `app_loop_windows`: two resizes in one frame keep the loop from ever drawing again
  (`app.d:84`), though it is documented as the endless loop of drawing and events. On X11
  the same two messages change the size from frame to frame, for ever; `SizeAgrees` says
  what still holds then.

Met on the way, without a run of their own, modelled as the code has it: `removeModel(string)`
cuts the array inside the loop over it (`scenenode.d:294`); `addChild` does not overwrite an
existing node (`scenenode.d:161`); `Element.popBack` leaves length 0 (`list.d:193`);
`LinkedArray`'s append drops elements (`linkedarray.d:87`); each thread that writes to a log
empties it (`log.d:73`); a timed move to where the camera is makes its position NaN
(`vector.d:331`); a matcher falls through states without rules (`automata.d:263`); the parser
tests an unsigned position for being negative (`parser.d:689`); `translate` takes a letter off
a line without a newline (`commandmng.d:82`); the first movement of the mouse, and one polled
together with SPACE, turn the camera by the wrong amount (`app.d:200`); `openFile` does not
search all archives (`resgroup.d:118`); two requests of different files in different groups
whose names run into one string get one resource, that of the first (`resmng.d:156`), though
the group is documented as the one searched; the brackets of a quoted string are escaped
between positions that are out of date after the first kind, so that a string like `[]()` is
not read back (`parser.d:482`).

What the format of the configuration cannot hold is in `Conf!Holdable`: arrays of fewer than
two elements; map entries of other than one letter or digit; strings with quotes, tabs, braces,
escapes, bells or comments, strings in which an opening bracket is not followed by a closing
one, and those in which the escaping of square brackets moves an opening round one beyond the
closing quote (`MovesTo`).

## Proofs

TLC checks the instances above; the theorems below hold for every value of the constants that
satisfies the assumptions named. All safety invariants, action properties and refinements the
passing runs check are proved, but the two of the configuration file. A theorem about a part
that a run composes with others (`Structures`, `MCThreads`) is about the part's own
specification, an instance of its module; the steps of the other parts leave its variables
alone. For `MCThreads` the composition is proved too.

**`NetworkProofs`**: the reading thread and what it is sent.
`TypeOK`, `InOrder`, `RoundComplete` and the refinement `FeedSpec` of
`MessageFeed`, from `FramingAssumption` (lengths are positive, a header fits the buffer).
`InOrder` is not inductive: it must be known where the messages of the round lie. `IInv` adds
`Layout` (frames follow each other in the stream), `Buffer` (`lo + reads <= hi <= Total`),
`NoFlag` (`flag` only holds while waiting) and `Consumed` (whatever was called or waits to be
called ends at or before the reader's position, in order, and no two of them share a byte). For
the refinement, `FInv` adds that frames cover the stream (`Tiled`), so that each message begins
in one of them, and that one which begins where a frame does is of a frame the reader knows
(`Origin`). For `RoundComplete`, `Stepping` adds
that in a buffer that starts at a frame the reader stands at a frame, and has built every
message before it.
`NoLoss`, `OnlySent`, `NeverDies`, `RestIsMissing`, `StashBounded` of `CoopSpec`, from `SmallBodies` too:
`CInv` says for every point of the round where the reader stands, at the start of a frame,
with everything before it called or about to be, and `rest` equal to what the cut frame misses.
That the reader is never out of step is what makes `OnlySent` true, and only there: without the
four conditions it does not hold.
`ScriptIsCooperative`: the client of the sources keeps the conditions of the cooperative peer,
for bodies of any two sizes (`ScriptAssumption`); hence it loses nothing either, and nothing else is called
(`ScriptLosesNothing`). `ScriptInv` carries the arithmetic: a piece ends in the middle of a
body or at a frame, never in a header.

**`ConnectionRegistryProofs`**: `CountMeaning`, `LiveListed` and `NeverRecovers` for any limit
and number of connections. Who is counted must be known by name: the invariant adds that the
threads are numbered in the order they came (`InTurn`), that whoever sent a message that waits
has closed (`Senders`), and that only threads that came are listed (`Listed`). For
`NeverRecovers` it is the predicate `AtLeast(k)`, stable from one head of the loop to the next.

**`ThreadsProofs`**: the parts of `MCThreads`, each alone and in the process.
- `OneInstance` and `NoneLost` for any number of threads, from `null \notin Instances`: only
  the owner of the monitor is between `Enter` and `Leave`, and a thread's `initialized` holds
  only after `mSingleton` was set.
- `OwnLogWhole` and `LinesAtTheirPlace` for any threads, logs and messages: what a handle kept
  is what it wrote followed by its buffer (`Handle`); while one thread only opened the file, the
  file is what that thread wrote (`OnlyWriter`); and each line in a file stands at its number
  (`Placed`).
- `WordsAreTheLine` for any alphabet and any length of the line. The loop's part is small:
  while it is on, `argv` is `Translate(line)`. The rest is about `Translate`, whose words are
  defined by counting the ends before them: `WordsAreCut` turns the count into an increasing
  function from the words to their ends, and `CutsJoin` puts the pieces together again.

**`SceneGraphProofs`**, from `SceneAssumption` (finitely many nodes).
- `NamesResolve`: a child has at most one name, so the one `removeChild` forgets is all there is.
- `StaleOnlyIfBlamed`: `TreeInv` says that the nodes form a forest and that whoever has a node
  among its childs is its parent and has it once; `MatrixInv` that what is cached and not marked
  is what would be computed, unless the node is blamed. A move changes the poses of the nodes
  below the moved one and of no other, which is the lemma about `Under` and `AbsPose`.
- `DrawnOnce`: the queue of the walk has no node twice because each is put there by its one
  parent (`WalkInv`); so it is no longer than there are nodes, the walk ends, and what is in it
  when it ends is closed under childs.

**`StructuresProofs`**: what one thread uses alone, from `ListAssumption` and
`StructuresAssumption`, whose parts are named below. `EachIsAlone` says that a program that uses
one of the parts leaves each to behave as it does alone, so `ProgramKeepsAll`: in it they keep
everything listed here.
- `AcceptsItsLanguage` for any automaton with distinct states of which all but the last have a
  rule (`StatesAreDistinct`): the state of the switches is the state of the rules.
- `ArrivesOnTime` for any places, lengths of moves and frames, if coordinates and times are
  integers (`Measures`): while there is time left on an undisturbed move, speed and way are not
  zero.
- `LengthOffByOne` and the refinement `IsDeque`: every `Element` counts the ones behind it and
  itself, or misses one. Length and contents are independent, which is why a list whose lengths
  are wrong still is a deque.
- `FittingAppendKeeps` for any chunk size but 0 (`HaveRoom`): all chunks but the last are full
  (`Chunked`), which the loop of `opOpAssign` keeps in spite of what it loses; so quotient and
  remainder of an index find its element (`ChunksAreLaidOut`, `DivIs`).
- `MeshKeepsDepth` for any file: each index leads to a vertex that is a corner converted no
  later and alike, and no two vertices are alike (`MeshInv`).
- `NamesStayAttached`, an action property: it holds for each step from a state where models are
  attached once and have one name each, if null is no model (`NullIsNoModel`).

**`ResourcesProofs`**, from `ResourcesAssumption`: the module's types, and
- `OneFactory`: no two registered factories share an extension (`FactoryInv`), through the loop
  of `unregistryFactory` that cuts the array it runs over;
- `OpensFirst` and `GroupsWhole`: the archives of a group are those its configuration asks for,
  as far as nobody else closed or moved them, and what `hasFile` remembers is the first archive
  that has the file, unless the group is blamed (`StoreInv`). The groups are loaded by a
  recursive function over the configuration: `LoadedTo` is its invariant;
- `AnswersTheRequest`: each answer is what the cache holds under the key of the request, a
  resource made for a request with that key, and no two keys hold the same (`CacheInv`); so two
  requests whose names do not collide are never answered with each other's resource.

**`AppLoopProofs`**, from `AppAssumption`: the module's types, and
- `TurnsAsMoved`: the movements that wait in the mailbox follow each other from `oldposx` to where
  the cursor is (`Chained`), however many modes they were made in;
- `SizeAgrees`, where the size callback comes as an event (`~Synchronous`, as in the run): the
  newest resize under way, in the mailbox or in the window system, has the size of the window
  (`Newest`). Where it comes from inside `glfwSetWindowSize`, a resize by the user that waits
  for the poll is overtaken, and it need not;
- `InputCounts`: for each part of the frame, whether the end was asked for is known from what the
  loop will still look at (`Counts`).
A poll delivers a number of events by a recursive function: `Reached(i, s)` is its invariant.

**`InductionLemmas`** holds what the others rest on: induction over the natural numbers, that a
recursive function over them is what its definition asks for, and that `FlattenSeq` puts the
parts together one after the other. The library's theorems take an operator as a parameter,
which no prover here instantiates; these are stated for sets and functions (`T \in SUBSET Nat`
with 0 in it and closed under successors is `Nat`), which is enough for the recursive functions
and the folds over sequences of these models.

Only model-checked:

- liveness: `AllCalled`, `ConversationCompletes`, `CallReturns`, `EndOfInputEnds`, `FrameEnds`;
- `ComesBack` and `NeverMixed` of the configuration file: `Gendoc` reads and writes with RECURSIVE
  operators, about which nothing can be proved;
- the three properties that are violated.

## Not modelled

- Vertical turns of the camera and their limit angles, `roll`, and turns by other than a half
  turn: floating point.
- `SelectListener` (`util/net/socket.d`): dead code. `run`, `add` and `remove` are private and
  nothing calls them.
- Rendering, textures, materials, the buffers of a mesh: calls into OpenGL, GLFW and FreeImage
  whose effects lie outside the program.
- Mathematics on floating point numbers: equalities hold only approximately.
- The binary archive, which reads what it wrote in the same order and widths; the mdl format,
  whose parser is an older copy of `util/parser.d`; nested structures in `Gendoc`.
- Of the window library, what the program does not use. The other libraries in
  `Dependencies/`, `scripts/` (building), `Media/`, `docs/`.

## Plan

1. Done: network, singleton, logs, console, scene, camera, containers, resources, frame loop
   and window library, configuration and its format, meshes, automata; proofs of every safety
   property of these but those of the configuration.
2. Left to model: `getFileList` and writing streams of the resources; nested structures in
   `Gendoc`; the vertical turn as a bounded counter.
3. Left to prove: that what `Gendoc` writes is read back, after its RECURSIVE operators are
   written as recursive functions.

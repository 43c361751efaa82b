------------------------------ MODULE Singleton ------------------------------
(***************************************************************************)
(* getSingleton of util/singleton.d: double-checked locking in which the   *)
(* first, unlocked check reads a variable of the calling thread.  In D a   *)
(* `static` variable is thread local and a __gshared one belongs to the    *)
(* process, so                                                             *)
(*                                                                         *)
(*   initialized[t]   is `initialized` as thread t sees it                 *)
(*   mSingleton       is the one variable all threads share                *)
(*                                                                         *)
(* and the monitor of T.classinfo serialises the rest.  A step is what a   *)
(* thread does between two points where another may come in between.       *)
(***************************************************************************)
EXTENDS Naturals, FiniteSets

CONSTANTS
    Threads,
    Instances,    \* objects `new T()` may return, each once
    null          \* the null reference

ASSUME SingletonAssumption == null \notin Instances

VARIABLES
    pc,             \* where thread t is in getSingleton
    initialized,
    mSingleton,
    monitor,        \* the threads inside synchronized(T.classinfo)
    created,        \* objects constructed so far
    result          \* history: the objects getSingleton returned to t

vars == <<pc, initialized, mSingleton, monitor, created, result>>

TypeOK ==
    /\ pc \in [Threads -> {"idle", "enter", "check", "create", "read", "leave"}]
    /\ initialized \in [Threads -> BOOLEAN]
    /\ mSingleton \in Instances \cup {null}
    /\ monitor \in {{}} \cup {{t} : t \in Threads}
    /\ created \in SUBSET Instances
    /\ result \in [Threads -> SUBSET (Instances \cup {null})]

Init ==
    /\ pc = [t \in Threads |-> "idle"]
    /\ initialized = [t \in Threads |-> FALSE]
    /\ mSingleton = null
    /\ monitor = {}
    /\ created = {}
    /\ result = [t \in Threads |-> {}]

-----------------------------------------------------------------------------
Goto(t, place) == pc' = [pc EXCEPT ![t] = place]

Return(t, object) == result' = [result EXCEPT ![t] = @ \cup {object}]

\* Mutant: `initialized` shared by the threads and set before the object is.
SharedFlag(t) ==
    /\ pc[t] = "idle"
    /\ Goto(t, IF \E s \in Threads : initialized[s] \/ pc[s] = "create"
               THEN "read" ELSE "enter")
    /\ UNCHANGED <<initialized, mSingleton, monitor, created, result>>

\* if (initialized) return mSingleton, with no lock held; else go for the lock.
Call(t) ==
    /\ pc[t] = "idle"
    /\ Goto(t, IF initialized[t] THEN "read" ELSE "enter")
    /\ UNCHANGED <<initialized, mSingleton, monitor, created, result>>

ReadUnlocked(t) ==
    /\ pc[t] = "read"
    /\ Return(t, mSingleton)
    /\ Goto(t, "idle")
    /\ UNCHANGED <<initialized, mSingleton, monitor, created>>

\* The monitor lets one thread in.
Enter(t) ==
    /\ pc[t] = "enter"
    /\ monitor = {}
    /\ monitor' = {t}
    /\ Goto(t, "check")
    /\ UNCHANGED <<initialized, mSingleton, created, result>>

\* if (mSingleton !is null) return mSingleton;
Check(t) ==
    /\ pc[t] = "check"
    /\ Goto(t, IF mSingleton # null THEN "leave" ELSE "create")
    /\ UNCHANGED <<initialized, mSingleton, monitor, created, result>>

\* mSingleton = new T();
Create(t) ==
    /\ pc[t] = "create"
    /\ \E object \in Instances \ created :
         /\ created' = created \cup {object}
         /\ mSingleton' = object
    /\ Goto(t, "leave")
    /\ UNCHANGED <<initialized, monitor, result>>

\* Mutant: an explicit lock, not released when the constructor throws.
FailsLocked(t) ==
    /\ pc[t] = "create"
    /\ Goto(t, "idle")
    /\ UNCHANGED <<initialized, mSingleton, monitor, created, result>>

\* The constructor throws: scope(success) does not run, the monitor is left and
\* the caller gets the exception.
CreateFails(t) ==
    /\ pc[t] = "create"
    /\ monitor' = {}
    /\ Goto(t, "idle")
    /\ UNCHANGED <<initialized, mSingleton, created, result>>

\* return mSingleton, with scope(success) initialized = true.
Leave(t) ==
    /\ pc[t] = "leave"
    /\ Return(t, mSingleton)
    /\ initialized' = [initialized EXCEPT ![t] = TRUE]
    /\ monitor' = {}
    /\ Goto(t, "idle")
    /\ UNCHANGED <<mSingleton, created>>

Step(t) ==
    \/ Call(t) \/ ReadUnlocked(t)
    \/ Enter(t) \/ Check(t) \/ Create(t) \/ CreateFails(t) \/ Leave(t)

Next == \E t \in Threads : Step(t)

Spec == Init /\ [][Next]_vars

\* A thread in getSingleton runs on, and the monitor is not withheld for ever
\* from a thread that waits for it.
FairSpec ==
    /\ Spec
    /\ \A t \in Threads :
         /\ WF_vars(ReadUnlocked(t) \/ Check(t) \/ Create(t) \/ CreateFails(t) \/ Leave(t))
         /\ SF_vars(Enter(t))

-----------------------------------------------------------------------------
(* Properties *)

\* All callers of all threads get one and the same object, and never null: the
\* unlocked read finds what an earlier locked call of its own thread saw.
OneInstance ==
    \A s, t \in Threads : \A a \in result[s], b \in result[t] : a = b /\ a # null

\* No object is constructed and then forgotten for another.
NoneLost == created \subseteq {mSingleton}

\* A thread that needs the lock gets an answer or an exception.
CallReturns == \A t \in Threads : pc[t] = "enter" ~> pc[t] = "idle"
=============================================================================

------------------------------ MODULE NodeModels ------------------------------
(***************************************************************************)
(* The models attached to one SceneNode of client/scenenode.d: the array   *)
(* mModels, in which a model may occur more than once, and the names       *)
(* mNamedModels.                                                           *)
(***************************************************************************)
EXTENDS Integers, Sequences, SequencesExt, FiniteSets, Functions

CONSTANTS
    Models, Names,
    noName,        \* the empty string, not in Names
    noModel,       \* null, not in Models
    MaxModels      \* bound: the length of mModels

VARIABLES
    mModels,
    mNamedModels,    \* total: noModel where the name is not registered
    failed           \* a RangeError ended the program

vars == <<mModels, mNamedModels, failed>>

TypeOK ==
    /\ mModels \in Seq(Models)
    /\ mNamedModels \in [Names -> Models \cup {noModel}]
    /\ failed \in BOOLEAN

Init ==
    /\ mModels = <<>>
    /\ mNamedModels = [s \in Names |-> noModel]
    /\ failed = FALSE

Attach(m, name) ==
    /\ ~failed
    /\ Len(mModels) < MaxModels
    /\ mModels' = Append(mModels, m)
    /\ mNamedModels' = IF name = noName THEN mNamedModels ELSE [mNamedModels EXCEPT ![name] = m]
    /\ UNCHANGED failed

-----------------------------------------------------------------------------
(* removeModel(string): foreach runs over the array as it was, by index, while *)
(* the body cuts index i out of the array as it is now.                        *)

Ok(s) == [ok |-> TRUE, seq |-> s]
RangeError == [ok |-> FALSE, seq |-> <<>>]

\* s[0..i] ~ s[i+1..$], with the bounds checked.
Cut(r, i) ==
    IF r.ok /\ i <= Len(r.seq) THEN Ok(RemoveAt(r.seq, i)) ELSE RangeError

\* The loop of removeModel over the original array orig.
RemoveAll(orig, m) ==
    LET after[i \in 0 .. Len(orig)] ==
            IF i = 0 THEN Ok(orig)
            ELSE IF orig[i] = m THEN Cut(after[i - 1], i) ELSE after[i - 1]
    IN  after[Len(orig)]

RemoveByName(name) ==
    /\ ~failed
    /\ mNamedModels[name] # noModel
    /\ LET r == RemoveAll(mModels, mNamedModels[name]) IN
         IF r.ok
         THEN /\ mModels' = r.seq
              /\ mNamedModels' = [mNamedModels EXCEPT ![name] = noModel]
              /\ UNCHANGED failed
         ELSE failed' = TRUE /\ UNCHANGED <<mModels, mNamedModels>>

\* Mutant: a removed model keeps its name.
ForgetNothing(m) == mNamedModels' = mNamedModels

\* getNameOfModel: one of the names of m, which is then forgotten.
Forget(m) ==
    LET names == {s \in Names : mNamedModels[s] = m}
    IN  IF names = {} THEN mNamedModels' = mNamedModels
        ELSE \E s \in names : mNamedModels' = [mNamedModels EXCEPT ![s] = noModel]

RemoveByIndex(i) ==
    /\ ~failed
    /\ i \in DOMAIN mModels
    /\ Forget(mModels[i])
    /\ mModels' = RemoveAt(mModels, i)
    /\ UNCHANGED failed

\* removeModel(Model): the first occurrence.
RemoveModel(m) ==
    /\ ~failed
    /\ m \in Range(mModels)
    /\ Forget(m)
    /\ mModels' = RemoveFirst(mModels, m)
    /\ UNCHANGED failed

Next ==
    \/ \E m \in Models, name \in Names \cup {noName} : Attach(m, name)
    \/ \E name \in Names : RemoveByName(name)
    \/ \E i \in 1 .. MaxModels : RemoveByIndex(i)
    \/ \E m \in Models : RemoveModel(m)

Spec == Init /\ [][Next]_vars

-----------------------------------------------------------------------------
(* Properties *)

NamesAttached ==
    \A s \in Names : mNamedModels[s] # noModel => mNamedModels[s] \in Range(mModels)

Simple ==
    /\ IsInjective(mModels)
    /\ \A s, t \in Names : mNamedModels[s] = mNamedModels[t] /\ mNamedModels[s] # noModel => s = t

\* As long as a model is attached once and has one name: whichever way models are
\* removed, the names left lead to models that are still attached, and no call
\* ends the program.
NamesStayAttached ==
    [][Simple /\ NamesAttached /\ ~failed => NamesAttached' /\ ~failed']_vars
=============================================================================

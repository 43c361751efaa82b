------------------------------- MODULE Automaton -------------------------------
(***************************************************************************)
(* The matcher util/parsing/automata.d generates from the rules of a       *)
(* deterministic automaton: a switch over its states, in each case a       *)
(* switch over the letters of its rules.  A state without rules gets an    *)
(* empty case, and control falls through to the case after it.             *)
(***************************************************************************)
EXTENDS Naturals, Sequences

CONSTANTS
    states,        \* in the order of statesStr, without repetitions
    startState,
    endStateSets,  \* bound: the sets of end states that are tried
    Letters,
    errorState

VARIABLES
    rules,         \* <<state, letter>> to state, where there is a rule
    endStates,
    state,         \* of validate, errorState when it has returned false
    meant          \* history: the state the rules lead to, errorState when they do not

vars == <<rules, endStates, state, meant>>

StateSet == {states[i] : i \in DOMAIN states}

\* The automaton is fixed at compile time; two rules for one state and letter do
\* not compile.
Init ==
    /\ rules \in UNION {[D -> StateSet] : D \in SUBSET (StateSet \X Letters)}
    /\ endStates \in endStateSets
    /\ state = startState
    /\ meant = startState

-----------------------------------------------------------------------------
HasRules(s) == \E way \in Letters : <<s, way>> \in DOMAIN rules

\* Mutant: no default in the switch over the letters either.
FirstFor(i, way) ==
    LET fits == {n \in i .. Len(states) : <<states[n], way>> \in DOMAIN rules}
    IN  {n \in fits : \A m \in fits : n <= m}

\* The case that runs for state i: its own, or the first after it with rules.
FirstCase(i, way) ==
    LET fits == {n \in i .. Len(states) : HasRules(states[n])}
    IN  {n \in fits : \A m \in fits : n <= m}

\* transfer: the generated switches, with errorState for what they do not name.
Transfer(curState, way) ==
    LET cases == UNION {FirstCase(i, way) : i \in {n \in DOMAIN states : states[n] = curState}}
        exits == {<<states[n], way>> : n \in cases} \cap DOMAIN rules
    IN  IF exits = {} THEN errorState ELSE rules[CHOOSE e \in exits : TRUE]

\* One turn of validate's loop; it has returned when it met errorState.
Read(way) ==
    /\ state # errorState
    /\ state' = Transfer(state, way)
    /\ meant' = IF <<meant, way>> \in DOMAIN rules THEN rules[<<meant, way>>] ELSE errorState
    /\ UNCHANGED <<rules, endStates>>

Next == \E way \in Letters : Read(way)

Spec == Init /\ [][Next]_vars

\* What validate returns when the word ends here.
Accepts == state # errorState /\ state \in endStates

-----------------------------------------------------------------------------
(* Properties *)

\* If every state but the last has a rule, a word is accepted exactly if the rules
\* lead along it from the start to an end state.
AcceptsItsLanguage ==
    (\A i \in 1 .. Len(states) - 1 : HasRules(states[i])) =>
        (Accepts <=> meant \in endStates)
=============================================================================

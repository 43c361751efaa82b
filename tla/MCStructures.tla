----------------------------- MODULE MCStructures -----------------------------
(* The parts of the program that one thread uses alone: those of Structures,   *)
(* and a configuration file.                                                   *)
EXTENDS Structures

CONSTANTS Exception, Error, default, MaxWrites
VARIABLES file, written, got, torn

-----------------------------------------------------------------------------
(* Values that a configuration file cannot give *)

MCPlaces == {-2, 1, 4}
MCPoints == {[x |-> 0, y |-> 0, z |-> 0], [x |-> 1, y |-> 0, z |-> 0], [x |-> 0, y |-> 0, z |-> 1]}
MCStates == <<1, 2, 3>>

Numbers == {<<"1">>, <<"2">>}
String(v) == [kind |-> "string", type |-> <<"s">>, key |-> <<"f">>, val |-> v]
Number(v) == [kind |-> "plain", type |-> <<"int">>, key |-> <<"n">>, val |-> v]
Array(v) == [kind |-> "array", type |-> <<"int", "[", "]">>, key |-> <<"r">>, val |-> v]
Map(v) == [kind |-> "map", type |-> <<"int", "[", "s", "]">>, key |-> <<"m">>, val |-> v]
Entries == {<< <<"a">>, <<"1">> >>, << <<"b">>, <<"2">> >>, << <<"a", " ", "b">>, <<"1">> >>}

\* Structures of a string, an array or a map, and a number.
Confs ==
    {<<String(v), Number(<<"1">>)>> :
        v \in BoundedSeq({"a", " ", ",", "(", ")", "/", "\""}, 2) \cup {<<c>> : c \in {"[", "{", "tab"}}
                \cup BoundedSeq({"[", "]", "(", ")"}, 4)}
    \cup {<<Array(v), Number(<<"1">>)>> : v \in BoundedSeq(Numbers, 2)}
    \cup {<<Map(v), Number(<<"2">>)>> : v \in BoundedSeq(Entries, 2)}

Again ==
    {<<String(<<>>), Number(<<"1">>)>>, <<String(<<"a", " ">>), Number(<<"2">>)>>,
     <<Array(<< <<"1">>, <<"2">> >>), Number(<<"1">>)>>}

-----------------------------------------------------------------------------
Settings == INSTANCE Conf

settingsVars == <<file, written, got, torn>>

AllInit ==
    /\ used \in {"list", "array", "node", "camera", "mesh", "matcher", "settings"}
    /\ StructuresInit /\ Settings!Init

UseSettings == used = "settings" /\ Settings!Next /\ UNCHANGED structureVars

AllSpec ==
    /\ AllInit
    /\ [][\/ UseStructure /\ UNCHANGED settingsVars
          \/ UseSettings]_<<structureVars, settingsVars>>

-----------------------------------------------------------------------------
\* A configuration is read back as it was written: see Conf.
ComesBack == Settings!ComesBack

\* A configuration read is one that was written, or the default: see Conf.
NeverMixed == Settings!NeverMixed
=============================================================================

------------------------------ MODULE MCResources ------------------------------
EXTENDS Resources
CONSTANTS d1, d2
File(s, e) == [stem |-> s, ext |-> e]
MCFiles == {File("a", <<"x">>), File("a", <<"x", "n">>)}
MCGroupNames == {<<"n", "g">>, <<"g">>}
MCFactories ==
    {[type |-> "Model", exts |-> {<<"x">>}], [type |-> "Model", exts |-> {<<"x", "n">>}],
     [type |-> "Texture", exts |-> {<<"x">>, <<"x", "n">>}]}
Entry(d, t) == [path |-> d, type |-> t]
MCDefault ==
    << [name |-> <<"g">>, entries |-> <<Entry(d1, "FileSystem"), Entry(d2, "FileSystem")>>],
       [name |-> <<"n", "g">>, entries |-> <<Entry(d2, "FileSystem")>>] >>
MCConfigs ==
    { MCDefault,
      << [name |-> <<"g">>, entries |-> <<Entry(d2, "zip"), Entry(d1, "FileSystem")>>] >> }

\* Two answers are all AnswersTheRequest compares; factories and groups meet only
\* in getResource, so several factories are explored before the first group.
Bound ==
    /\ Cardinality(answers) <= 2
    /\ Cardinality(disk[d1]) + Cardinality(disk[d2]) <= 2
    /\ mGroups # <<>> => Len(mResFactories) <= 1
=============================================================================

------------------------------- MODULE MCFormats -------------------------------
(***************************************************************************)
(* Small instances of Formats for TLC.                                     *)
(***************************************************************************)
EXTENDS Formats

MCTypes == {"T", "U", "V"}

\* No fields, a type that contains itself, a cycle, a diamond with a cycle.
MCGraphs ==
    {f \in [MCTypes -> {<<>>, <<"T">>, <<"V">>, <<"U", "V">>}] :
        f["T"] \in {<<>>, <<"U", "V">>} /\ f["U"] # <<"U", "V">>}

MCServerTags == [t \in MCTypes |-> IF t = "T" THEN {1, 2} ELSE {1}]
MCFileTags == [t \in MCTypes |-> IF t = "T" THEN {2, 3} ELSE {2}]

\* T is known to both origins, V to the server alone, U to the files, and to the
\* server as something that is no message.
MCFields == {"a"} \cup MCTypes

MCInputs ==
    [json |-> {<<>>, <<{"a"}, {}>>, <<{"T"}, {"bad"}>>, <<{"U"}, {"a"}>>,
               <<{"T", "V"}, {"T"}>>},
     text |-> UNION {[1 .. n -> {{}, {"a"}, {"bad"}, {"RS"}}] : n \in 0 .. 3}]

MCResponses == {{}, {"a", "T", "U"}}
===============================================================================

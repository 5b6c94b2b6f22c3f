----------------------------- MODULE MCExchange -----------------------------
EXTENDS Exchange

CONSTANTS c1, c2  \* two clients

MCScript(c) ==
    IF c = c1 THEN AllCommands
    ELSE {EditBlockOnPage, Request(DeleteFlow)}

\* The columns in the order the versions added them: a store of version k has the
\* first k.
Chain == <<"model_updated_at", "parameters_json", "source_port", "project_id", "position",
           "mirrored">>
AtVersion(k) == {Chain[i] : i \in 1..k}

Sheets(k) ==
    LET project == IF k >= 4 THEN {1} ELSE {NoProject}
    IN  {<< >>}
        \cup {<<[project |-> p, position |-> 0, stamped |-> k > 0],
                [project |-> p, position |-> q, stamped |-> k > 0]>> :
              p \in project, q \in IF k >= 5 THEN {0, 1} ELSE {0}}

Signs(k) == IF k < 2 THEN {<< >>} ELSE {<<"+">>, <<"+", "-">>}
Wires(k) == IF k < 3 THEN {<< >>, <<0>>, <<0, 0>>} ELSE {<< >>, <<0, 1>>, <<1, 0>>}

Version(k) ==
    {[tables |-> {"flows", "blocks", "connections"} \cup IF k >= 4 THEN {"projects"} ELSE {},
      columns |-> AtVersion(k),
      projects |-> IF k >= 4 THEN <<"default">> ELSE << >>,
      flows |-> flows,
      amplitude |-> IF k < 2 THEN "column" ELSE "json",
      signs |-> signs, wires |-> wires] :
        flows \in Sheets(k), signs \in Signs(k), wires \in Wires(k)}

\* An earlier program died between a column and its rows.
Interrupted ==
    {[s EXCEPT !.columns = AtVersion(2)] : s \in Version(1)}
        \cup {[s EXCEPT !.columns = AtVersion(5)] : s \in Version(4)}
        \cup {[s EXCEPT !.columns = AtVersion(4), !.tables = @ \cup {"projects"},
                        !.projects = projects] :
              s \in Version(3), projects \in {<< >>, <<"default">>}}

MCLegacyStores == {EmptyStore} \cup Interrupted \cup UNION {Version(k) : k \in 0..6}
=============================================================================

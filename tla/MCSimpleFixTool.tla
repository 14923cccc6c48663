-------------------------- MODULE MCSimpleFixTool ---------------------------
(* Small instances of SimpleFixTool.                                         *)
EXTENDS SimpleFixTool

\* Two inputs with a blob in common; the order of the blobs is not that of
\* the ids, nor is that of the sort keys.
MCInputs == <<<<3, 1, 4>>, <<1, 5, 2>>>>
MCSortKey == [i \in 1..5 |-> IF i = 4 THEN -2 ELSE -1]

\* Code on a page of its own or shared, data on a page that all write or one
\* also executes.
Code(page) == <<page, "rx">>
Data(perms) == <<"data", perms>>
MCMappings == {
    [i \in 1..5 |-> {Code(IF i \in {1, 2, 4} THEN "a" ELSE "b"), Data("rw")}],
    [i \in 1..5 |-> {Code(IF i \in {1, 4} THEN "a" ELSE IF i = 2 THEN "b" ELSE "c"),
                     Data(IF i = 2 THEN "rwx" ELSE "rw")}],
    [i \in 1..5 |-> IF i = 3 THEN {Code("data")} ELSE {Data("rw")}] }
=============================================================================

------------------------------- MODULE MCStats -------------------------------
(* Both migration files, with three statements of the first one's eight:   *)
(* the pragma, a table and an index.                                       *)
EXTENDS Stats

MCStatements == <<3, 1>>
MCAlters == {<<2, 1>>}
MCPragma == <<1, 1>>
MCHours == 1..2
=============================================================================

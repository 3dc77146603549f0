---------------------------- MODULE MCResultSets ----------------------------
(* Instances of ResultSets for TLC. *)
EXTENDS ResultSets

\* Every shape of response that the reader's branches tell apart: two sets of
\* either format, a bad row in the first or in the last, an empty table, a count
\* between two sets, an error after rows.
Queries ==
  { ResultSet("dbos", 1, <<TRUE, TRUE>>) \o ResultSet("text", 2, <<TRUE>>) \o Finished,
    ResultSet("text", 1, <<FALSE, TRUE>>) \o ResultSet("dbos", 2, <<TRUE>>) \o Finished,
    ResultSet("dbos", 1, <<>>) \o Modified \o ResultSet("text", 2, <<FALSE>>) \o Finished,
    ResultSet("dbos", 1, <<TRUE, TRUE>>) \o Failed }

\* A query, and a statement without rows
QueryOrUpdate == {ResultSet("dbos", 1, <<TRUE, TRUE>>) \o Finished, Modified \o Finished}

=============================================================================

------------------------------- MODULE Query --------------------------------
(* Queries: the records among the candidates that match a filter (query.rs).   *)
EXTENDS Pruning, Codec

Judge(filter, text) == Then(ParseToml(text), LAMBDA record : Matches(filter, record))

\* Their records are read one by one; one that cannot be is an error.
QueryRecords(files, template, filter, ext) ==
    Then(CandidatePaths(files, template, PruneRecord(filter), ext), LAMBDA candidates :
        Then(Whole("judged", [r \in candidates[2] |-> Judge(filter, files[FileOf(r, ext)])]), LAMBDA judged :
            <<"paths", {r \in candidates[2] : judged[2][r][2]}>>))
=============================================================================

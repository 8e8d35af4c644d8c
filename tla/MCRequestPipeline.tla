--------------------------- MODULE MCRequestPipeline ---------------------------
(* Instances of RequestPipeline for model checking. *)
EXTENDS RequestPipeline, TLC

CONSTANTS r1, r2, c1, c2

\* A read that looks into its payload, a write, a schema update, an index, and both kinds of routes about the adapter.
MCRoutes == {"query", "insert", "updateSchema", "createIndex", "connectionStatus", "provision"}

\* The second table has another hook before and none of the hooks after it that the first has.
MCHooks == << {<<"before", "All">>, <<"after", "Write">>},
              {<<"before", "Write">>, <<"after", "All">>} >>

\* One database serves two requests at a time, each of the others one: what a database does to a request is up to the
\* request alone. Which request is sent first, and over which connection, does not matter, only whether the second uses
\* the same one.
FewCases ==
    /\ calls[r1].at = "unsent" => calls[r2].at = "unsent"
    /\ db = "postgres" \/ calls[r2].at = "unsent"
    /\ calls[r1].conn # c2
=============================================================================

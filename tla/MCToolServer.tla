----------------------------- MODULE MCToolServer -----------------------------
(* An ingestion that fills the registry when it is repeated a tick later,   *)
(* calculations from its evidence in the same and in another scope, a       *)
(* skill that refuses with an answer too large to send, and a retrieval.    *)
EXTENDS ToolServer, TLC

Post ==
    [line |-> "OK", path |-> "ingest", authorization |-> "ok", framing |-> "OK", body |-> "OK",
     skill |-> "OK", scope |-> "s1", fields |-> {"f1", "f2"}, uses |-> {}, large |-> FALSE]

Calculation(scope, fields) ==
    [Post EXCEPT !.path = "calculate", !.scope = scope, !.fields = {},
                 !.uses = {[scope |-> "s1", field |-> f, at |-> 0] : f \in fields}]

MCRequests ==
    {Post, Calculation("s1", {"f1", "f2"}), Calculation("s2", {"f1"}),
     [Post EXCEPT !.path = "retrieve"],
     [Post EXCEPT !.scope = "s2", !.skill = "BLOCKED", !.large = TRUE]}

(* Every connection ends: checked of one client, for they are              *)
(* interchangeable and the others do meanwhile whatever they like           *)
(* (process_request, the read deadline, process_request_thread).            *)
AnyConnectionEnds == ConnectionEnds(CHOOSE c \in Clients : TRUE)
=============================================================================

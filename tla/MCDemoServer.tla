----------------------------- MODULE MCDemoServer -----------------------------
(* Two browsers that ask for everything, and requests each of the checks    *)
(* refuses.                                                                 *)
EXTENDS DemoServer, TLC

Post(path) ==
    [verb |-> "POST", host |-> "own", query |-> FALSE, path |-> path, origin |-> "own",
     token |-> TRUE, body |-> "OK", reasonOk |-> TRUE,
     fields |-> IF path = "approve" THEN {"reason"} ELSE {}]

MCRequests ==
    {Post(p) : p \in {"prepare", "approve", "package", "verify", "benchmark", "reset"}}
    \cup {[Post("bootstrap") EXCEPT !.verb = "GET"], [Post("package") EXCEPT !.token = FALSE],
          [Post("package") EXCEPT !.verb = "GET"], [Post("approve") EXCEPT !.reasonOk = FALSE]}
=============================================================================

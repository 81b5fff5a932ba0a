------------------------------ MODULE MCDemoInit ------------------------------
(* A file in the output and one in its directory.                           *)
EXTENDS DemoInit, TLC

MCChildren == <<"case">>
MCBundle == <<[dir |-> "", name |-> "README"], [dir |-> "case", name |-> "doc"]>>
=============================================================================

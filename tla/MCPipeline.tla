------------------------------ MODULE MCPipeline ------------------------------
(* Two workers and five inputs that expand to several results, none, or one.     *)
EXTENDS Pipeline

MCCount == <<3, 0, 2, 1, 1>>
MCModes == {[async |-> FALSE, close |-> TRUE], [async |-> TRUE, close |-> FALSE]}
===============================================================================

---- MODULE MCPipelines ----
(* Values of the constants of Pipelines for TLC. *)
EXTENDS Pipelines, TLC

CONSTANTS extending, stopping, failing

Effects3 == extending :> "extend" @@ stopping :> "stop" @@ failing :> "error"
====

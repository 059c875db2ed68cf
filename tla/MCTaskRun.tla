----------------------------- MODULE MCTaskRun -----------------------------
(* One task or ticket, in process or over MCP. *)
EXTENDS TaskRunInvariant
=============================================================================

-------------------------- MODULE MCWorkflowOutbox --------------------------
(***************************************************************************)
(* Two entries, two worker processes, a lease of one instant.              *)
(***************************************************************************)
EXTENDS WorkflowOutbox

MCWorkerId == [p \in Processes |-> p]
=============================================================================

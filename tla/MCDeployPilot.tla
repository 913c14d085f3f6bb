--------------------------- MODULE MCDeployPilot ---------------------------
(* Two runs of the script with the same tag, one of which sets a limit.     *)
EXTENDS DeployPilot, TLC

CONSTANTS d1, d2

MCConfigOf == (d1 :> [tag |-> "t", limit |-> None]) @@ (d2 :> [tag |-> "t", limit |-> 3])
MCReports == {[status |-> "COMPLETE", rows |-> {"LOW"}, counts |-> {"LOW"}],
              [status |-> "COMPLETE", rows |-> {}, counts |-> {"UNDEFINED"}],
              [status |-> "FAILED", rows |-> {}, counts |-> {}]}
MCRegistries == [immutable : BOOLEAN, scanOnPush : BOOLEAN]

=============================================================================

---------------------------- MODULE MCPdcConfig -----------------------------
(* Values for model checking PdcConfig. *)
EXTENDS PdcConfig

\* Two entries named ROW_Commercial and two that are not.
FourConfigs == <<TRUE, FALSE, TRUE, FALSE>>
=============================================================================

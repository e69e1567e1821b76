-------------------------- MODULE MCBridgeInstall --------------------------
(***************************************************************************)
(* Two releases of the Bridge for TLC.                                     *)
(***************************************************************************)
EXTENDS BridgeInstall, TLC

MCVersions == {"v1", "v2"}
=============================================================================

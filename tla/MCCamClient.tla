---------------------------- MODULE MCCamClient ----------------------------
(* Instances of CamClient for TLC. *)
EXTENDS CamClient
=============================================================================

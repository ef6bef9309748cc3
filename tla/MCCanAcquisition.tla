-------------------------- MODULE MCCanAcquisition --------------------------
(* Channel lists for the model-checking runs of CanAcquisition. *)
EXTENDS CanAcquisition

CONSTANTS t1, t2

TwoSensors == <<t1, t2>>
=============================================================================

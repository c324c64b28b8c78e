------------------------------ MODULE MCSmpBoot ------------------------------
(* The BSP and two APs, and a spin bound of 3 so that the spin loop can   *)
(* run out both before and while the APs check in.                        *)
EXTENDS SmpBoot

MCApCount == 2
=============================================================================

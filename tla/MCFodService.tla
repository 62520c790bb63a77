---------------------------- MODULE MCFodService ----------------------------
(* The FOD HAL alone, for TLC: model values for the clients. *)
EXTENDS FingerprintInscreen

CONSTANTS framework, systemui

TwoClients == {framework, systemui}
Reliable == {TRUE}
=============================================================================

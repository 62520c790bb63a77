----------------------------- MODULE MCHbmPanel -----------------------------
(* The two HALs on one node, for TLC: model values for the clients. *)
EXTENDS HbmPanel

CONSTANTS framework, systemui

TwoClients == {framework, systemui}
=============================================================================

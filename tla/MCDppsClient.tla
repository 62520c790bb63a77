---------------------------- MODULE MCDppsClient ----------------------------
(* Instances of DppsClient: answers shorter and longer than the buffers.   *)
EXTENDS DppsClient

MCSizes == 1..4
MCMaxStream == 6

=============================================================================

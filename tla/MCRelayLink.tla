------------------------------ MODULE MCRelayLink ------------------------------
(* Values for RelayLink: the host that uses the one-shot files.               *)
EXTENDS RelayLink

CONSTANTS o1
=============================================================================

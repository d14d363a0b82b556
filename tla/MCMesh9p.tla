------------------------------- MODULE MCMesh9p -------------------------------
(* Values for Mesh9p: two requesters, as many as it takes for a reply to go  *)
(* to the wrong one.                                                        *)
EXTENDS Mesh9p, TLC

CONSTANTS p1, p2
=============================================================================

----------------------------- MODULE MCAetherNet -----------------------------
(* Values for AetherNet: fids f1 and f2 of the host's 9P session, f3 of a    *)
(* session that comes in over the mesh.  The cfg files choose how many of   *)
(* the fids, readers and slots there are.                                   *)
EXTENDS AetherNet, TLC

CONSTANTS f1, f2, f3, w1, w2, u1, host, air, e1, p1

TwoSessions == (f1 :> host) @@ (f2 :> host) @@ (f3 :> air)
OneSession == (f1 :> host) @@ (f2 :> host)

(* Fids of one session and readers are interchangeable.                     *)
Symmetry == Permutations({f1, f2}) \cup Permutations({w1, w2})
=============================================================================

----------------------------- MODULE Mesh9pQueue -----------------------------
(* What the 9P server reached over the mesh promises its requesters: a T     *)
(* message it has acknowledged is served exactly once, in the order of the  *)
(* acknowledgements, and its reply goes to whoever sent it.  Mesh9p, the     *)
(* ring of src/dect_mesh/src/aether_9p_mesh.c, is shown to implement it.    *)
EXTENDS Naturals, Sequences

CONSTANTS
  Ring,    \* how many acknowledged requests may wait
  Req,     \* the requests: records with the fields peer and kind
  Nobody   \* the addressee of the reply to a request whose answer comes later

VARIABLES
  queue,   \* the acknowledged requests not yet served
  last     \* the request served last, and where its reply went

vars == <<queue, last>>

Init == queue = <<>> /\ last = [req |-> Nobody, to |-> Nobody]

Accept(m) ==
  /\ Len(queue) < Ring
  /\ queue' = Append(queue, m)
  /\ UNCHANGED last

(* A data read may be handed to a worker, which answers it when a datagram   *)
(* comes; every other request is answered at once.                          *)
Answers(m) == {m.peer} \cup {n \in {Nobody} : m.kind = "read"}

Serve ==
  /\ queue # <<>>
  /\ queue' = Tail(queue)
  /\ \E p \in Answers(Head(queue)) : last' = [req |-> Head(queue), to |-> p]

Next == Serve \/ \E m \in Req : Accept(m)

Spec == Init /\ [][Next]_vars /\ WF_vars(Serve)
=============================================================================

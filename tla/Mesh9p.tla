-------------------------------- MODULE Mesh9p --------------------------------
(***************************************************************************)
(* The 9P server reached over the mesh                                     *)
(* (src/dect_mesh/src/aether_9p_mesh.c) and the decision its `serving`     *)
(* flag drives in dfu_status (src/dect_mesh/src/aether_9p.c).              *)
(*                                                                         *)
(* Threads.  The mesh RX thread acknowledges a T message and puts it in    *)
(* the ring; a work queue serves the ring; the server's worker threads     *)
(* answer the data reads it dispatched, later; the UART server thread      *)
(* runs a wired firmware update.  The ring's fields are touched in the     *)
(* source's order, one step each.                                          *)
(***************************************************************************)
EXTENDS Naturals, Sequences, FiniteSets

CONSTANTS
  Ring,    \* MESH9P_RING
  Peer,    \* mesh nodes that send requests
  Kind,    \* "op": answered when served; "read": a data read
  Ids,     \* requests are numbered modulo Ids
  Workers, \* CONFIG_NINEP_SERVER_ASYNC_READ_WORKERS (prj.conf)
  Nobody   \* no peer, no request

ASSUME Mesh9pAssumption ==
  /\ Ring \in Nat \ {0}
  /\ Ids \in Nat
  /\ Ids > Ring + 1
  /\ Workers \in Nat
  /\ Kind \subseteq {"op", "read"}
  /\ Nobody \notin Peer

VARIABLES
  ring,      \* the requests in the slots, stale ones included
  head,      \* ring_head
  tail,      \* ring_tail
  count,     \* ring_count
  rxpc,      \* where the RX thread is in mesh9p_recv_cb
  rxreq,     \* the datagram it handles
  rxslot,    \* the slot it claimed
  nextId,    \* number of the next request
  pending,   \* mesh9p_work is queued on mesh9p_workq
  wkpc,      \* where the work queue is in mesh9p_work_fn
  cur,       \* cur_peer
  serving,   \* mesh9p_serving
  parked,    \* data reads the server's workers hold
  last,      \* history: the request served last and where its reply went
  astray,    \* history: the last reply of a worker went to another peer
  dfu,       \* a wired firmware update is under way
  quiesced   \* aether_mesh_set_dfu_active

ringVars == <<ring, head, tail, count>>
rxVars == <<rxpc, rxreq, rxslot, nextId>>
wkVars == <<pending, wkpc, cur, serving, last>>
readVars == <<parked, astray>>
dfuVars == <<dfu, quiesced>>
vars == <<ring, head, tail, count, rxpc, rxreq, rxslot, nextId, pending, wkpc,
          cur, serving, parked, last, astray, dfu, quiesced>>

Index == 0 .. Ring - 1
Req == [peer : Peer, kind : Kind, id : 0 .. Ids - 1]
Reply == [req : Req \cup {Nobody}, to : Peer \cup {Nobody}]

(* A wrong Wrap: the index never wraps around.                              *)
BugNoWrap(i) == i + 1

Wrap(i) == (i + 1) % Ring
-----------------------------------------------------------------------------
(* RX thread *)

(* A wrong AckGate: it acknowledges one request more than the ring holds.   *)
BugGateOneMore == count <= Ring

(* mesh9p_ack_gate, consulted before the mesh acknowledges a T message.     *)
AckGate == count < Ring

(* A T message comes in, passes the gate and is acknowledged.  A refused    *)
(* one changes nothing: its sender retransmits it.  Nothing comes in while  *)
(* the mesh is quiesced.                                                    *)
Arrive(p, k) ==
  /\ rxpc = "idle"
  /\ ~quiesced
  /\ AckGate
  /\ rxreq' = [peer |-> p, kind |-> k, id |-> nextId]
  /\ nextId' = (nextId + 1) % Ids
  /\ rxpc' = "claim"
  /\ UNCHANGED <<ringVars, rxslot, wkVars, readVars, dfuVars>>

(* mesh9p_recv_cb, under ring_lock: drop on a full ring, or claim a slot.   *)
Claim ==
  /\ rxpc = "claim"
  /\ \/ /\ count >= Ring
        /\ rxpc' = "idle"
        /\ rxreq' = Nobody
        /\ UNCHANGED <<tail, rxslot>>
     \/ /\ count < Ring
        /\ rxpc' = "fill"
        /\ rxslot' = tail
        /\ tail' = Wrap(tail)
        /\ UNCHANGED rxreq
  /\ UNCHANGED <<ring, head, count, nextId, wkVars, readVars, dfuVars>>

(* The copy into the claimed slot, after the lock is given up.              *)
Fill ==
  /\ rxpc = "fill"
  /\ ring' = [ring EXCEPT ![rxslot] = rxreq]
  /\ rxpc' = "count"
  /\ UNCHANGED <<head, tail, count, rxreq, rxslot, nextId, wkVars, readVars, dfuVars>>

CountUp ==
  /\ rxpc = "count"
  /\ count' = count + 1
  /\ rxpc' = "submit"
  /\ UNCHANGED <<ring, head, tail, rxreq, rxslot, nextId, wkVars, readVars, dfuVars>>

Submit ==
  /\ rxpc = "submit"
  /\ pending' = TRUE
  /\ rxpc' = "idle"
  /\ rxreq' = Nobody
  /\ rxslot' = 0
  /\ UNCHANGED <<ringVars, nextId, wkpc, cur, serving, last, readVars, dfuVars>>

-----------------------------------------------------------------------------
(* Work queue *)

Wake ==
  /\ wkpc = "wait"
  /\ pending
  /\ pending' = FALSE
  /\ wkpc' = "check"
  /\ UNCHANGED <<ringVars, rxVars, cur, serving, last, readVars, dfuVars>>

(* The head of the loop.                                                    *)
Check ==
  /\ wkpc = "check"
  /\ \/ /\ count > 0
        /\ wkpc' = "serve"
        /\ cur' = ring[head].peer
        /\ serving' = TRUE
     \/ /\ count = 0
        /\ wkpc' = "wait"
        /\ UNCHANGED <<cur, serving>>
  /\ UNCHANGED <<ringVars, rxVars, pending, last, readVars, dfuVars>>

(* The server runs the request and mesh9p_send sends the reply to cur_peer  *)
(* (unless it is an Rwrite, which it only drops), or the server hands the   *)
(* read to a worker.  A read that finds no worker free is answered with an  *)
(* error.                                                                   *)
Serve ==
  /\ wkpc = "serve"
  /\ LET m == ring[head] IN
       IF m.kind = "read" /\ Cardinality(parked) < Workers
       THEN /\ parked' = parked \cup {m}
            /\ last' = [req |-> m, to |-> Nobody]
       ELSE /\ last' = [req |-> m, to |-> cur]
            /\ UNCHANGED parked
  /\ serving' = FALSE
  /\ wkpc' = "advance"
  /\ UNCHANGED <<ringVars, rxVars, pending, cur, astray, dfuVars>>

Advance ==
  /\ wkpc = "advance"
  /\ head' = Wrap(head)
  /\ wkpc' = "uncount"
  /\ UNCHANGED <<ring, tail, count, rxVars, pending, cur, serving, last, readVars, dfuVars>>

(* A wrong Uncount: one request for each submission, not a loop.            *)
BugServeOnce ==
  /\ wkpc = "uncount"
  /\ count' = count - 1
  /\ wkpc' = "wait"
  /\ UNCHANGED <<ring, head, tail, rxVars, pending, cur, serving, last, readVars, dfuVars>>

Uncount ==
  /\ wkpc = "uncount"
  /\ count' = count - 1
  /\ wkpc' = "check"
  /\ UNCHANGED <<ring, head, tail, rxVars, pending, cur, serving, last, readVars, dfuVars>>

(* A server worker's data read returns; its reply leaves through the same   *)
(* mesh9p_send, to what cur_peer is by then.                                *)
WorkerReply(m) ==
  /\ m \in parked
  /\ parked' = parked \ {m}
  /\ astray' = (cur # m.peer)
  /\ UNCHANGED <<ringVars, rxVars, wkVars, dfuVars>>

-----------------------------------------------------------------------------
(* Wired firmware update: the status callbacks of ninep_dfu on the UART     *)
(* server thread.                                                           *)

(* dfu_status: left to the mesh path while a mesh request is being served.  *)
SetQuiesced(b) == quiesced' = IF serving THEN quiesced ELSE b

WiredErase ==
  /\ ~dfu
  /\ dfu' = TRUE
  /\ SetQuiesced(TRUE)
  /\ UNCHANGED <<ringVars, rxVars, wkVars, readVars>>

WiredReceive ==
  /\ dfu
  /\ SetQuiesced(TRUE)
  /\ UNCHANGED <<ringVars, rxVars, wkVars, readVars, dfu>>

(* COMPLETE or ERROR.                                                       *)
WiredEnd ==
  /\ dfu
  /\ dfu' = FALSE
  /\ SetQuiesced(FALSE)
  /\ UNCHANGED <<ringVars, rxVars, wkVars, readVars>>

-----------------------------------------------------------------------------
NoReply == [req |-> Nobody, to |-> Nobody]

Init ==
  /\ ring = [i \in Index |-> Nobody]
  /\ head = 0
  /\ tail = 0
  /\ count = 0
  /\ rxpc = "idle"
  /\ rxreq = Nobody
  /\ rxslot = 0
  /\ nextId = 0
  /\ pending = FALSE
  /\ wkpc = "wait"
  /\ cur = Nobody
  /\ serving = FALSE
  /\ parked = {}
  /\ last = NoReply
  /\ astray = FALSE
  /\ dfu = FALSE
  /\ quiesced = FALSE

RxNext == Claim \/ Fill \/ CountUp \/ Submit
WorkNext == Wake \/ Check \/ Serve \/ Advance \/ Uncount

Next ==
  \/ \E p \in Peer, k \in Kind : Arrive(p, k)
  \/ RxNext
  \/ WorkNext
  \/ \E m \in parked : WorkerReply(m)
  \/ WiredErase
  \/ WiredReceive
  \/ WiredEnd

(* The RX thread and the work queue are threads of the node's scheduler; a  *)
(* reply's send_reliable gives up after its retries.  Nothing makes a peer  *)
(* send, a data read return, or a firmware update progress.                 *)
Fairness == WF_vars(RxNext) /\ WF_vars(WorkNext)

Spec == Init /\ [][Next]_vars /\ Fairness

-----------------------------------------------------------------------------
(* Properties *)

TypeOK ==
  /\ ring \in [Index -> Req \cup {Nobody}]
  /\ head \in Index
  /\ tail \in Index
  /\ count \in 0 .. Ring
  /\ rxpc \in {"idle", "claim", "fill", "count", "submit"}
  /\ rxreq \in Req \cup {Nobody}
  /\ rxslot \in Index
  /\ nextId \in 0 .. Ids - 1
  /\ pending \in BOOLEAN
  /\ wkpc \in {"wait", "check", "serve", "advance", "uncount"}
  /\ cur \in Peer \cup {Nobody}
  /\ serving \in BOOLEAN
  /\ parked \subseteq Req
  /\ last \in Reply
  /\ astray \in BOOLEAN
  /\ dfu \in BOOLEAN
  /\ quiesced \in BOOLEAN

(* When the work queue sleeps with nothing submitted, and the RX thread is  *)
(* not about to submit, the ring is empty ("nothing is left behind",        *)
(* mesh9p_work_fn l.83).                                                    *)
NothingLeftBehind ==
  wkpc = "wait" /\ ~pending /\ rxpc # "submit" => count = 0

(* The requests acknowledged and not served: those counted, the one being   *)
(* put in, without the one already served but not yet counted off.          *)
Done == IF wkpc \in {"advance", "uncount"} THEN 1 ELSE 0
First == IF wkpc = "advance" THEN Wrap(head) ELSE head
Counted == [i \in 1 .. count - Done |-> ring[(First + (i - 1)) % Ring]]
Incoming == IF rxpc \in {"claim", "fill", "count"} THEN <<rxreq>> ELSE <<>>
Queued == Counted \o Incoming

(* The ring serves every acknowledged request once, in order, and answers   *)
(* its sender, with the slots filled outside the lock, the count raised     *)
(* after the fill and lowered after the head has moved.                     *)
Queue == INSTANCE Mesh9pQueue WITH queue <- Queued
QueueSpec == Queue!Spec
QueueSafety == Queue!Init /\ [][Queue!Next]_(Queue!vars)

(* Every reply goes to the sender of its request (l.63: cur_peer is the     *)
(* "peer of the request being served"), a worker's replies included.        *)
ReplyToRequester == ~astray

(* A wired update quiesces the mesh and gives it back: "Released on         *)
(* complete/error" (dfu_status l.319).                                      *)
ReleasedWhenDone == quiesced => dfu

-----------------------------------------------------------------------------
(* The inductive invariant of Mesh9p_proofs: how head, tail and count, which *)
(* are moved at different times by two threads, fit together.               *)

At(i) == (head + i) % Ring

(* The slots from the head to the tail: count has not been raised yet for    *)
(* the request coming in, nor lowered for the one served.                   *)
Entering == IF rxpc \in {"fill", "count"} THEN 1 ELSE 0
Leaving == IF wkpc = "uncount" THEN 1 ELSE 0
Live == count + Entering - Leaving

RingShape ==
  /\ tail = At(Live)
  /\ rxpc \in {"fill", "count"} => rxslot = At(Live - 1)
  /\ rxpc = "count" => ring[rxslot] = rxreq
  /\ \A i \in 0 .. count - Leaving - 1 : ring[At(i)] \in Req

(* What the gate promised a request holds until the request is counted.     *)
RxHolds == rxpc \in {"claim", "fill", "count"} => rxreq \in Req /\ count < Ring

WorkHolds ==
  /\ wkpc \in {"serve", "advance", "uncount"} => count > 0
  /\ wkpc = "serve" => cur = ring[head].peer

IInv == TypeOK /\ RingShape /\ RxHolds /\ WorkHolds /\ NothingLeftBehind
=============================================================================

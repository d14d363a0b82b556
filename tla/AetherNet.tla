------------------------------ MODULE AetherNet ------------------------------
(***************************************************************************)
(* The /net/aether conversation service of the nRF9151                     *)
(* (src/dect_mesh/src/aether_net.c): a pool of MaxConns conversation slots *)
(* handed out by walking `clone`, bound by `ctl` commands, filled by the   *)
(* mesh RX thread and emptied by blocking `data` reads.                    *)
(*                                                                         *)
(* Threads.  Two 9P servers (UART and mesh) run the file operations, their *)
(* worker pool (Reader) runs the `data` reads, which block, the mesh RX    *)
(* thread runs Recv, and in-process sessions (InProc: the drain, the probe,*)
(* the pushes) use a conversation without a fid.  What runs under          *)
(* g_fs.lock is one action; what runs outside it (a data read before and   *)
(* after its k_msgq_get, an in-process session between its allocation and  *)
(* its bind) is split there.                                               *)
(*                                                                         *)
(* A node of the tree names a slot, not an allocation of it, so a fid, a   *)
(* reader or an in-process session can outlive the conversation it was     *)
(* opened on and act on the slot's next one.  Nothing below hides that.    *)
(***************************************************************************)
EXTENDS Naturals, Sequences

CONSTANTS
  MaxConns,   \* AETHER_MAX_CONNS
  Depth,      \* AETHER_RXQ_DEPTH
  Eui,        \* durable node identities
  Route,      \* HONR routing addresses, which churn with the mesh tree
  NoAddr,     \* the all-zero address
  Fid,        \* 9P fids, of all the sessions of both servers
  Session,    \* 9P sessions
  SessionOf,  \* the session of each fid
  Reader,     \* worker threads that run the blocking data reads
  InProc,     \* in-process users of a conversation
  Sizes,      \* payload lengths in use: 0 for empty, 1 for any other
  MaxRx       \* bound on the datagrams received, for model checking

ASSUME NetAssumption ==
  /\ MaxConns \in Nat \ {0}
  /\ Depth \in Nat \ {0}
  /\ MaxRx \in Nat
  /\ Sizes \subseteq {0, 1}
  /\ Eui \cap Route = {}
  /\ NoAddr \notin Eui \cup Route
  /\ SessionOf \in [Fid -> Session]

VARIABLES
  inUse,    \* in_use of each slot: allocated, and its <N>/ linked in the tree
  state,    \* enum conv_state of each slot
  peer,     \* the bound address, when CONNECTED
  rxq,      \* the k_msgq of each slot
  node,     \* what each fid is on: no node, a conversation's ctl or its data
  slotOf,   \* the slot of that node
  rpc,      \* where each reader thread is
  rslot,    \* the slot it reads
  ritem,    \* the datagram it took, before it replies
  since,    \* history: how the read has fared since it began
  kpc,      \* where each in-process session is
  kslot,    \* the slot it uses
  rx        \* ctr.rx

connVars == <<inUse, state, peer, rxq>>
fidVars == <<node, slotOf>>
readVars == <<rpc, rslot, ritem, since>>
procVars == <<kpc, kslot>>
vars == <<inUse, state, peer, rxq, node, slotOf, rpc, rslot, ritem, since,
          kpc, kslot, rx>>

-----------------------------------------------------------------------------
Slot == 0 .. MaxConns - 1
Addr == Eui \cup Route
ConvState == {"UNCONNECTED", "CONNECTED", "ANNOUNCED", "BCAST"}

(* One queued datagram.  src is the address a reader is shown, raw the      *)
(* frame's own source, and how the conversation state that let it in: raw   *)
(* and how are history, the code stores src, len and data.                  *)
Dgram == [src : Addr \cup {NoAddr}, raw : Addr \cup {NoAddr}, len : {0, 1},
          how : ConvState]

(* A k_msgq of Depth messages.                                              *)
Queue == {q \in Seq(Dgram) : Len(q) <= Depth}

(* The hangup sentinel: a datagram of length 0.                             *)
Eof == [src |-> NoAddr, raw |-> NoAddr, len |-> 0, how |-> "UNCONNECTED"]

(* A binding is what the mesh knows of the current route of each identity.  *)
(* The table is the mesh's own and changes between calls, so each call that *)
(* looks something up picks one.                                            *)
Binding ==
  {b \in [Eui -> Route \cup {NoAddr}] :
     \A e1, e2 \in Eui : b[e1] = b[e2] /\ b[e1] # NoAddr => e1 = e2}

(* aether_mesh_addr_to_eui, with the fallback to the raw source.            *)
Ident(b, src) ==
  IF \E e \in Eui : b[e] = src THEN CHOOSE e \in Eui : b[e] = src ELSE src

Parked(s) == {r \in Reader : rpc[r] = "parked" /\ rslot[r] = s}
Reading(s) == {r \in Reader : rpc[r] \in {"called", "parked", "got"} /\ rslot[r] = s}

(* The reads on s that a hangup found on their way to the queue.            *)
Coming(s) == {r \in Reader : rpc[r] = "called" /\ rslot[r] = s /\ since[r] = "hungup"}

(* There is one sentinel (conv_free l.252, "a SINGLE EOF sentinel").  Once it *)
(* is gone from s, the reads still coming, but for those in T, were beaten   *)
(* to it.                                                                   *)
SentinelGone(s, T) ==
  since' = [r \in Reader |-> IF r \in Coming(s) \ T THEN "beaten" ELSE since[r]]

-----------------------------------------------------------------------------
(* Slots *)

(* conv_alloc takes the first slot that is not in use.  k_msgq_init resets  *)
(* the queue and its wait list: a thread still parked on it (one that began *)
(* to read after the slot was freed) is never woken again.                  *)
ConvAlloc(s) ==
  /\ ~inUse[s]
  /\ \A t \in 0 .. s - 1 : inUse[t]
  /\ inUse' = [inUse EXCEPT ![s] = TRUE]
  /\ state' = [state EXCEPT ![s] = "UNCONNECTED"]
  /\ peer' = [peer EXCEPT ![s] = NoAddr]
  /\ rxq' = [rxq EXCEPT ![s] = <<>>]
  /\ rpc' = [r \in Reader |-> IF r \in Parked(s) THEN "lost" ELSE rpc[r]]
  /\ SentinelGone(s, {})
  /\ UNCHANGED <<rslot, ritem>>

(* A wrong Room: one message too many.                                      *)
BugRoomOneMore(s) == Len(rxq[s]) <= Depth

(* k_msgq_put(K_NO_WAIT) succeeds.                                          *)
Room(s) == Len(rxq[s]) < Depth

(* A wrong PurgeWithEof: the sentinel is put, nothing is purged first.      *)
BugPutOnly(s) ==
  LET W == {r \in Parked(s) : r = CHOOSE q \in Parked(s) : TRUE} IN
  /\ rxq' = IF W = {} /\ Room(s) THEN [rxq EXCEPT ![s] = Append(@, Eof)] ELSE rxq
  /\ rpc' = [r \in Reader |-> IF r \in W THEN "got" ELSE rpc[r]]
  /\ ritem' = [r \in Reader |-> IF r \in W THEN Eof ELSE ritem[r]]
  /\ since' = [r \in Reader |-> IF r \in Reading(s) THEN "hungup" ELSE since[r]]
  /\ UNCHANGED rslot

(* A wrong PurgeWithEof, the old order conv_free's comment tells of (l.252-  *)
(* 257): the sentinel is put, then the purge wakes the parked readers and   *)
(* drops it.                                                                *)
BugPutThenPurge(s) ==
  /\ rxq' = [rxq EXCEPT ![s] = <<>>]
  /\ rpc' = [r \in Reader |-> IF r \in Parked(s) THEN "got" ELSE rpc[r]]
  /\ ritem' = [r \in Reader |-> IF r \in Parked(s) THEN Eof ELSE ritem[r]]
  /\ since' = [r \in Reader |-> IF r \in Reading(s) THEN "hungup" ELSE since[r]]
  /\ UNCHANGED rslot

(* k_msgq_purge then k_msgq_put of the sentinel, as conv_free and hangup    *)
(* both do.  The purge makes every parked k_msgq_get fail, which anet_read  *)
(* turns into EOF; the sentinel stays in the queue for a read that has      *)
(* resolved its node and not yet reached the queue, or for the next.  A     *)
(* read that parks between the two calls and is handed the sentinel fares   *)
(* as one that reaches the queue after both.                                *)
PurgeWithEof(s) ==
  /\ rxq' = [rxq EXCEPT ![s] = <<Eof>>]
  /\ rpc' = [r \in Reader |-> IF r \in Parked(s) THEN "got" ELSE rpc[r]]
  /\ ritem' = [r \in Reader |-> IF r \in Parked(s) THEN Eof ELSE ritem[r]]
  /\ since' = [r \in Reader |-> IF r \in Reading(s) THEN "hungup" ELSE since[r]]
  /\ UNCHANGED rslot

(* A wrong ConvFree: it gives the slot up and leaves its queue alone.       *)
BugFreeSilently(s) ==
  /\ inUse' = [inUse EXCEPT ![s] = FALSE]
  /\ state' = [state EXCEPT ![s] = "UNCONNECTED"]
  /\ UNCHANGED <<peer, rxq, readVars>>

(* conv_free: nothing when the slot is already free.  The peer is left.     *)
ConvFree(s) ==
  \/ /\ ~inUse[s]
     /\ UNCHANGED <<connVars, readVars>>
  \/ /\ inUse[s]
     /\ PurgeWithEof(s)
     /\ inUse' = [inUse EXCEPT ![s] = FALSE]
     /\ state' = [state EXCEPT ![s] = "UNCONNECTED"]
     /\ UNCHANGED peer

-----------------------------------------------------------------------------
(* Mesh receive *)

(* The filter of aether_recv_cb: broadcasts to the party lines, unicasts to *)
(* announced conversations and to those connected to this source.           *)
Takes(s, b, src, bcast) ==
  /\ inUse[s]
  /\ \/ /\ bcast
        /\ state[s] = "BCAST"
     \/ /\ ~bcast
        /\ state[s] = "ANNOUNCED"
     \/ /\ ~bcast
        /\ state[s] = "CONNECTED"
        /\ \/ peer[s] \in Eui /\ b[peer[s]] = src
           \/ peer[s] = Ident(b, src)
           \/ peer[s] = src

(* A wrong Takers: the loop over the slots stops at the first that matches. *)
BugFirstTaker(b, src, bcast) ==
  {s \in Slot : Takes(s, b, src, bcast) /\ \A t \in 0 .. s - 1 : ~Takes(t, b, src, bcast)}

Takers(b, src, bcast) == {s \in Slot : Takes(s, b, src, bcast)}

(* One parked reader of each slot in T that has one: k_msgq_put gives the   *)
(* datagram to a waiting thread before it queues it.                        *)
OneReaderEach(W, T) ==
  /\ \A r \in W : rslot[r] \in T /\ r \in Parked(rslot[r])
  /\ \A s \in T : Parked(s) # {} => \E r \in W : rslot[r] = s
  /\ \A r1, r2 \in W : rslot[r1] = rslot[r2] => r1 = r2

(* aether_recv_cb, under g_fs.lock, for one frame.  A full queue drops the  *)
(* copy.  A broadcast carries the sender's identity, a unicast its route.   *)
Recv(b, src, bcast, len, W) ==
  LET T == Takers(b, src, bcast)
      ident == IF bcast THEN src ELSE Ident(b, src)
      d(s) == [src |-> ident, raw |-> src, len |-> len, how |-> state[s]]
  IN  /\ rx < MaxRx
      /\ OneReaderEach(W, T)
      /\ rx' = rx + 1
      /\ rxq' = [s \in Slot |->
                   IF s \in T /\ Parked(s) = {} /\ Room(s)
                   THEN Append(rxq[s], d(s)) ELSE rxq[s]]
      /\ rpc' = [r \in Reader |-> IF r \in W THEN "got" ELSE rpc[r]]
      /\ ritem' = [r \in Reader |-> IF r \in W THEN d(rslot[r]) ELSE ritem[r]]
      /\ UNCHANGED <<inUse, state, peer, fidVars, rslot, since, procVars>>

-----------------------------------------------------------------------------
(* ctl commands.  The fid may be stale: ctl_exec does not look at in_use.   *)

Connect(f, a) ==
  LET s == slotOf[f] IN
  /\ node[f] = "ctl"
  /\ state[s] = "UNCONNECTED"
  /\ state' = [state EXCEPT ![s] = "CONNECTED"]
  /\ peer' = [peer EXCEPT ![s] = a]
  /\ UNCHANGED <<inUse, rxq, fidVars, readVars, procVars, rx>>

ConnectBroadcast(f) ==
  LET s == slotOf[f] IN
  /\ node[f] = "ctl"
  /\ state[s] = "UNCONNECTED"
  /\ state' = [state EXCEPT ![s] = "BCAST"]
  /\ UNCHANGED <<inUse, peer, rxq, fidVars, readVars, procVars, rx>>

Announce(f) ==
  LET s == slotOf[f] IN
  /\ node[f] = "ctl"
  /\ state[s] = "UNCONNECTED"
  /\ state' = [state EXCEPT ![s] = "ANNOUNCED"]
  /\ UNCHANGED <<inUse, peer, rxq, fidVars, readVars, procVars, rx>>

Hangup(f) ==
  LET s == slotOf[f] IN
  /\ node[f] = "ctl"
  /\ PurgeWithEof(s)
  /\ state' = [state EXCEPT ![s] = "UNCONNECTED"]
  /\ peer' = [peer EXCEPT ![s] = NoAddr]
  /\ UNCHANGED <<inUse, fidVars, procVars, rx>>

-----------------------------------------------------------------------------
(* Fids *)

WalkClone(f) ==
  /\ node[f] = "none"
  /\ \E s \in Slot :
       /\ ConvAlloc(s)
       /\ node' = [node EXCEPT ![f] = "ctl"]
       /\ slotOf' = [slotOf EXCEPT ![f] = s]
  /\ UNCHANGED <<procVars, rx>>

(* A walk by name to <N>/ctl or <N>/data finds the slots linked in the tree. *)
WalkConv(f, s, kind) ==
  /\ node[f] = "none"
  /\ inUse[s]
  /\ node' = [node EXCEPT ![f] = kind]
  /\ slotOf' = [slotOf EXCEPT ![f] = s]
  /\ UNCHANGED <<connVars, readVars, procVars, rx>>

(* anet_clunk: any fid on ctl, not only the one that cloned, frees the slot. *)
Clunk(f) ==
  /\ node[f] # "none"
  /\ \/ /\ node[f] = "ctl"
        /\ ConvFree(slotOf[f])
     \/ /\ node[f] = "data"
        /\ UNCHANGED <<connVars, readVars>>
  /\ node' = [node EXCEPT ![f] = "none"]
  /\ slotOf' = [slotOf EXCEPT ![f] = 0]
  /\ UNCHANGED <<procVars, rx>>

(* Tversion drops the session's fids without clunking them.                 *)
Tversion(se) ==
  /\ \E f \in Fid : SessionOf[f] = se /\ node[f] # "none"
  /\ node' = [f \in Fid |-> IF SessionOf[f] = se THEN "none" ELSE node[f]]
  /\ slotOf' = [f \in Fid |-> IF SessionOf[f] = se THEN 0 ELSE slotOf[f]]
  /\ UNCHANGED <<connVars, readVars, procVars, rx>>

-----------------------------------------------------------------------------
(* data reads, outside the lock *)

SinceStart(s) ==
  IF ~inUse[s] THEN "free" ELSE IF state[s] = "UNCONNECTED" THEN "unbound" ELSE "bound"

(* The server hands the node of a data fid to a worker, which enters         *)
(* anet_read.  From here on the fid plays no part: it may be clunked, its    *)
(* conversation hung up, freed and handed out again before the worker gets   *)
(* to the queue.                                                             *)
ReadCall(f, r) ==
  LET s == slotOf[f] IN
  /\ node[f] = "data"
  /\ rpc[r] = "idle"
  /\ rpc' = [rpc EXCEPT ![r] = "called"]
  /\ rslot' = [rslot EXCEPT ![r] = s]
  /\ since' = [since EXCEPT ![r] = SinceStart(s)]
  /\ UNCHANGED <<connVars, fidVars, ritem, procVars, rx>>

(* k_msgq_get(K_FOREVER): take the head, or park on the empty queue.        *)
ReadGet(r) ==
  LET s == rslot[r] IN
  /\ rpc[r] = "called"
  /\ \/ /\ rxq[s] # <<>>
        /\ rpc' = [rpc EXCEPT ![r] = "got"]
        /\ ritem' = [ritem EXCEPT ![r] = Head(rxq[s])]
        /\ rxq' = [rxq EXCEPT ![s] = Tail(@)]
        /\ IF Head(rxq[s]) = Eof THEN SentinelGone(s, {r}) ELSE UNCHANGED since
     \/ /\ rxq[s] = <<>>
        /\ rpc' = [rpc EXCEPT ![r] = "parked"]
        /\ UNCHANGED <<ritem, rxq, since>>
  /\ UNCHANGED <<inUse, state, peer, fidVars, rslot, procVars, rx>>

(* The reply is built from the conversation's state as it is now.           *)
Prefixed(r) == state[rslot[r]] \in {"ANNOUNCED", "BCAST"}

ReadReturn(r) ==
  /\ rpc[r] = "got"
  /\ rpc' = [rpc EXCEPT ![r] = "idle"]
  /\ rslot' = [rslot EXCEPT ![r] = 0]
  /\ ritem' = [ritem EXCEPT ![r] = Eof]
  /\ since' = [since EXCEPT ![r] = "free"]
  /\ UNCHANGED <<connVars, fidVars, procVars, rx>>

-----------------------------------------------------------------------------
(* In-process sessions *)

ProcAlloc(u) ==
  /\ kpc[u] = "idle"
  /\ \E s \in Slot :
       /\ ConvAlloc(s)
       /\ kslot' = [kslot EXCEPT ![u] = s]
  /\ kpc' = [kpc EXCEPT ![u] = "alloced"]
  /\ UNCHANGED <<fidVars, rx>>

(* The bind is made outside the lock and looks at nothing.                  *)
ProcBind(u, e) ==
  /\ kpc[u] = "alloced"
  /\ kpc' = [kpc EXCEPT ![u] = "bound"]
  /\ peer' = [peer EXCEPT ![kslot[u]] = e]
  /\ state' = [state EXCEPT ![kslot[u]] = "CONNECTED"]
  /\ UNCHANGED <<inUse, rxq, fidVars, readVars, kslot, rx>>

(* The k_msgq_get of m9_rpc and push_reap.                                  *)
ProcGet(u) ==
  /\ kpc[u] = "bound"
  /\ rxq[kslot[u]] # <<>>
  /\ rxq' = [rxq EXCEPT ![kslot[u]] = Tail(@)]
  /\ IF Head(rxq[kslot[u]]) = Eof THEN SentinelGone(kslot[u], {}) ELSE UNCHANGED since
  /\ UNCHANGED <<inUse, state, peer, fidVars, rpc, rslot, ritem, procVars, rx>>

ProcFree(u) ==
  /\ kpc[u] = "bound"
  /\ ConvFree(kslot[u])
  /\ kpc' = [kpc EXCEPT ![u] = "idle"]
  /\ kslot' = [kslot EXCEPT ![u] = 0]
  /\ UNCHANGED <<fidVars, rx>>

-----------------------------------------------------------------------------
Init ==
  /\ inUse = [s \in Slot |-> FALSE]
  /\ state = [s \in Slot |-> "UNCONNECTED"]
  /\ peer = [s \in Slot |-> NoAddr]
  /\ rxq = [s \in Slot |-> <<>>]
  /\ node = [f \in Fid |-> "none"]
  /\ slotOf = [f \in Fid |-> 0]
  /\ rpc = [r \in Reader |-> "idle"]
  /\ rslot = [r \in Reader |-> 0]
  /\ ritem = [r \in Reader |-> Eof]
  /\ since = [r \in Reader |-> "free"]
  /\ kpc = [u \in InProc |-> "idle"]
  /\ kslot = [u \in InProc |-> 0]
  /\ rx = 0

RecvUnicast ==
  \E b \in Binding, src \in Route, len \in Sizes, W \in SUBSET Reader :
    Recv(b, src, FALSE, len, W)

RecvBroadcast ==
  \E b \in Binding, src \in Eui, len \in Sizes, W \in SUBSET Reader :
    Recv(b, src, TRUE, len, W)

Next ==
  \/ RecvUnicast
  \/ RecvBroadcast
  \/ \E f \in Fid, a \in Addr : Connect(f, a)
  \/ \E f \in Fid : ConnectBroadcast(f)
  \/ \E f \in Fid : Announce(f)
  \/ \E f \in Fid : Hangup(f)
  \/ \E f \in Fid : WalkClone(f)
  \/ \E f \in Fid, s \in Slot, kind \in {"ctl", "data"} : WalkConv(f, s, kind)
  \/ \E f \in Fid : Clunk(f)
  \/ \E se \in Session : Tversion(se)
  \/ \E f \in Fid, r \in Reader : ReadCall(f, r)
  \/ \E r \in Reader : ReadGet(r)
  \/ \E r \in Reader : ReadReturn(r)
  \/ \E u \in InProc : ProcAlloc(u)
  \/ \E u \in InProc, e \in Eui : ProcBind(u, e)
  \/ \E u \in InProc : ProcGet(u)
  \/ \E u \in InProc : ProcFree(u)

Spec == Init /\ [][Next]_vars

-----------------------------------------------------------------------------
(* Properties *)

TypeOK ==
  /\ inUse \in [Slot -> BOOLEAN]
  /\ state \in [Slot -> ConvState]
  /\ peer \in [Slot -> Addr \cup {NoAddr}]
  /\ rxq \in [Slot -> Queue]
  /\ node \in [Fid -> {"none", "ctl", "data"}]
  /\ slotOf \in [Fid -> Slot]
  /\ rpc \in [Reader -> {"idle", "called", "parked", "got", "lost"}]
  /\ rslot \in [Reader -> Slot]
  /\ ritem \in [Reader -> Dgram]
  /\ since \in [Reader -> {"free", "unbound", "bound", "hungup", "beaten"}]
  /\ kpc \in [InProc -> {"idle", "alloced", "bound"}]
  /\ kslot \in [InProc -> Slot]
  /\ rx \in Nat

(* Whether datagram d belongs to what slot s is bound to now.               *)
Belongs(d, s) ==
  /\ d.how = state[s]
  /\ state[s] # "UNCONNECTED"
  /\ state[s] = "CONNECTED" => peer[s] \in {d.src, d.raw}

Unheld(s) == \A u \in InProc : kpc[u] = "idle" \/ kslot[u] # s

QueueIsolation ==
  \A s \in Slot : Unheld(s) /\ inUse[s] =>
    \A i \in 1 .. Len(rxq[s]) : rxq[s][i] = Eof \/ Belongs(rxq[s][i], s)

FreeSlotDrained ==
  \A s \in Slot : ~inUse[s] => \A i \in 1 .. Len(rxq[s]) : rxq[s][i] = Eof

HandIsolation ==
  \A r \in Reader :
    /\ rpc[r] = "got"
    /\ since[r] \in {"unbound", "bound"}
    /\ Unheld(rslot[r])
    => ritem[r] = Eof \/ Belongs(ritem[r], rslot[r])

(* Every datagram waiting in a conversation, and every one a reader that    *)
(* began on it has taken and not yet returned, came from what the           *)
(* conversation is bound to now, however often the slot was hung up, bound  *)
(* again, freed and handed out again: a connected conversation reads only   *)
(* its peer, a party line only broadcasts; a free slot holds none (the      *)
(* filter of aether_recv_cb, the purges of hangup and conv_free, the        *)
(* k_msgq_init of conv_alloc).  Slots an in-process session points at are   *)
(* excepted: its bind is made outside the lock and checks nothing.          *)
DeliveryIsolation == QueueIsolation /\ FreeSlotDrained /\ HandIsolation

(* No read is left blocked by a hangup or by the freeing of its conversation, *)
(* not even one that had not reached the queue when it came: it finds the   *)
(* sentinel, which the purge-then-put order of conv_free leaves there (l.252-*)
(* 257), however the fid, the slot and its binding have moved on.  There is  *)
(* one sentinel: a read is excepted once another call has taken it, or      *)
(* conv_alloc's k_msgq_init dropped it, before the read got to the queue.    *)
HangupWakesReaders ==
  \A r \in Reader : rpc[r] = "parked" => since[r] # "hungup"

(* Reusing a slot re-initialises its queue under the readers parked on it:  *)
(* only a read begun on a slot already freed, or one beaten to the single   *)
(* sentinel, can be stranded that way, never one parked on a live           *)
(* conversation.                                                            *)
ReuseStrandsNoLiveRead ==
  \A r \in Reader : rpc[r] = "lost" => since[r] \in {"free", "beaten"}

(* A broadcast fans into every open party line (spec section 6a): if one    *)
(* takes the frame, every other that had room takes it too.                 *)
Got(s) == rxq'[s] # rxq[s] \/ \E r \in Parked(s) : rpc'[r] = "got"

FanOutUniform ==
  [][rx' # rx =>
       \A s, t \in Slot :
         /\ inUse[s] /\ state[s] = "BCAST" /\ Got(s)
         /\ inUse[t] /\ state[t] = "BCAST" /\ Room(t)
         => Got(t)]_vars

(* The reply to a read carries the source prefix exactly when the datagram  *)
(* came in through an announced or a party-line conversation (comment of    *)
(* anet_read, l.578: "no exceptions").                                      *)
PrefixFollowsArrival ==
  [][\A r \in Reader :
       rpc[r] = "got" /\ rpc'[r] = "idle" /\ ritem[r].len # 0
         => (Prefixed(r) <=> ritem[r].how \in {"ANNOUNCED", "BCAST"})]_vars

-----------------------------------------------------------------------------
(* The invariant the safety theorems of AetherNet_proofs rest on: a read    *)
(* that began on a conversation and has not seen a hangup is on a slot that *)
(* is still in use; one on its way to the queue that has seen one will find *)
(* the sentinel at its head.                                                *)
LiveReadLiveSlot ==
  \A r \in Reader :
    rpc[r] \in {"called", "parked", "got"} /\ since[r] \in {"unbound", "bound"}
      => inUse[rslot[r]]

SentinelWaits ==
  \A s \in Slot : Coming(s) # {} => rxq[s] # <<>> /\ rxq[s][1] = Eof

IInv ==
  /\ TypeOK
  /\ DeliveryIsolation
  /\ HangupWakesReaders
  /\ ReuseStrandsNoLiveRead
  /\ LiveReadLiveSlot
  /\ SentinelWaits
=============================================================================

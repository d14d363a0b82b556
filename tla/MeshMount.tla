------------------------------- MODULE MeshMount -------------------------------
(***************************************************************************)
(* The relay's /net/mesh: a 9P client nested in a conversation of the       *)
(* 9151's /net/aether, so that a host sees the files of another node.       *)
(* Writing dev/mesh_peer names that node (fw_write_mesh_peer); an access    *)
(* to /net/mesh connects a conversation to it and attaches                  *)
(* (mesh9p_remote_root), then sends its request; a request that finds the   *)
(* session gone drops it (mesh9p_remote_down).  All requests go through one *)
(* buffer and one pump thread, which writes the conversation's data file    *)
(* and reads it until a reply with the request's tag comes                   *)
(* (aether_conv_transport.c).                                               *)
(*                                                                         *)
(* The carrier, the 9P client to the 9151, is RelayLink's subject: here its  *)
(* calls work or fail, its clunks too, and what a failed call leaves in the  *)
(* 9151 stays there.  The nested client (9p4z) waits for a reply with its    *)
(* tag or for its timeout; tags are not reused, Tversion always has NOTAG.  *)
(***************************************************************************)
EXTENDS Naturals, Sequences, FiniteSets

CONSTANTS
  Thread,    \* threads that serve the hosts' requests
  Peer,      \* other nodes
  Named,     \* what dev/mesh_peer names at the start
  Slot,      \* the 9151's conversations
  Fid,       \* numbers of the carrier's fids for a data file
  Attempts,  \* TX_ATTEMPTS: 8
  Polls,     \* RX_POLLS: 6
  MaxOps,    \* bound: requests of the hosts
  MaxFaults, \* bound: messages lost or late, calls that fail, nodes that reset
  None

ASSUME MountAssumption ==
  /\ {Attempts, Polls} \subseteq Nat \ {0}
  /\ {MaxOps, MaxFaults} \subseteq Nat
  /\ None \notin Thread \cup Peer \cup Slot \cup Fid
  /\ Named \in Peer \cup {None}
  /\ IsFiniteSet(Slot)

VARIABLES
  th,        \* each thread: where it is, and the call it waits for
  sess,      \* mesh9p_sess: its holder
  meshPeer,  \* g_mesh_peer
  attached,  \* mesh9p_attached
  tp,        \* the transport: connected, data_fid, conv, peer
  lock,      \* its lock: who disconnects
  txbuf,     \* the T message to send
  sem,       \* tx_sem
  pump,      \* the pump thread
  conv,      \* the 9151's conversations: free, held by a ctl fid or with that fid
             \* gone; their peer, datagrams queued, parked reads
  fidOf,     \* the conversation of each data fid
  srv,       \* each peer's server knows the relay's root fid
  air,       \* replies on their way from each peer
  ops,       \* requests made
  calls,     \* calls of the nested client
  faults,    \* history: what went wrong
  cut        \* history: a session lost its conversation to a disconnect that was
             \* meant for the one before

transport == <<tp, lock, txbuf, sem>>
node == <<conv, fidOf>>
mesh == <<srv, air>>
vars == <<th, sess, meshPeer, attached, transport, pump, node, mesh, ops, calls, faults, cut>>

Call == {"version", "attach", "use"}
Idle == [at |-> "idle", call |-> "use", tag |-> 0, id |-> 0, seen |-> {}]
Silent == [op |-> "none", tag |-> 0, id |-> 0, ok |-> FALSE, peer |-> None]
Unused == [ctl |-> "free", peer |-> None, q |-> <<>>, parked |-> 0]
Sleeping == [at |-> "wait", fid |-> None, slot |-> None, want |-> 0, try |-> 0, polls |-> 0,
             rb |-> Silent]

MayFail == faults < MaxFaults
Fault == faults' = faults + 1

history == <<faults, cut>>

-----------------------------------------------------------------------------
(* The pump's counts                                                         *)

(* A wrong Again: one attempt too many.                                      *)
BugAgain == IF pump.try = Attempts THEN Sleeping
            ELSE [pump EXCEPT !.at = "write", !.try = @ + 1, !.polls = 0]

Again == IF pump.try + 1 = Attempts THEN Sleeping
         ELSE [pump EXCEPT !.at = "write", !.try = @ + 1, !.polls = 0]

Poll == IF pump.polls + 1 = Polls THEN Again ELSE [pump EXCEPT !.at = "read", !.polls = @ + 1]

(* Conversations end: a read that waits there returns nothing.               *)
Ended(S) == IF pump.at = "block" /\ pump.slot \in S THEN Poll ELSE pump

-----------------------------------------------------------------------------
(* aether_conv_transport_disconnect, connect                                 *)

(* A wrong SamePeer: any conversation will do.                               *)
BugSamePeer == tp.connected

SamePeer == tp.connected /\ tp.peer = meshPeer

(* The check of connect; a conversation with another peer is disconnected.    *)
Connect(h) ==
  /\ th[h].at = "connect" /\ lock = None
  /\ th' = [th EXCEPT ![h] = IF SamePeer THEN [@ EXCEPT !.at = "call", !.call = "version"]
                             ELSE [@ EXCEPT !.at = "redial"]]
  /\ UNCHANGED <<sess, meshPeer, attached, transport, pump, node, mesh, ops, calls, history>>

(* A wrong Forget: the lock is kept after clunks.                            *)
BugForget(h) ==
  /\ tp' = [tp EXCEPT !.connected = FALSE, !.fid = None, !.slot = None]
  /\ lock' = lock
  /\ th' = [th EXCEPT ![h] = IF @.at = "redial" THEN [@ EXCEPT !.at = "dial"] ELSE Idle]
  /\ cut' = (cut \/ attached \/ \E g \in Thread : sess = g /\ th[g].at \in {"call", "wait"})

(* The end of disconnect, whatever became of its clunks: the fids are         *)
(* forgotten.  It may have hit a newer session's conversation.               *)
Forget(h) ==
  /\ tp' = [tp EXCEPT !.connected = FALSE, !.fid = None, !.slot = None]
  /\ lock' = None
  /\ th' = [th EXCEPT ![h] = IF @.at = "redial" THEN [@ EXCEPT !.at = "dial"] ELSE Idle]
  /\ cut' = (cut \/ attached \/ \E g \in Thread : sess = g /\ th[g].at \in {"call", "wait"})

(* disconnect takes the lock and clunks the data fid, which may fail.         *)
ClunkData(h) ==
  /\ th[h].at \in {"redial", "drop"} /\ lock = None
  /\ \/ ~tp.connected /\ Forget(h) /\ UNCHANGED <<fidOf, faults>>
     \/ /\ tp.connected
        /\ lock' = h
        /\ \/ fidOf' = [fidOf EXCEPT ![tp.fid] = None] /\ UNCHANGED faults
           \/ MayFail /\ Fault /\ UNCHANGED fidOf
        /\ UNCHANGED <<tp, th, cut>>
  /\ UNCHANGED <<sess, meshPeer, attached, txbuf, sem, pump, conv, mesh, ops, calls>>

(* A wrong ClunkCtl: the ctl fid is forgotten, not clunked.                   *)
BugClunkCtl(h) ==
  /\ lock = h
  /\ Forget(h)
  /\ UNCHANGED <<sess, meshPeer, attached, txbuf, sem, pump, node, mesh, ops, calls, faults>>

(* Clunking the ctl fid frees the conversation and ends the reads that wait    *)
(* there, unless the call fails or the 9151 knows the fid no more.           *)
ClunkCtl(h) ==
  /\ tp.connected /\ lock = h
  /\ \/ /\ conv[tp.slot].ctl = "held"
        /\ conv' = [conv EXCEPT ![tp.slot] = Unused]
        /\ pump' = Ended({tp.slot})
        /\ UNCHANGED faults
     \/ conv[tp.slot].ctl # "held" /\ UNCHANGED <<conv, pump, faults>>
     \/ MayFail /\ Fault /\ UNCHANGED <<conv, pump>>
  /\ Forget(h)
  /\ UNCHANGED <<sess, meshPeer, attached, txbuf, sem, fidOf, mesh, ops, calls>>

Release(h, to) ==
  /\ th' = [th EXCEPT ![h] = to]
  /\ sess' = None

(* A conversation that a new ctl fid holds.                                  *)
Taken(s, p) == [conv EXCEPT ![s] = [Unused EXCEPT !.ctl = "held", !.peer = p]]

(* conv_alloc takes the first conversation that is free.                     *)
FirstFree == CHOOSE s \in Slot : conv[s].ctl = "free"
NoneFree == \A s \in Slot : conv[s].ctl # "free"

(* clone, its number, the data file, "connect", in one step: nobody else knows *)
(* these fids.  A call that fails, or a reply lost, ends it; then the clunks   *)
(* of what was opened may fail too, or there is no fid to clunk, and the       *)
(* conversation stays taken, before or after its "connect", the data fid      *)
(* stays bound, or both.                                                     *)
Dial(h) ==
  /\ th[h].at = "dial"
  /\ \/ \E f \in Fid :
          LET s == FirstFree
              bound == [fidOf EXCEPT ![f] = s]
          IN
          /\ ~NoneFree /\ fidOf[f] = None
          /\ \/ /\ conv' = Taken(s, meshPeer) /\ fidOf' = bound
                /\ tp' = [connected |-> TRUE, fid |-> f, slot |-> s, peer |-> meshPeer]
                /\ th' = [th EXCEPT ![h] = [@ EXCEPT !.at = "call", !.call = "version"]]
                /\ UNCHANGED <<sess, faults>>
             \/ /\ MayFail /\ Fault
                /\ conv' \in {conv, Taken(s, None), Taken(s, meshPeer)}
                /\ fidOf' \in {fidOf, bound}
                /\ Release(h, Idle)
                /\ UNCHANGED tp
     \/ /\ NoneFree \/ \A f \in Fid : fidOf[f] # None
        /\ Release(h, Idle)
        /\ UNCHANGED <<tp, node, faults>>
  /\ UNCHANGED <<meshPeer, attached, lock, txbuf, sem, pump, mesh, ops, calls, cut>>

-----------------------------------------------------------------------------
(* The hosts' requests                                                       *)

Begin(h) ==
  /\ th[h].at = "idle"
  /\ ops < MaxOps
  /\ ops' = ops + 1

(* The root function of /net/mesh: no peer is named, the session is there, or  *)
(* it is made while the lock is held (the 9151's own session may fail).      *)
Access(h) ==
  /\ Begin(h)
  /\ sess = None /\ meshPeer # None
  /\ LET on == [th[h] EXCEPT !.seen = {meshPeer}] IN
     IF attached
     THEN /\ th' = [th EXCEPT ![h] = [on EXCEPT !.at = "call", !.call = "use"]]
          /\ UNCHANGED sess
     ELSE /\ th' = [th EXCEPT ![h] = [on EXCEPT !.at = "connect"]]
          /\ sess' = h
  /\ UNCHANGED <<meshPeer, attached, transport, pump, node, mesh, calls, history>>

(* fw_write_mesh_peer, up to its unlock: an empty write names no peer.  The    *)
(* conversation is dropped after it.                                         *)
SetPeer(h, p) ==
  /\ Begin(h)
  /\ sess = None
  /\ meshPeer' = p
  /\ attached' = FALSE
  /\ th' = [g \in Thread |-> IF g = h THEN [Idle EXCEPT !.at = "drop"]
                             ELSE [th[g] EXCEPT !.seen = IF th[g].at = "idle" THEN {} ELSE @ \cup ({p} \ {None})]]
  /\ UNCHANGED <<sess, transport, pump, node, mesh, calls, history>>

(* mesh9p_remote_down, up to its unlock.                                     *)
Down(h) ==
  /\ th[h].at = "down"
  /\ sess = None
  /\ attached' = FALSE
  /\ th' = [th EXCEPT ![h].at = "drop"]
  /\ UNCHANGED <<sess, meshPeer, transport, pump, node, mesh, ops, calls, history>>

-----------------------------------------------------------------------------
(* The nested client: aether_tx_send, the wait, recv_cb                      *)

Send(h) ==
  /\ th[h].at = "call"
  /\ LET tag == IF th[h].call = "version" THEN 0 ELSE calls + 1 IN
       /\ th' = [th EXCEPT ![h] = [@ EXCEPT !.at = "wait", !.tag = tag, !.id = calls + 1]]
       /\ txbuf' = [op |-> th[h].call, tag |-> tag, id |-> calls + 1]
  /\ sem' = 1
  /\ calls' = calls + 1
  /\ UNCHANGED <<sess, meshPeer, attached, tp, lock, pump, node, mesh, ops, history>>

(* What the reply, or its absence, does to the access: the handshake goes on   *)
(* or ends, a request that fails drops the session if it looks gone to 9p4z.  *)
Returned(h, ok) ==
  CASE th[h].call = "version" /\ ok ->
         /\ th' = [th EXCEPT ![h] = [@ EXCEPT !.at = "call", !.call = "attach"]]
         /\ UNCHANGED <<sess, attached, cut>>
    [] th[h].call = "attach" /\ ok ->
         /\ attached' = TRUE
         /\ Release(h, [th[h] EXCEPT !.at = "call", !.call = "use"])
    [] th[h].call # "use" /\ ~ok ->
         /\ Release(h, Idle)
         /\ UNCHANGED attached
    [] OTHER ->
         /\ \/ th' = [th EXCEPT ![h] = Idle]
            \/ ~ok /\ th' = [th EXCEPT ![h] = [Idle EXCEPT !.at = "down"]]
         /\ UNCHANGED <<sess, attached, cut>>

(* Nothing that is under way can become the answer.                          *)
Hopeless ==
  \/ pump.at = "wait" /\ sem = 0
  \/ pump.at = "block" /\ conv[pump.slot].q = <<>> /\ \A p \in Peer : air[p] = <<>>

(* Six seconds are over.                                                     *)
Timeout(h) ==
  /\ th[h].at = "wait"
  /\ Hopeless \/ MayFail
  /\ faults' = IF Hopeless THEN faults ELSE faults + 1
  /\ Returned(h, FALSE)
  /\ UNCHANGED <<meshPeer, transport, pump, node, mesh, ops, calls, cut>>

-----------------------------------------------------------------------------
(* The pump                                                                  *)

(* With no conversation the message is dropped.                              *)
PumpTake ==
  /\ pump.at = "wait" /\ sem = 1 /\ lock = None
  /\ sem' = 0
  /\ pump' = IF tp.connected THEN [Sleeping EXCEPT !.at = "write", !.fid = tp.fid, !.want = txbuf.tag]
             ELSE Sleeping
  /\ UNCHANGED <<th, sess, meshPeer, attached, tp, lock, txbuf, node, mesh, ops, calls, history>>

(* A peer serves a request when it comes: Tversion drops its fids.            *)
Serve(p) ==
  LET ok == txbuf.op # "use" \/ srv[p] IN
  /\ srv' = [srv EXCEPT ![p] = txbuf.op = "attach" \/ (txbuf.op = "use" /\ @)]
  /\ air' = [air EXCEPT ![p] = Append(@, [op |-> txbuf.op, tag |-> txbuf.tag, id |-> txbuf.id,
                                          ok |-> ok, peer |-> p])]

(* Where the pump's fid leads: nowhere once it is clunked or dropped.         *)
Reaches == fidOf[pump.fid]

(* The buffer as it is now goes out over the fid as it was: to no peer, if the *)
(* conversation is gone; or it gets through, or is lost, or was sent though    *)
(* the call failed.                                                          *)
PumpWrite ==
  /\ pump.at = "write"
  /\ LET sends == Reaches # None /\ conv[Reaches].peer # None
         read == [pump EXCEPT !.at = "read"]
     IN  \/ ~sends /\ pump' = Again /\ UNCHANGED <<mesh, history>>
         \/ sends /\ Serve(conv[Reaches].peer) /\ pump' = read /\ UNCHANGED faults
         \/ sends /\ MayFail /\ Fault /\ pump' \in {read, Again} /\ UNCHANGED mesh
         \/ sends /\ MayFail /\ Fault /\ pump' = Again /\ Serve(conv[Reaches].peer)
  /\ UNCHANGED <<th, sess, meshPeer, attached, transport, node, ops, calls, cut>>

(* The read waits in the conversation that the fid leads to; a fid that is    *)
(* gone, or whose conversation is, reads nothing.                            *)
PumpRead ==
  /\ pump.at = "read"
  /\ pump' = IF Reaches = None THEN Poll
             ELSE IF conv[Reaches].ctl = "free" THEN Poll
             ELSE [pump EXCEPT !.at = "block", !.slot = Reaches]
  /\ UNCHANGED <<th, sess, meshPeer, attached, transport, node, mesh, ops, calls, history>>

(* A datagram with the tag is the reply, others are discarded.               *)
PumpGot ==
  /\ pump.at = "block"
  /\ conv[pump.slot].q # <<>>
  /\ LET d == Head(conv[pump.slot].q) IN
       pump' = IF d.tag = pump.want THEN [pump EXCEPT !.at = "deliver", !.rb = d] ELSE Poll
  /\ conv' = [conv EXCEPT ![pump.slot].q = Tail(@)]
  /\ UNCHANGED <<th, sess, meshPeer, attached, transport, fidOf, mesh, ops, calls, history>>

(* The carrier's five minutes are over, or its call is aborted; the 9151's     *)
(* thread still waits with the read and will take the next datagram.         *)
Expire ==
  /\ pump.at = "block"
  /\ conv[pump.slot].q = <<>>
  /\ conv' = [conv EXCEPT ![pump.slot].parked = @ + 1]
  /\ Hopeless \/ MayFail
  /\ faults' = IF Hopeless THEN faults ELSE faults + 1
  /\ pump' = Poll
  /\ UNCHANGED <<th, sess, meshPeer, attached, transport, fidOf, mesh, ops, calls, cut>>

(* recv_cb: the call that has the tag gets the reply.                        *)
PumpDeliver ==
  /\ pump.at = "deliver"
  /\ pump' = Sleeping
  /\ LET Waits(h) == th[h].at = "wait" /\ th[h].tag = pump.rb.tag IN
     \/ \E h \in Thread : Waits(h) /\ Returned(h, pump.rb.ok)
     \/ /\ ~\E h \in Thread : Waits(h)
        /\ UNCHANGED <<th, sess, attached, cut>>
  /\ UNCHANGED <<meshPeer, transport, node, mesh, ops, calls, history>>

-----------------------------------------------------------------------------
(* The 9151 and the mesh                                                     *)

(* A reply reaches the conversation that is connected to its sender; a thread  *)
(* that waits there with an old read takes it.                               *)
Arrive(p) ==
  /\ air[p] # <<>>
  /\ air' = [air EXCEPT ![p] = Tail(@)]
  /\ conv' = [s \in Slot |->
               IF conv[s].peer # p THEN conv[s]
               ELSE IF conv[s].parked > 0 THEN [conv[s] EXCEPT !.parked = @ - 1]
               ELSE [conv[s] EXCEPT !.q = Append(@, Head(air[p]))]]
  /\ UNCHANGED <<th, sess, meshPeer, attached, transport, pump, fidOf, srv, ops, calls, history>>

Lose(p) ==
  /\ air[p] # <<>>
  /\ MayFail /\ Fault
  /\ air' = [air EXCEPT ![p] = Tail(@)]
  /\ UNCHANGED <<th, sess, meshPeer, attached, transport, pump, node, srv, ops, calls, cut>>

(* The node resets, or another client's Tversion drops the relay's fids.     *)
PeerResets(p) ==
  /\ srv[p]
  /\ MayFail /\ Fault
  /\ srv' = [srv EXCEPT ![p] = FALSE]
  /\ UNCHANGED <<th, sess, meshPeer, attached, transport, pump, node, air, ops, calls, cut>>

(* The carrier's own Tversion, for another session, drops every fid: what the  *)
(* ctl fids held stays taken (mesh_ensure_attached).                         *)
FidsDropped ==
  /\ MayFail /\ Fault
  /\ fidOf' = [f \in Fid |-> None]
  /\ conv' = [s \in Slot |-> IF conv[s].ctl = "held" THEN [conv[s] EXCEPT !.ctl = "gone"] ELSE conv[s]]
  /\ UNCHANGED <<th, sess, meshPeer, attached, transport, pump, mesh, ops, calls, cut>>

(* The 9151 reboots: no fid, no conversation.                                *)
NodeReboots ==
  /\ MayFail /\ Fault
  /\ fidOf' = [f \in Fid |-> None]
  /\ conv' = [s \in Slot |-> Unused]
  /\ pump' = Ended(Slot)
  /\ UNCHANGED <<th, sess, meshPeer, attached, transport, mesh, ops, calls, cut>>

-----------------------------------------------------------------------------

Init ==
  /\ th = [h \in Thread |-> Idle]
  /\ sess = None /\ meshPeer = Named /\ attached = FALSE
  /\ tp = [connected |-> FALSE, fid |-> None, slot |-> None, peer |-> None] /\ lock = None
  /\ txbuf = [op |-> "none", tag |-> 0, id |-> 0] /\ sem = 0
  /\ pump = Sleeping
  /\ conv = [s \in Slot |-> Unused] /\ fidOf = [f \in Fid |-> None]
  /\ srv = [p \in Peer |-> FALSE] /\ air = [p \in Peer |-> <<>>]
  /\ ops = 0 /\ calls = 0 /\ faults = 0 /\ cut = FALSE

Serving(h) ==
  Connect(h) \/ ClunkData(h) \/ ClunkCtl(h) \/ Dial(h) \/ Down(h) \/ Send(h) \/ Timeout(h)
Pump == PumpTake \/ PumpWrite \/ PumpRead \/ PumpGot \/ Expire \/ PumpDeliver

Next ==
  \/ \E h \in Thread :
       \/ Access(h)
       \/ \E p \in Peer \cup {None} : SetPeer(h, p)
       \/ Serving(h)
  \/ Pump
  \/ \E p \in Peer : Arrive(p) \/ Lose(p) \/ PeerResets(p)
  \/ FidsDropped \/ NodeReboots

Spec == Init /\ [][Next]_vars

FairSpec ==
  /\ Spec
  /\ \A h \in Thread : WF_vars(Serving(h))
  /\ WF_vars(Pump)
  /\ \A p \in Peer : WF_vars(Arrive(p))

-----------------------------------------------------------------------------
(* Properties                                                                *)

Datagram == [op : Call \cup {"none"}, tag : Nat, id : Nat, ok : BOOLEAN, peer : Peer \cup {None}]

ThreadState == [at : {"idle", "connect", "redial", "dial", "call", "wait", "down", "drop"},
                call : Call, tag : Nat, id : Nat, seen : SUBSET Peer]
PumpState == [at : {"wait", "write", "read", "block", "deliver"}, fid : Fid \cup {None},
              slot : Slot \cup {None}, want : Nat, try : 0 .. Attempts - 1,
              polls : 0 .. Polls - 1, rb : Datagram]
ConvState == [ctl : {"free", "held", "gone"}, peer : Peer \cup {None}, q : Seq(Datagram), parked : Nat]
TransportState == [connected : BOOLEAN, fid : Fid \cup {None}, slot : Slot \cup {None},
                   peer : Peer \cup {None}]

TypeOK ==
  /\ th \in [Thread -> ThreadState]
  /\ sess \in Thread \cup {None}
  /\ meshPeer \in Peer \cup {None}
  /\ attached \in BOOLEAN
  /\ tp \in TransportState
  /\ lock \in Thread \cup {None}
  /\ txbuf \in [op : Call \cup {"none"}, tag : Nat, id : Nat]
  /\ sem \in 0 .. 1
  /\ pump \in PumpState
  /\ conv \in [Slot -> ConvState]
  /\ fidOf \in [Fid -> Slot \cup {None}]
  /\ srv \in [Peer -> BOOLEAN]
  /\ air \in [Peer -> Seq(Datagram)]
  /\ ops \in 0 .. MaxOps
  /\ calls \in Nat
  /\ faults \in 0 .. MaxFaults
  /\ cut \in BOOLEAN

(* The conversations of the 9151 that no disconnect will free: all that are    *)
(* taken but the one whose ctl fid the transport and the 9151 both know.     *)
Lost == {s \in Slot : conv[s].ctl # "free" /\ ~(tp.connected /\ tp.slot = s /\ conv[s].ctl = "held")}

(* The pool is small: what goes wrong once costs it one conversation at most,  *)
(* whichever call of a dial or a disconnect it hits, and no redial, re-target  *)
(* or race of two disconnects costs any.                                     *)
OneLeakAFault == Cardinality(Lost) <= faults

(* A reply that the nested client takes is the one to that very request, from  *)
(* a node that dev/mesh_peer named while the access was under way.  Tversion,  *)
(* whose tag is always the same, may take the reply to an earlier one.       *)
ReplyIsOwn ==
  pump.at = "deliver" =>
    \A h \in Thread : th[h].at = "wait" /\ th[h].tag = pump.rb.tag =>
      /\ pump.rb.op = th[h].call
      /\ th[h].call # "version" => pump.rb.id = th[h].id
      /\ th[h].call = "use" => pump.rb.peer \in th[h].seen

(* Every request of a host returns, and the pump comes back to its semaphore.  *)
OpsReturn ==
  /\ \A h \in Thread : th[h].at # "idle" ~> th[h].at = "idle"
  /\ pump.at # "wait" ~> pump.at = "wait"

(* An attached session has a conversation with the node that dev/mesh_peer      *)
(* names; while another thread has yet to disconnect, or after that hit the    *)
(* new conversation, it may not.                                             *)
DialsNewPeer ==
  attached /\ ~cut => tp.connected /\ tp.peer = meshPeer

-----------------------------------------------------------------------------
(* The inductive invariant of MeshMount_proofs.                              *)

(* What a connected transport knows: its data fid, if the 9151 knows it too,   *)
(* leads to its conversation, which is with its peer.  A disconnect that has   *)
(* the lock goes on with the conversation it found.                          *)
Bound ==
  /\ tp.connected <=> tp.fid # None
  /\ tp.connected => tp.slot # None /\ tp.peer # None
  /\ tp.connected /\ fidOf[tp.fid] # None => fidOf[tp.fid] = tp.slot /\ conv[tp.slot].peer = tp.peer
  /\ lock # None => tp.connected /\ th[lock].at \in {"redial", "drop"}

(* A pump that works has a fid, one that waits in a conversation one in use.   *)
Pumping ==
  /\ pump.at # "wait" => pump.fid # None
  /\ pump.at = "block" => pump.slot # None /\ conv[pump.slot].ctl # "free"
  /\ pump.want <= calls

(* Who makes the session holds its lock until it is made; a connected session  *)
(* is with the node named.                                                   *)
Making(h) ==
  \/ th[h].at \in {"connect", "redial", "dial"}
  \/ th[h].at \in {"call", "wait"} /\ th[h].call # "use"

HandshakeAlone ==
  \A h \in Thread :
    /\ Making(h) => sess = h /\ ~attached /\ meshPeer # None
    /\ th[h].at = "dial" => ~tp.connected
    /\ Making(h) /\ th[h].at \in {"call", "wait"} =>
         /\ tp.connected => tp.peer = meshPeer
         /\ ~cut => tp.connected

AttachedToNamed == attached /\ tp.connected => tp.peer = meshPeer

(* Every access has seen the name in force, and the transport's peer once it   *)
(* makes its request.                                                        *)
AccessSeesNames ==
  \A h \in Thread :
    /\ th[h].at \in {"connect", "redial", "dial", "call", "wait"} /\ meshPeer # None =>
         meshPeer \in th[h].seen
    /\ th[h].at \in {"call", "wait"} /\ th[h].call = "use" /\ tp.connected =>
         tp.peer \in th[h].seen

(* A call's number, which the tag is but for Tversion, is one request's.      *)
TagOf(op, id) == IF op = "version" THEN 0 ELSE id

Numbered ==
  /\ \A h \in Thread :
       /\ th[h].id <= calls
       /\ th[h].at = "wait" => th[h].id > 0 /\ th[h].tag = TagOf(th[h].call, th[h].id)
  /\ \A g, h \in Thread :
       g # h /\ th[g].at = "wait" /\ th[h].at = "wait" => th[g].id # th[h].id

(* A message with a waiting request's number is that request, or its answer.  *)
Asks(op, tag, id) ==
  /\ 0 < id /\ id <= calls /\ tag = TagOf(op, id)
  /\ \A h \in Thread : th[h].at = "wait" /\ th[h].id = id => th[h].call = op

Answers(d) == Asks(d.op, d.tag, d.id)

AllAnswer(q) == \A i \in 1 .. Len(q) : Answers(q[i])

MessagesMatch ==
  /\ sem = 1 \/ pump.at # "wait" => Asks(txbuf.op, txbuf.tag, txbuf.id)
  /\ pump.at = "deliver" => Answers(pump.rb)
  /\ \A p \in Peer : AllAnswer(air[p])
  /\ \A s \in Slot : AllAnswer(conv[s].q)

(* A conversation's datagrams come from its peer; a free one has none.        *)
AllFrom(q, p) == \A i \in 1 .. Len(q) : p \in Peer /\ q[i].peer = p

QueuePeers ==
  /\ \A p \in Peer : AllFrom(air[p], p)
  /\ \A s \in Slot : AllFrom(conv[s].q, conv[s].peer) /\ (conv[s].ctl = "free" => conv[s].peer = None)

(* The access that waits for the pump's tag has seen the name of the peer that *)
(* the pump talks to, though its fid may have been left behind in a           *)
(* conversation that was given away again.                                   *)
Seen(tag, p) ==
  p # None => \A h \in Thread :
    th[h].at = "wait" /\ th[h].call = "use" /\ th[h].tag = tag => p \in th[h].seen

PumpSees ==
  /\ pump.at \in {"write", "read", "block"} /\ Reaches # None => Seen(pump.want, conv[Reaches].peer)
  /\ pump.at = "block" => Seen(pump.want, conv[pump.slot].peer)
  /\ pump.at = "deliver" =>
       pump.rb.tag = pump.want /\ pump.rb.peer # None /\ Seen(pump.want, pump.rb.peer)

IInv ==
  /\ TypeOK
  /\ OneLeakAFault
  /\ Bound
  /\ Pumping
  /\ HandshakeAlone
  /\ AttachedToNamed
  /\ DialsNewPeer
  /\ AccessSeesNames
  /\ Numbered
  /\ MessagesMatch
  /\ QueuePeers
  /\ PumpSees

=============================================================================

------------------------------- MODULE MeshDrain -------------------------------
(***************************************************************************)
(* Collecting Memfault chunks over the mesh.  A read of dev/mflt_mesh (or   *)
(* dev/mflt_probe) on a gateway opens a 9P session to each neighbour in     *)
(* turn, inside the reading thread, over a conversation of /net/aether      *)
(* (aether_net_drain_peer, aether_net_probe_peer), and reads the            *)
(* neighbour's dev/mflt.  Reading dev/mflt takes the chunks away            *)
(* (gen_mflt), requests are sent again when no reply comes, replies come    *)
(* late, and a peer serves every gateway with one fid table.                *)
(*                                                                         *)
(* The ring before the peer's server and its serialised replies (Mesh9p)    *)
(* are folded into two steps: a request that gets through is served at once *)
(* and in order, its reply comes when it comes, in order too.  Tattach,     *)
(* Twalk and Topen, which succeed or fail together, are one request.        *)
(***************************************************************************)
EXTENDS Naturals, SequencesExt, FiniteSetsExt

CONSTANTS
  Client,    \* threads that read dev/mflt_mesh, 9P servers of the gateways: numbers
  Homes,     \* which of them run on the same gateway: functions from Client
  Peers,     \* number of neighbours, in the order of the table
  Chunks,    \* chunks a peer has to tell
  Batch,     \* chunks that fit one reply
  Cap,       \* chunks that fit the buffer of one read of dev/mflt_mesh
  MaxDrained,\* peers drained in one read: 3
  MaxIter,   \* reads of one session: 16
  Attempts,  \* of m9_rpc: 2
  Reads,     \* of m9_rpc, per attempt: 2
  Modes,     \* the files read: "drain" is dev/mflt_mesh, "probe" dev/mflt_probe
  MaxPasses, \* bound: reads of the clients together
  MaxFaults, \* bound: sends that fail, replies that are lost or late, hangups
  MaxCrowded \* bound: the same once two clients read

ASSUME DrainAssumption ==
  /\ {Peers, Batch, Cap, MaxDrained, MaxIter, Attempts, Reads} \subseteq Nat \ {0}
  /\ {Chunks, MaxPasses, MaxFaults, MaxCrowded} \subseteq Nat
  /\ IsFiniteSet(Client)
  /\ Modes \subseteq {"drain", "probe"}

VARIABLES
  home,    \* the gateway of each client
  cl,      \* each client: where its read stands
  rxq,     \* datagrams queued in each client's conversation
  out,     \* history: the chunks that each client's reads returned
  srv,     \* each peer's mesh server: its fids 0 and 2 are in use
  next,    \* each peer's next chunk: the packetizer
  air,     \* replies on their way from each peer
  faults,  \* history: what the mesh did wrong
  excuse,  \* history: reasons for losing a batch, the faults among them
  crossed  \* history: two clients of one gateway were connected to one peer

vars == <<home, cl, rxq, out, srv, next, air, faults, excuse, crossed>>
history == <<faults, excuse, crossed>>

Peer == 1 .. Peers
Op == {"version", "open", "read"}

(* Tags start at 1 in every session; Tversion has NOTAG, here 0.              *)
Msg == [op : Op \cup {"eof"}, tag : Nat, ok : BOOLEAN, from : Nat, n : Nat]
Eof == [op |-> "eof", tag |-> 0, ok |-> FALSE, from |-> 0, n |-> 0]

Idle == [at |-> "idle", mode |-> "drain", peer |-> 0, drained |-> 0, room |-> 0, step |-> "version",
         tag |-> 0, try |-> 0, reads |-> 0, iter |-> 0, got |-> 0, pass |-> 0]

ClientState ==
  [at : {"idle", "next", "send", "wait"}, mode : {"drain", "probe"}, peer : 0 .. Peers,
   drained : 0 .. MaxDrained, room : 0 .. Cap, step : Op, tag : Nat, try : 0 .. Attempts - 1,
   reads : 0 .. Reads - 1, iter : 0 .. MaxIter - 1, got : Nat, pass : Nat]

Crowded == \A c \in Client : cl[c].pass > 0

MayFail ==
  faults < IF Crowded THEN MaxCrowded ELSE MaxFaults

Connected(c) == cl[c].at \in {"send", "wait"}

-----------------------------------------------------------------------------
(* The peer                                                                  *)

(* A wrong Consume: a chunk leaves the packetizer when the next read asks.    *)
BugConsume(p, n) == IF n > 1 THEN next[p] + n - 1 ELSE next[p] + n

(* Another: the chunk is taken before it is seen not to fit.                 *)
BugTakeFirst(p, n) == IF next[p] + n < Chunks THEN next[p] + n + 1 ELSE next[p] + n

Consume(p, n) == next[p] + n

(* gen_mflt: as many of the pending chunks as fit, and they are gone.         *)
Served(p) ==
  LET n == IF Chunks - next[p] < Batch THEN Chunks - next[p] ELSE Batch
  IN  <<next[p], n, [next EXCEPT ![p] = Consume(p, n)]>>

Answer(op, tag, ok, from, n) == [op |-> op, tag |-> tag, ok |-> ok, from |-> from, n |-> n]

(* The server's fid table: a fid in use cannot be attached or walked to,      *)
(* Tversion drops them all.                                                  *)
Serve(p, c) ==
  LET op == cl[c].step
      ok == op = "version" \/ srv[p] = (op = "read")
      b == IF ok /\ op = "read" THEN Served(p) ELSE <<0, 0, next>>
  IN  /\ srv' = [srv EXCEPT ![p] = op = "open" \/ (op = "read" /\ @)]
      /\ next' = b[3]
      /\ air' = [air EXCEPT ![p] = Append(@, [to |-> home[c],
                                    msg |-> Answer(op, cl[c].tag, ok, b[1], b[2])])]

-----------------------------------------------------------------------------
(* A read of dev/mflt_mesh                                                   *)

(* The clients are interchangeable: they start in their order.               *)
MeshRead(c, mode) ==
  /\ cl[c].at = "idle"
  /\ MapThenSumSet(LAMBDA d : cl[d].pass, Client) < MaxPasses
  /\ cl[c].pass > 0 \/ \A d \in Client : d < c => cl[d].pass > 0
  /\ faults <= MaxCrowded \/ cl[c].pass > 0
  /\ cl' = [cl EXCEPT ![c] = [Idle EXCEPT !.at = "next", !.mode = mode, !.room = Cap,
                                          !.pass = cl[c].pass + 1]]
  /\ UNCHANGED <<home, rxq, out, srv, next, air, history>>

(* The neighbours are done, enough of them are drained, the buffer is full,   *)
(* or the ten seconds are over.                                              *)
MeshReturn(c) ==
  /\ cl[c].at = "next"
  /\ \/ cl[c].peer = Peers
     \/ cl[c].drained = MaxDrained
     \/ cl[c].room = 0
     \/ cl[c].mode = "drain" /\ cl[c].peer > 0
  /\ cl' = [cl EXCEPT ![c] = [Idle EXCEPT !.pass = cl[c].pass]]
  /\ UNCHANGED <<home, rxq, out, srv, next, air, history>>

(* The next neighbour: inactive, without an identity, or no slot is free for  *)
(* its conversation; else aether_net_drain_peer starts.                      *)
NextPeer(c) ==
  /\ cl[c].at = "next"
  /\ cl[c].peer < Peers /\ cl[c].drained < MaxDrained /\ cl[c].room > 0
  /\ LET p == cl[c].peer + 1 IN
     \/ /\ cl' = [cl EXCEPT ![c].peer = p]
        /\ UNCHANGED <<rxq, crossed>>
     \/ /\ cl' = [cl EXCEPT ![c].at = "send", ![c].peer = p]
        /\ rxq' = [rxq EXCEPT ![c] = <<>>]
        /\ crossed' = (crossed \/ \E d \in Client \ {c} :
                         home[d] = home[c] /\ Connected(d) /\ cl[d].peer = p)
  /\ UNCHANGED <<home, out, srv, next, air, faults, excuse>>

-----------------------------------------------------------------------------
(* m9_rpc                                                                    *)

(* The session is over: conv_free; a peer that gave something counts.         *)
Done(c, got) ==
  LET k == cl[c] IN
  [Idle EXCEPT !.at = "next", !.mode = k.mode, !.peer = k.peer, !.pass = k.pass, !.room = k.room,
               !.drained = IF k.mode = "probe" \/ got > 0 THEN k.drained + 1 ELSE k.drained]

(* A wrong Again: one attempt too many.                                      *)
BugAgain(c) ==
  IF cl[c].try = Attempts THEN Done(c, cl[c].got)
  ELSE [cl[c] EXCEPT !.at = "send", !.try = @ + 1, !.reads = 0]

Again(c) ==
  IF cl[c].try + 1 = Attempts THEN Done(c, cl[c].got)
  ELSE [cl[c] EXCEPT !.at = "send", !.try = @ + 1, !.reads = 0]

(* aether_mesh_send_reliable: it got through and was acknowledged, or got     *)
(* through without anybody knowing, or did not.                              *)
Send(c) ==
  /\ cl[c].at = "send"
  /\ \/ /\ Serve(cl[c].peer, c)
        /\ cl' = [cl EXCEPT ![c].at = "wait"]
        /\ UNCHANGED <<faults, excuse>>
     \/ /\ MayFail
        /\ Serve(cl[c].peer, c) \/ UNCHANGED <<srv, next, air>>
        /\ cl' = [cl EXCEPT ![c] = Again(c)]
        /\ faults' = faults + 1
        /\ excuse' = excuse + 1
  /\ UNCHANGED <<home, rxq, out, crossed>>

Pending(c) ==
  \E i \in 1 .. Len(air[cl[c].peer]) : air[cl[c].peer][i].to = home[c]

(* 1.5 s are over and nothing came; a reply that still comes is late.         *)
Timeout(c) ==
  /\ cl[c].at = "wait"
  /\ rxq[c] = <<>>
  /\ LET late == IF Pending(c) THEN 1 ELSE 0 IN
       /\ late = 0 \/ MayFail
       /\ faults' = faults + late
       /\ excuse' = excuse + late
  /\ cl' = [cl EXCEPT ![c] = Again(c)]
  /\ UNCHANGED <<home, rxq, out, srv, next, air, crossed>>

After(step) == IF step = "version" THEN "open" ELSE "read"

(* Chunks that are copied: what still fits; a probe copies none.              *)
Kept(c, m) ==
  IF cl[c].mode = "probe" THEN 0 ELSE IF m.n < cl[c].room THEN m.n ELSE cl[c].room

(* A reply with the tag is the answer.  A session goes on to its next step,   *)
(* reads until a batch is empty or the buffer is full, and ends on anything   *)
(* it did not ask for.                                                       *)
Accept(c, m) ==
  LET kept == IF m.ok /\ m.op = "read" /\ cl[c].step = "read" THEN Kept(c, m) ELSE 0
      got == cl[c].got + kept
      room == cl[c].room - kept
      more == [cl[c] EXCEPT !.at = "send", !.step = After(@), !.tag = @ + 1, !.try = 0,
                            !.reads = 0, !.room = room, !.got = got,
                            !.iter = IF cl[c].step = "read" THEN @ + 1 ELSE @]
      end == \/ ~m.ok \/ m.op # cl[c].step
             \/ /\ cl[c].step = "read"
                /\ \/ kept = 0
                   \/ cl[c].iter + 1 = MaxIter
                   \/ room = 0
  IN  /\ cl' = [cl EXCEPT ![c] = IF end THEN [Done(c, got) EXCEPT !.room = room] ELSE more]
      /\ out' = [out EXCEPT ![c] = @ \o [i \in 1 .. kept |-> <<cl[c].peer, m.from + i - 1>>]]
      /\ excuse' = IF m.op = "read" /\ m.n > kept THEN excuse + 1 ELSE excuse

(* Any other reply is discarded, and costs one of the attempt's reads; with    *)
(* the last the attempt is given up, its own reply still to come.             *)
Discard(c) ==
  /\ cl' = [cl EXCEPT ![c] = IF cl[c].reads + 1 = Reads THEN Again(c)
                             ELSE [cl[c] EXCEPT !.reads = @ + 1]]
  /\ excuse' = IF cl[c].reads + 1 = Reads THEN excuse + 1 ELSE excuse
  /\ UNCHANGED out

Take(c) ==
  /\ cl[c].at = "wait"
  /\ rxq[c] # <<>>
  /\ rxq' = [rxq EXCEPT ![c] = Tail(@)]
  /\ LET m == Head(rxq[c]) IN
       CASE m.op = "eof" -> /\ cl' = [cl EXCEPT ![c] = Done(c, cl[c].got)]
                            /\ UNCHANGED <<out, excuse>>
         [] m.op # "eof" /\ m.tag = cl[c].tag -> Accept(c, m)
         [] OTHER -> Discard(c)
  /\ UNCHANGED <<home, srv, next, air, faults, crossed>>

-----------------------------------------------------------------------------
(* The mesh                                                                  *)

(* A reply reaches every conversation of its gateway that is connected to     *)
(* the peer (aether_recv_cb), or none.                                       *)
Arrive(p) ==
  /\ air[p] # <<>>
  /\ air' = [air EXCEPT ![p] = Tail(@)]
  /\ rxq' = [c \in Client |->
              IF Connected(c) /\ cl[c].peer = p /\ home[c] = Head(air[p]).to
              THEN Append(rxq[c], Head(air[p]).msg) ELSE rxq[c]]
  /\ UNCHANGED <<home, cl, out, srv, next, history>>

Lose(p) ==
  /\ air[p] # <<>>
  /\ MayFail
  /\ air' = [air EXCEPT ![p] = Tail(@)]
  /\ faults' = faults + 1
  /\ excuse' = excuse + 1
  /\ UNCHANGED <<home, cl, rxq, out, srv, next, crossed>>

(* A stale ctl fid hangs the client's slot up: the queue is purged, an end of *)
(* file put.                                                                 *)
Hangup(c) ==
  /\ Connected(c)
  /\ MayFail
  /\ rxq' = [rxq EXCEPT ![c] = <<Eof>>]
  /\ faults' = faults + 1
  /\ excuse' = excuse + 1
  /\ UNCHANGED <<home, cl, out, srv, next, air, crossed>>

-----------------------------------------------------------------------------

Init ==
  /\ home \in Homes
  /\ cl = [c \in Client |-> Idle]
  /\ rxq = [c \in Client |-> <<>>]
  /\ out = [c \in Client |-> <<>>]
  /\ srv = [p \in Peer |-> FALSE]
  /\ next = [p \in Peer |-> 0]
  /\ air = [p \in Peer |-> <<>>]
  /\ faults = 0
  /\ excuse = 0
  /\ crossed = FALSE

Progress(c) == MeshReturn(c) \/ NextPeer(c) \/ Send(c) \/ Timeout(c) \/ Take(c)

Next ==
  \/ \E c \in Client :
       \/ \E mode \in Modes : MeshRead(c, mode)
       \/ Progress(c)
       \/ Hangup(c)
  \/ \E p \in Peer : Arrive(p) \/ Lose(p)

Spec == Init /\ [][Next]_vars

-----------------------------------------------------------------------------
(* Properties                                                                *)

TypeOK ==
  /\ home \in Homes
  /\ cl \in [Client -> ClientState]
  /\ rxq \in [Client -> Seq(Msg)]
  /\ out \in [Client -> Seq(Peer \X Nat)]
  /\ srv \in [Peer -> BOOLEAN]
  /\ next \in [Peer -> 0 .. Chunks]
  /\ air \in [Peer -> Seq([to : {home[c] : c \in Client}, msg : Msg])]
  /\ faults \in Nat /\ excuse \in Nat /\ crossed \in BOOLEAN

In(m) == IF m.op = "read" THEN m.from .. m.from + m.n - 1 ELSE {}

(* The chunks of the batches that wait in conversations or are on their way.   *)
Carries(p, x) ==
  \/ \E c \in Client : Connected(c) /\ cl[c].peer = p
       /\ \E i \in 1 .. Len(rxq[c]) : x \in In(rxq[c][i])
  \/ \E i \in 1 .. Len(air[p]) : x \in In(air[p][i].msg)

Told(p, x) == \E c \in Client : \E i \in 1 .. Len(out[c]) : out[c][i] = <<p, x>>

(* The chunks that a peer gave away and that will not be told any more.       *)
Lost ==
  {w \in Peer \X (0 .. Chunks) :
     w[2] < next[w[1]] /\ ~Told(w[1], w[2]) /\ ~Carries(w[1], w[2])}

(* No chunk is told twice, and each client tells a peer's in their order,     *)
(* whatever is sent again: the discarding of stale replies, and the reading   *)
(* that consumes, together.  Two reads at once on one gateway are excepted:   *)
(* their conversations are connected to one peer and both hear its replies.   *)
ToldOnceInOrder ==
  ~crossed =>
    /\ \A c \in Client : \A i, j \in 1 .. Len(out[c]) :
         i < j /\ out[c][i][1] = out[c][j][1] => out[c][i][2] < out[c][j][2]
    /\ \A c, d \in Client : c # d => ToSet(out[c]) \cap ToSet(out[d]) = {}

(* A chunk that a peer gave away and nobody told is owed to something that     *)
(* went wrong: an unanswered, late or lost message, a hangup, a buffer that   *)
(* was too small, a probe, an attempt all of whose reads met stale replies;   *)
(* each costs one batch at most, whatever the retries repeat.                *)
LossIsExcused == ~crossed => Cardinality(Lost) <= Batch * excuse

-----------------------------------------------------------------------------
(* The inductive invariant                                                   *)

(* A session is made while there is a neighbour to drain and room for it.     *)
InSession ==
  \A c \in Client : Connected(c) =>
    cl[c].peer > 0 /\ cl[c].drained < MaxDrained /\ cl[c].room > 0

(* A reply that has a batch of chunks, and the chunks of one before those of   *)
(* the other.                                                                *)
Brings(m) == m.op = "read" /\ m.ok

Before(m, w) == Brings(m) /\ Brings(w) => m.from + m.n <= w.from

(* What a peer gave away is on its way in the order in which it was given.    *)
AirInOrder ==
  \A p \in Peer : \A i \in 1 .. Len(air[p]) :
    /\ Brings(air[p][i].msg) => air[p][i].msg.from + air[p][i].msg.n <= next[p]
    /\ \A j \in 1 .. Len(air[p]) : i < j => Before(air[p][i].msg, air[p][j].msg)

(* What a connected client has queued came before it.                        *)
QueueInOrder ==
  \A c \in Client : Connected(c) =>
    \A i \in 1 .. Len(rxq[c]) :
      /\ Brings(rxq[c][i]) => rxq[c][i].from + rxq[c][i].n <= next[cl[c].peer]
      /\ \A j \in 1 .. Len(rxq[c]) : i < j => Before(rxq[c][i], rxq[c][j])
      /\ \A j \in 1 .. Len(air[cl[c].peer]) : Before(rxq[c][i], air[cl[c].peer][j].msg)

(* Two clients connected to one peer are of different gateways, and no reply  *)
(* is queued for both.                                                       *)
QueuesApart ==
  \A c, d \in Client :
    c # d /\ Connected(c) /\ Connected(d) /\ cl[c].peer = cl[d].peer =>
      /\ home[c] # home[d]
      /\ \A i \in 1 .. Len(rxq[c]), j \in 1 .. Len(rxq[d]) :
           Before(rxq[c][i], rxq[d][j]) \/ Before(rxq[d][j], rxq[c][i])

(* Chunk x of peer p, which client c told: none that is still under way has   *)
(* it, and what comes to c comes after it.                                   *)
ToldBefore(c, p, x) ==
  /\ x < next[p]
  /\ \A j \in 1 .. Len(air[p]) : Brings(air[p][j].msg) => x < air[p][j].msg.from
  /\ \A d \in Client : Connected(d) /\ cl[d].peer = p =>
       \A j \in 1 .. Len(rxq[d]) : Brings(rxq[d][j]) =>
         \/ x < rxq[d][j].from
         \/ d # c /\ rxq[d][j].from + rxq[d][j].n <= x

OutIsOver ==
  \A c \in Client : \A i \in 1 .. Len(out[c]) : ToldBefore(c, out[c][i][1], out[c][i][2])

(* No reply has more than a batch.                                           *)
AtMostBatch(m) == m.n <= Batch

Batches ==
  /\ \A c \in Client : \A i \in 1 .. Len(rxq[c]) : AtMostBatch(rxq[c][i])
  /\ \A p \in Peer : \A i \in 1 .. Len(air[p]) : AtMostBatch(air[p][i].msg)

(* The places of n[k] things for each k.                                     *)
Spots(n) == UNION {{k} \X (1 .. n[k]) : k \in DOMAIN n}

(* The messages that wait in a conversation or are on their way.              *)
InQueues == Spots([c \in Client |-> IF Connected(c) THEN Len(rxq[c]) ELSE 0])
InAir == Spots([p \in Peer |-> Len(air[p])])

(* A client that waits for a reply and will get one, or an end of file.       *)
Awaited(c) ==
  /\ cl[c].at = "wait"
  /\ \/ \E i \in 1 .. Len(rxq[c]) : rxq[c][i].op = "eof" \/ rxq[c][i].tag = cl[c].tag
     \/ \E i \in 1 .. Len(air[cl[c].peer]) :
          LET a == air[cl[c].peer][i] IN a.to = home[c] /\ a.msg.tag = cl[c].tag

Awaiting == {c \in Client : Awaited(c)}

(* A message under way may come to nothing, and a batch with it; it is paid    *)
(* for by who waits for it, and else by an excuse.                            *)
Budget ==
  ~crossed => Cardinality(Lost) + Batch * (Cardinality(InQueues) + Cardinality(InAir))
                <= Batch * (excuse + Cardinality(Awaiting))

IInv ==
  /\ TypeOK /\ InSession /\ AirInOrder
  /\ ~crossed => QueueInOrder /\ QueuesApart /\ OutIsOver
  /\ ToldOnceInOrder

=============================================================================

# dectmesh: TLA+ models and proofs

The repository is the firmware of a DECT NR+ mesh node (an nRF9151, `src/dect_mesh`), the
firmware of the relay that sits beside it on the gateway board and speaks USB and BLE
(`src/dect_relay`), and the host tools (`src/tools`). Every interface between them is 9P: the
node serves a file tree, the relay re-exports it to hosts, and nodes reach each other's trees
through datagrams of the mesh. This directory models the parts in which several threads, several
clients or an unreliable link meet, checks them with TLC and proves the main invariants of several
of them with TLAPS.

Abbreviations for sources below: *net* = `dect_mesh/src/aether_net.c`, *m9p* =
`dect_mesh/src/aether_9p_mesh.c`, *9p* = `dect_mesh/src/aether_9p.c`, *relay* =
`dect_relay/src/main.c`, *transport* = `dect_relay/src/aether_conv_transport.c`, *conv* =
`tools/aether_conv.c`, *forwarder* = `tools/aether_forwarder.c`.

## 1. Inventory

| Component | State | Operations | Talks to | Hard behaviour | What makes it correct |
|---|---|---|---|---|---|
| Conversation service `/net/aether` (*net*) | 4 slots (in_use, state, peer, message queue), counters, the tree nodes that name slots | walk `clone`, ctl `connect`/`announce`/`hangup`, blocking `data` read, `data` write, clunk, Tversion, mesh receive | two 9P servers and their workers, the mesh RX thread, in-process clients | reads block outside the lock; a fid names a slot, not an allocation; hangup, free and reuse race with reads and receives | a reader gets only what its binding admits; no reader stays blocked after a hangup; a broadcast reaches all listeners |
| 9P server over the mesh (*m9p*) | ring of 8 requests with head, tail and an atomic count; `cur_peer`; `mesh9p_serving` | acknowledgement gate, receive, work item, send, forget | mesh RX thread, a work queue, the 9P server library, its worker threads | slot filled outside the lock, counted later; worker replies arrive late | each acknowledged request is served once, in order, and answered to its sender |
| 9P client over the mesh (*net*: push, drain, probe) | `g_push` (session, offset, tag), the conversation it uses | open, write, close, control write, drain of `dev/mflt`, probe | the peer's mesh server | lost or late replies, lost acknowledgements, retries at three levels; reading telemetry consumes it | no hole or shift in the image; a partial image is never finalised; no chunk of telemetry is told twice, none is lost without a cause |
| Node's `dev` files (*9p*) | chat log, DFU state, staged flag, `push` offset | firmware write, confirm, reboot, push, push_ctl, chat, mflt, status texts | DFU library, MCUboot, the mesh | one status callback serves two transports | the mesh is given back when a wired update ends |
| Mesh OTA host tool (*conv*, `mesh_ota.sh`) | bytes sent, resume point, pass | target, stream, stall and resume, commit, reboot, confirm | the gateway's `dev/push*` | retries on a stall, another session than before | always ends; never commits with a hole |
| Relay's link to its 9151 (*relay*) | `mesh_attached`, `mesh_versioned`, root fid, two mutexes, firmware stream, armed auto-update | lazy attach, self-heal, link monitor, proxied files, auto-confirm, host disconnect | the node's UART 9P server, several host sessions | the node reboots under open fids; one session's reset aborts all sessions | operations heal; conversations survive a re-attach; a good image gets confirmed |
| Host conversation tool (*conv*: send, receive, bridge, probe, demo) | socket, fids, `g_stop`, a stash of one reply | fifteen modes: clone, ctl, data, clunk | the relay's or the node's 9P session, which outlives the tool | a failure or a signal at any call; pipelined requests; several blocked reads | what it cloned is freed; it reads and writes its own conversation; a signal ends it |
| Relay's `/net/mesh` (*relay* 648-742, *transport*) | `g_mesh_peer`, `mesh9p_attached`, lock; connection, its fids, one T buffer, semaphore, pump thread | root access, drop, re-target; connect, send, pump, disconnect | the node's conversations, another node's server | retransmission from a shared buffer; the disconnect comes after the unlock | a reply answers its own request; the session is with the named node; a fault costs one conversation at most; requests return |
| UART framing, console bridge (*relay*) | receive frame, processing flag, work item; ring buffers | interrupt, frame, reset | the 9P client library | reset while a frame is processed | a frame is delivered whole or not at all |
| BLE, 9P exports (*relay*) | advertising flag | advertise, connect, disconnect | 9p4z library | none of its own | - |
| Memfault forwarder (*forwarder*) | serial port, one buffer, `g_stop`, table of devices (log only) | open, attach, read three files, parse, post, reconnect | the gateway's 9P server and its `dev/mflt*`, HTTP | late replies on an untagged stream; ports that drop; reads that consume | each chunk is posted once, under its own serial; nothing but a named fault loses one; what fails is retried |
| Node start-up, hello and shell (`dect_mesh/src/main.c`), LED (`aether_led.c`) | hello timer, LED state | start the mesh, send hellos | mesh library | - | - |
| Identity (`cga.c`), metrics (`dect_metrics.c`) | key pair; sampled counters | generate, sign; sample | settings, Memfault | - | - |
| Chat client, test and proof tools, scripts | user interface, sequential drivers | - | `/net/aether` | - | - |

The mesh itself (routing, ARQ, de-duplication), the 9P server and client library and the DFU
library are outside the repository. They are modelled only as the code here uses them.

The hazards that follow from this inventory are listed, each at its source line and with the
property that covers it, in `PROJECT.json`; those of components not modelled yet carry a note.

## 2. Modules

| Module | Models | Proofs |
|---|---|---|
| `AetherNet` (`MCAetherNet`) | the conversation service | `AetherNet_proofs` |
| `Mesh9pQueue` | what the mesh server promises: a FIFO served once, answered to the sender | |
| `Mesh9p` (`MCMesh9p`) | the ring that implements it, `cur_peer`, the `serving` flag and `dfu_status` | `Mesh9p_proofs` |
| `MeshOta` | host tool, gateway push client, lossy mesh and the peer's server, end to end | `MeshOta_proofs` |
| `RelayLink` (`MCRelayLink`) | the relay's session with its node | `RelayLink_proofs` |
| `MeshMount` | the relay's `/net/mesh`: nested session, transport, pump, the node's conversations, the peers | `MeshMount_proofs` |
| `MeshDrain` (`MCMeshDrain`) | telemetry drained and probed over the mesh, from the read of `dev/mflt_mesh` to the peer's packetizer | `MeshDrain_proofs` |
| `Forwarder` (`MCForwarder`) | the Memfault forwarder and the gateway's 9P server as it sees it | |
| `UartLink` | the UART from the node to the relay: interrupt, frame, work item and reset, under the session | `UartLink_proofs` |
| `HostTools` | the modes of the host tool that hold a conversation, and the node's pool | `HostTools_proofs` |

`MeshOta` composes: the peer's ring is an instance of `Mesh9pQueue`, the specification `Mesh9p` is
shown to implement. `Mesh9p` states its refinement as `QueueSpec`, with the queue read off the ring
(`Queued`: the counted slots from the head on, less the one being counted off, and then the request
the receive thread holds).

The modules cut the system at its 9P interfaces. `HostTools` has the conversation service as a
sequential server (its concurrency is `AetherNet`), `Forwarder` has `dev/mflt_mesh` as a file that may
give any part of what its neighbours hold (how is `MeshDrain`), `MeshMount` has the carrier's calls work
or fail (why is `RelayLink`), and `MeshDrain` has the peer's server answer in order (that it does is
`Mesh9p`).

Operators named `Bug...` are wrong variants of the definition that follows them, used to confirm
that a property fails when the code does.

### AetherNet

Each slot has `inUse`, `state`, `peer` and `rxq`. A fid has a `node` (ctl or data) and a slot. What
runs under `g_fs.lock` is one action: `Recv` (`aether_recv_cb`), `Connect`, `ConnectBroadcast`,
`Announce`, `Hangup` (`ctl_exec`), `WalkClone` and `WalkConv` (the walk and create hooks), `Clunk`
(`anet_clunk`). A data read is three steps outside the lock, as in `anet_read`: `ReadCall` finds
the conversation, `ReadGet` is the `k_msgq_get`, which takes or parks, `ReadReturn` builds the reply from
the state as it is *then*. A hangup or a free may come between the first two; such a read must find the
sentinel. There is a single one, so a read is marked `beaten` when another call takes it first or
`k_msgq_init` drops it. An in-process session allocates under the lock (`ProcAlloc`), binds outside it (`ProcBind`),
receives (`ProcGet`) and frees (`ProcFree`). `ConvAlloc` re-initialises the queue, so a reader that
is parked on a freed slot is lost (`rpc = "lost"`). `ConvFree` and `Hangup` share `PurgeWithEof`.
The mesh's binding table from identities to routes belongs to the mesh library and changes at any
time: each call that looks something up chooses a table. `raw`, `how` and `since` are history.

`DeliveryIsolation` excepts the slots an in-process session points at (`Unheld`): it binds outside the lock
(*net* 1154), and a stale ctl fid may act on the slot in between.

Not modelled: data writes (they change no state of the service but counters; `HostTools` has them by
their result), the `prove` file and status texts.

### Mesh9p

`Arrive` is the acknowledgement gate (`mesh9p_ack_gate`), `Claim`, `Fill`, `CountUp`, `Submit` are
`mesh9p_recv_cb` in the order in which it touches the fields: index under the lock, copy outside it,
counter, work item. `Wake`, `Check`, `Serve`, `Advance`, `Uncount` are `mesh9p_work_fn`. A data read
goes to a worker if one is free (`Workers`, 4 in `prj.conf`), whose reply leaves later through `cur_peer`
(`WorkerReply`). `WiredErase`,
`WiredReceive`, `WiredEnd` are the DFU callbacks on the UART server's thread (`dfu_status`). Request
numbers, modulo `Ids`, only serve to tell requests apart.

### MeshOta

One host write is one chunk and one Twrite. `Host...` actions are `do_mesh_ota` with its attempts,
its backing up and its passes; `Gw...` and `Send...` are `aether_net_push_*` and `m9_rpc`, a stage
for each request. An acknowledged send is `SendAcked`, one delivered but not acknowledged
`SendUnacked`, one lost or refused by a full ring `SendLost`; `GwTake` and `GwTimeout` end the
wait for a reply. `PeerServe` is the peer's server with one fid table for all clients, `Flash` the DFU
library's write by offset, `PeerReboot` the reset. Whether the fid that a Tversion drops finalizes the update
(`ResetFinalizes`) is a matter of a library outside the repository, of which two texts here say opposite
things (below): the run takes `doc/OTA.md`'s word, FALSE, and `MeshOta_reset.cfg` the other. `OtherSession` is another client of the same
peer, such as a drain by another node. Timeouts of a reply that is only late, lost frames, lost
acknowledgements and lost replies are possible when `Lossy`, other clients when `Shared`; `Mixed` allows
both in one behaviour (the run has either, `MayLose` and `MayCrowd`).

### RelayLink

Threads are the link monitor, one host that uploads an image through `dev/fw9151`, and hosts that
use the one-shot files. A step is a 9P client call; other threads run between the calls; `mesh_sess`
and `mesh_wr` are held as in the code. A write of the host is up to `Batch` sub-writes, each a call of its own
(`SubWrite`); `fwd` counts those of the present write (`done`). The loop may end early with a short sub-write,
whose progress is reported. A sub-write may be refused or time out on a fid the node knows (fault "write"),
carried out or not; `StreamFails` then closes the stream, and that clunk may fail too. `Ensure`, `Reattach`, `Version`, `Attach` are
`mesh_ensure_attached`; `Walk`, `Open`, `Drop` are `fw9151_open_remote`; `TakeWr`, `WriteBody`,
`ClunkBody` are the stream; `ReadBody`, `ConfirmBody`, `RebootBody`, `ConvBody` the other files;
`MonPoll`, `MonReturn` the monitor with the automatic confirm; `HostGone`, `HostForgotten` the two
halves of `mesh_host_disconnected`; `NodeCrash`, `NodeBoot` the node, which swaps a requested whole
image in and reverts an unconfirmed one. `live` is the set of the relay's fids the node's server
knows. A call succeeds if the node is up, knows the fid and the call was not aborted; an aborted call
may have been carried out.

Not modelled: the push proxies (`dev/push*` through the relay), the `fw9151auto` switch (taken as on), the `link9151` status text, BLE, bytes
lost on the UART, images of more than one version, the fids each re-Tattach leaves behind.

### UartLink

A step of `Isr` takes one unit from the line: the seven bytes of a header, or a stretch of what follows.
`Stored` and `Receive` are its inner loop: a header gives the length (`Lengths`); bytes read as a header that are
none give any length or a resync, which may leave a few bytes over (`TooShort`); a whole frame is
`Collect`ed for the work item. Dropping while `processing` also stands for the `break` after a whole frame,
since nobody else runs before the rest of that chunk is read. The work item is `Take`, `Copy` (unit by
unit, so that an interrupt or a reset may come between), one `Clear` per store and `Deliver`, in the order of
`After`; work submitted while the handler runs is `queued` again. `Begin`, `Returns`, `Down` are
`mesh_ensure_attached` and `mesh_remote_down`, with `MeshRxReset` before the handshake. `excused` is history: since the
last reset of a quiet line there was a restart, or two replies were on the line at a time. While it is
false `flight` and `lost` record what became of the replies.

Not modelled: the order in which a compiler may put plain stores, an overrun of the UART's own FIFO,
`mesh_host_disconnected` (in `RelayLink`), replies of different lengths, the console bridge.

### MeshMount

A thread that serves a host's request goes through `Access` (the root function of `/net/mesh`, up to
its connect), `Connect` (the check for the same peer), the disconnect of the conversation with another
peer, `Dial` (clone, number, data file, ctl: one step, since nobody else knows these fids), then the
calls of the nested client, `Send` and either the pump's reply or `Timeout`. The lock `sess` is held from
`Access` to the end of the handshake (`Release`). `SetPeer` is the write of `dev/mesh_peer`, an empty one
included, and `Down` what a request that finds the session gone does; both give the lock up *before* the
disconnect. A disconnect is two calls under the transport's `lock`, `ClunkData` and `ClunkCtl`, and
`Forget`.

Any call of the carrier may fail. The transport ignores the results of its clunks and forgets the fids
(*transport* 127-133, 193-194), and a walk of `clone` whose reply is lost leaves nothing to clunk (154). A
conversation of the node is therefore `free`, `held` by a ctl fid, or its fid is `gone`; what a failed call or
a failed dial left taken stays so. `FidsDropped` is a Tversion of the carrier for another session, which drops
every fid and no conversation, `NodeReboots` a fresh node. The transport notices neither: `connect` to the same
peer answers "already connected" over fids that are dead, and `/net/mesh` fails until 9p4z calls the down
function or `dev/mesh_peer` is written again.

The pump is `PumpTake`, `PumpWrite`, `PumpRead`, `PumpGot`, `PumpDeliver`: it copies the fid, not the
conversation or the buffer, so a fid that was clunked and given out again and a buffer that was overwritten
are what it finds. A read of a conversation that is freed under it returns nothing. `Expire` is the carrier's
five-minute read deadline, or an abort: the node's worker stays with the read and takes the next datagram.
`cut` is history: a disconnect that came after a new session had begun. `faults` counts what went wrong.

### MeshDrain

A client is a thread that reads `dev/mflt_mesh` or `dev/mflt_probe`: `MeshRead`, `NextPeer`,
`MeshReturn` are the loop over the neighbours (`gen_mflt_mesh`, `gen_mflt_probe`), `Send`, `Timeout`,
`Take` are `m9_rpc` with its attempts and its reads, `Accept` what `aether_net_drain_peer` and
`aether_net_probe_peer` do with a reply. `Serve` is the peer's server with one fid table for
everybody; `Served` is `gen_mflt`, which consumes. `Arrive` hands a reply to every conversation of the
gateway that is connected to its sender, as `aether_recv_cb` does. A `Hangup` is a stale ctl fid's.
`excuse` counts what may cost a batch: a send or a reply that fails, a reply that comes too late, a hangup,
a batch that is cut where the buffer ends or not copied (a probe), and an attempt whose reads are all used up by
stale replies, which `m9_rpc` gives up while its own reply is still to come.

### Forwarder

`Send`, `Receive`, `Late` and `Torn` are `rpc_to`: a reply is taken whatever request it answers, one
that is not there in time stays behind, one that is cut leaves bytes that make no size. `Result` is
what each call's outcome leads to in `do_...`, `read_file`, `read_drain` and `cycle`; `Open`, `Wake`,
`Leave` are `main`; `Forward` handles one token of the text (`forward_stream`). The gateway's `Serve`
answers in order, with a fid table; `ServeRead` is the relay's three read functions. The buffer
keeps what an earlier file left, as the static buffer does.

Not modelled: the table of devices (it feeds the log), the log, the unreferenced mesh tunnel
(*forwarder* 353-497 and 608-628), and `w == -3` after `w < 0` (318-320, never reached).

### HostTools

A mode of the tool is a script (`Script`): its calls in order, each with where its failure leads,
`return` at once, through the clunks, to the end of the loop, or on. The interpreter is `rpc`,
`send_only`, `recv_one`, `recv_tag` and `on_term`: `Send`, `Block`, `TakeReply`, `TakeTagged`,
`TakeStash`, `Signal`. A signal before the blocking call is only noted (`g_stop`), one inside it fails
the call with EINTR while its reply may still come. `Start` begins a new tool in the same 9P session,
which drops the old one's fids (Tversion) and none of its conversations. The node is the pool of
conversations, the session's fids and, for each conversation, its workers' reads in the order in which
they began to wait (`parked`). A datagram wakes the first, the clunk of the ctl fid all of them, and
those that go on at once answer in any order (`Orders`); so does the clunk itself.

Not modelled: `--put` (walk, open and writes of one file, no conversation).

## 3. What is checked

Distinct states are given so that a change in a model's size is noticed.

| Run | Shows | Bounds | States |
|---|---|---|---|
| `net_slot` | `TypeOK`, `DeliveryIsolation`, `HangupWakesReaders`, `ReuseStrandsNoLiveRead` | 1 slot, queue of 2, 3 fids in 2 sessions, 2 readers, 1 in-process session, empty and full payloads, 2 datagrams | 1.19 M |
| `net_pool` | `FanOutUniform` | 2 slots, queue of 1, 2 fids, 1 reader, 1 in-process session, 1 datagram | 2.16 M |
| `mesh9p_ring` | `TypeOK`, `NothingLeftBehind`, `QueueSpec` | ring of 2, 2 peers, both kinds of request, 1 worker | 963 k |
| `mesh9p_reply` | `ReplyToRequester` is violated | as `mesh9p_ring` | - |
| `ota_push` | `TypeOK`, `ImageIsPrefix`, `UpgradeIsWhole`, `AloneWritesLand`, `AnsweredCommitStages`, `HostEnds` | 3 chunks, ring of 3, 2 replies, back up by 1, 3 passes, 2 attempts each; lossy, or shared with another client | 1.52 M |
| `relay_heal` | `TypeOK`, `OpHeals`, `CompletedIsWhole`, `LiveSessionKept` | 2 sub-writes in host's writes of 1 or 2, which may be refused, short or time out; one host on the other files, crashes at any time | 5.03 M |
| `relay_drop` | `OpsReturn`, `LinkHeals` | 1 write, host sessions drop at any time | 358 k |
| `mount` | `TypeOK`, `OneLeakAFault`, `ReplyIsOwn`, `DialsNewPeer`, `OpsReturn` | 2 threads, 2 peers, 2 conversations, 1 data fid, 2 attempts of 2 polls, 3 requests, 1 fault | 544 k |
| `drain` | `TypeOK`, `ToldOnceInOrder`, `LossIsExcused` | 2 clients on one or two gateways, 2 peers of 4 chunks, batches of 2, buffer of 5, 2 attempts of 2 reads, 2 reads of the files, 3 faults (1 with both clients) | 3.28 M |
| `forward` | `TypeOK`, `PostedOnceAsOwn`, `LossIsExcused`, `StopEnds`, `ReadUnlessLate` | the gateway's relay with 2 chunks and 2 neighbours with 1, buffer of 2, 2 reads, 1 late reply, 1 other fault | 442 k |
| `uart` | `TypeOK`, `RepliesArrive`, `LinkComesBack` | 2 threads, replies and buffer of 2 units, 1 fault | 1.52 M |
| `tools` | `TypeOK`, `BoundToolsRelease`, `OwnDataOnly`, `ToolsEnd` | pool of 3, queue of 1, 12 modes, 2 tools, 2 datagrams, 1 conversation of another session | 309 k |

Why the bounds are enough. A slot's life (allocate, bind, hang up, free, reuse) needs three users to
interfere: the one who binds, a reader, and a third whose fid is stale; `net_slot` has three fids,
two readers and an in-process session on one slot, where every interference on a slot happens, and
two datagrams in the queue, one before and one after a hangup. `net_pool` adds the second slot that
fan-out needs; that nothing crosses from one slot to another is proved (`DeliveryIsolated`). The proofs remove these bounds. A ring of 2
wraps, fills up and empties in every state of the other thread, and the proof covers other sizes.
An image of 3 chunks lets the host stall, back up by one and stall again in the middle; each retry
loop has an attempt that fails and one that is the last, and the ring and the reply queue fill up. The
ring of 3 is as long as the image, so that a repeated request of the handshake may still wait in it when
the last chunk is accepted and its late reply meets the commit.
In `RelayLink` two sub-writes give a stream a middle, which falls within a write of the host or between two, and one more host suffices for every pair of
threads around the two mutexes. `relay_heal` has crashes and calls of the stream that
fail, `relay_drop` host sessions that drop: all of them at once are out of reach; `relay_drop` has no second host and no crash, so it says nothing about a crash during
a drop.

In `UartLink` two units are the least a frame has to be torn in, and a claimed length of two swallows the header
of the next reply, which goes on for ever if nothing resets; two threads put two replies on the line. A deadline
passes either when nothing can come any more or, as a fault, while the reply is on its way. One fault
is the restart that tears a frame or the late reply that meets the next handshake. A buffer of three units
passes as well (2.75 M states).

In `MeshMount` three requests are one that dials, one that re-targets and one that uses what is left,
in two threads; two attempts of two polls have a first, a repeated and a last of each; the one
data fid is given out again to the next conversation while the pump may still use it, and the history variable `faults` bounds
how often a call fails or a message is lost. The invariants also hold with two data fids and two faults, a dial or
a disconnect that leaves its conversation behind and another that meets what is left of the pool
(`tlc -config MeshMount_faults.cfg MeshMount`, 8.24 M states); the proofs remove these bounds for all but `OpsReturn`. In `MeshDrain` the buffer of 5
holds two batches and half of a third, four chunks take two batches, and of two neighbours one is
drained per read (`MaxDrained` 1 stands for the code's 3); the faults are enough to exhaust both attempts
of one request. In `Forwarder` the buffer is smaller than what the relay has to tell in two reads, the
mesh file has two devices, and a late reply may come at any request; the 9151's own file is empty, so that
what an earlier file left in the buffer is there when a read yields nothing. In `HostTools` the pool of 3
is what the widest mode takes; a second tool (a receiver) meets what the first left, and its
`bsend`, `sendbig` and `asend`, whose calls are those of `bsendn` and `sendn`, are left out of the run.

`CHECK_DEADLOCK FALSE` is set where the system may stop: the update ends (`MeshOta`), the forwarder is
stopped by its signal, the tools exit, and no host has to read `dev/mflt_mesh` or `/net/mesh` again.

### Fairness

- `Mesh9p`: the receive thread and the work queue are threads of the scheduler (weak fairness). No
  peer has to send, no data read has to return and no wired update has to end.
- `MeshOta`: host, gateway and the peer's work queue (weak fairness each): every wait in them has a
  timeout, every loop a bound. The mesh has to deliver nothing.
- `RelayLink`: each thread, once it has an operation, is strongly fair, since Zephyr hands a mutex
  to its longest-waiting thread of the highest priority and every client call returns or times out;
  the second half of a disconnect likewise. A node that is down boots (weak fairness). No host has
  to act.
- `UartLink`: interrupts are taken, the work queue runs, calls return or reach their deadline (weak fairness);
  the monitor polls (*relay* 762-807); the 9151 answers the monitor and whoever makes a session. A host's
  blocked read need not be answered, and a host need not act.
- `MeshMount`: each serving thread, the pump and the delivery of a datagram that was not lost (weak
  fairness): the nested client and the carrier time out, the mutexes are held for bounded calls. No
  host acts, nothing has to be answered.
- `Forwarder`: the process runs, the gateway answers what it was asked, its port comes back (weak
  fairness each). That the answer is in time is not assumed.
- `HostTools`: the running process (weak fairness). No client, datagram or deadline has to come.
- `MeshDrain` has no fairness; its properties are invariants.
- `AetherNet` has no fairness: nothing in it promises progress to a reader but the arrival of
  datagrams.

### Where documentation and code differ

Shown by a run:

1. `mesh9p_reply`: `mesh9p_send` (*m9p* 180) sends every reply to `cur_peer`, the "peer of the request
   being served". A data read answered by a worker after another peer's request goes to that peer.

Shown by a counterexample a reader can reproduce with the configuration named, beside the runs:

2. `tlc -config Forwarder_late.cfg MCForwarder` (`RetriedNextCycle`): `rpc_to` (*forwarder* 197-218) does
   not match replies with requests, and a deadline leaves the port open. One late reply is taken for
   the answer to the next request, that one's for the one after, and every later cycle fails at a reply of another type without an error that would end
   the connection; *forwarder* 14-15 promises that a slow read "fails fast and is retried next cycle".
3. `tlc -config AetherNet_prefix.cfg MCAetherNet` (`PrefixFollowsArrival`): a `data` read takes its
   datagram and then decides from the conversation's present state whether the reply has a source
   prefix (*net* 585). A hangup between the two strips it from a broadcast; the comment at *net* 578
   asks for the prefix with "no exceptions".
4. `tlc -config Mesh9p_quiesce.cfg MCMesh9p` (`ReleasedWhenDone`): `dfu_status` (*9p* 328) returns early
   while any mesh request is being served. If the end of a wired update falls there, the mesh stays
   quiesced (*9p* 318: "Released on complete/error").
5. `tlc -config RelayLink_confirm.cfg MCRelayLink` (`AutoConfirms`): the monitor runs the automatic
   confirm only when it brought the link up itself (*relay* 799). If a host's operation re-attaches
   first, a good image stays unconfirmed until the next loss of the link.
6. `tlc -config MeshOta_reset.cfg MeshOta` (`UpgradeNeedsCommit`): two texts of the repository contradict each other.
   *conv* 387-391 ("KNOWN LIMITATION") says that the re-target of a resume re-versions the
   peer, which clunks `dev/firmware`, "and dfu_clunk FINALIZES the DFU", on the partial image;
   `doc/OTA.md` 111-113 says "that clunk no longer *finalizes* the partial image. Only an explicit
   commit finalizes", and `tools/interrupt_resume.sh` (4, 10) names the fix (9p4z 050a23f). The clunk is in a
   library that is not in the repository, so which text is out of date cannot be decided here. Taking the
   comment's word (`ResetFinalizes` TRUE) an upgrade is requested while the host still streams and no commit
   was sent; the run `ota_push` and the theorem take OTA.md's, and `UpgradeIsWhole` says nothing otherwise.

Met while modelling, and allowed by the models rather than excluded by a property:

- *relay* 372-373 and 444 count on nothing arriving while a reply is handed over, since "the client is strictly
  request/response". The client is per-tag concurrent (*relay* 333-334): when two calls are answered back to back the
  second reply is dropped, its call waits out its deadline and the session is dropped. `RepliesArrive` therefore
  excuses replies that are on the line together; `LinkComesBack` shows the link recovers.
- `mesh_rx_reset` clears the flag that protects the buffer although the work item may still have to copy it: the
  message handed over may be torn, and the handler then clears a frame that is being received (*relay* 404-408, 524).
- `push_ctl` (*net* 1321) waits for the Rwrite that the peer's `mesh9p_send` (*m9p* 177) never sends: a
  confirm over the mesh that worked is reported as failed, though nothing was lost.
- *relay* 702-742: the lock is given up before the disconnect, so an access that begins in between
  attaches over a conversation that the disconnect then takes away. The session stays attached with no
  conversation, and `/net/mesh` fails until 9p4z finds it gone or `dev/mesh_peer` is written again;
  *relay* 711-713 says "the next /net/mesh access dials the new peer". `DialsNewPeer` excepts it (`cut`).
- A carrier call that fails in a dial or a disconnect leaks one of the node's four conversations (*transport*
  127-128, 154, 193-194), and so does the carrier's own Tversion. `OneLeakAFault` shows that it is one for each fault
  and that nothing else leaks.
- *transport* 99-111 polls a data read as if it returned at once; the node's read blocks (*net* 563) up
  to the carrier's five minutes, so within the nested client's six seconds a T message is never sent
  again, and a poll whose read expired leaves a worker that takes the next datagram.
- *transport* 43-46 says the buffer is never overwritten under the pump; a second thread, or a request
  after one that timed out, does so. The message that goes out then is the new one, and the reply with
  its tag is discarded as stale: that request times out (`ReplyIsOwn` still holds).
- The Rversion of an earlier session or peer may answer a later Tversion, whose tag is always NOTAG (the
  nested session and `m9_rpc` alike).
- A Tread of `dev/mflt` that is sent again consumes a second batch; the first is lost if its reply is
  discarded. A read of `dev/mflt_probe` consumes and discards a batch of each neighbour.
- Two reads of `dev/mflt_mesh` or `dev/mflt_probe` at once on one gateway have two conversations with
  the same peer, which both hear both sessions' replies, with the same tags: a chunk may be told
  twice. `ToldOnceInOrder` excepts them (`crossed`).
- *forwarder* 22-24 says a failing 9151 is logged as a degraded link; an error reply is not, only a
  deadline of the walk or of `dev/mflt_mesh` is.
- A tool killed, or whose call fails, between its clone and its ctl leaves its conversation allocated
  (`BoundToolsRelease` is about those that got to bind it; `--hold` does so on purpose).
- A signal that comes after the loop's check of `g_stop` and before the read blocks is not seen until the
  next datagram.
- A conversation number that could not be read counts as 0. `OwnDataOnly` holds all the same: only a
  stray reply can be the reason, and the next call then takes a reply of the wrong type.
- The sentinel of a hangup that no reader waited for stays in the queue through the next `connect` and
  is read as an immediate end of file by the next binding (*net* 391).
- A clunk of any ctl fid frees the conversation; `doc/NET_AETHER_SPEC.md:308` says "the last fid".
- A slot freed while a read begins on it and then handed out again has its queue re-initialised under
  the parked reader, which is then never woken (*net* 238; `ReuseStrandsNoLiveRead` shows it is only
  those reads).
- Another client's Tversion drops the push session's fids on the peer: accepted writes are refused
  and nobody looks (*net* 1183, "Delivery is guaranteed by the ARQ"; 1242). Until the host resumes
  the image is still right (`ota_push`), afterwards the upload may fail or skip.
- `push_close` ignores the result of its Tclunk (*net* 1265), and `outstanding`, for which it waits,
  is never incremented. "exactly-once delivery" (*net* 1178) does not hold for a write whose
  acknowledgement is lost; writes by offset make that harmless (`ImageIsPrefix`).
- The transmit counters are said to be touched from one context (*net* 115) and are incremented by
  several server threads.
- *relay* 555-561 says a Tversion leaks conversations, 633-634 that it frees them; by the server's
  Tversion the former is the case.
- The clunk of a failed or abandoned upload finalises what was written so far if the node still knows
  the fid (*relay* 1065); `doc/OTA.md` counts on MCUboot to ignore a partial image. A sub-write fails so when
  it is refused, times out or is aborted. `RelayLink!UpgradeIsWhole` excepts this clunk and that of a file the host
  closes early, and nothing else; `CompletedIsWhole` has no exception: an upload reported as complete is whole.
- Each plain re-Tattach leaves the previous root fid in the node's table (*relay* 563), and
  `mesh_host_disconnected` aborts the calls of every other session (*relay* 638).

## 4. What is proved

TLAPS proves the following for every value of the constants allowed by the modules' assumptions
(any number of slots, queue depth, fids, readers; any ring size and set of peers; any size of image, buffer
and batch; any number of threads, hosts, nodes, clients, conversations, attempts, polls, requests and faults).
Each inductive invariant was checked by TLC on the instance of the module's run before it was proved.

`AetherNet_proofs`, from `NetAssumption`:

- `TypeCorrect`: `Spec => []TypeOK`;
- `DeliveryIsolated`: `Spec => []DeliveryIsolation`, what waits in a conversation or was taken by
  its reader belongs to its present binding;
- `ReadersWoken`: `Spec => []HangupWakesReaders`, no read blocks on a conversation hung up or freed under it,
  not even one that had not reached the queue, unless it was beaten to the sentinel;
- `LiveReadsSurviveReuse`: `Spec => []ReuseStrandsNoLiveRead`;
- `BroadcastsFanOut`: `Spec => FanOutUniform`, an action property: only `Recv` counts a datagram
  (`OnlyRecvCounts`), a party line that got it was one of its takers (`PartyLineGot`), and each taker with room or
  a reader gets it (`PartyLineGets`).

Types are proved first, by themselves; the next three follow from `Invariance`, that `IInv` is
inductive. `IInv` is the conjunction of all four and of two parts more. `SentinelWaits` says that while a read is on its way to a
queue that was purged since, the sentinel is at the queue's head: this is where purge before put matters, for
a put that the purge follows leaves nothing. `LiveReadLiveSlot` says that a read begun on a conversation and not hung up since is on a slot in use.
Without it nothing says that the slot `conv_alloc` takes has no such reader, and neither
`HandIsolation` nor `ReuseStrandsNoLiveRead` would be preserved by a reuse. The proof has one lemma
per group of actions; `PurgeWithEof` and `ConvAlloc`, which several actions share, have
lemmas of their own.

`Mesh9p_proofs`, from `Mesh9pAssumption`:

- `TypeCorrect`: `Spec => []TypeOK`, the gate keeps the count within the ring;
- `NoneIsLeftBehind`: `Spec => []NothingLeftBehind`;
- `RingIsQueue`: `Spec => QueueSafety`, every step of the ring is a step of `Mesh9pQueue` or a stutter.

They rest on the inductive `IInv`: `TypeOK`, `RingShape` (the tail is the head plus the live slots,
where `Live` corrects the count for a request being put in or taken out; the claimed slot is the
last live one; counted slots hold requests), `RxHolds` (what the gate saw still holds when the request
is counted: only the receive thread raises the count), `WorkHolds` and `NothingLeftBehind`.
`RingShape` is what ties `head`, `tail` and `count` together, which two threads move at different
times; from `TypeOK` alone a fill could overwrite a request. A few arithmetic lemmas
(`Around`, `AtInjective`, `WrapAt`, `WrapShift`) are proved once about indices modulo `Ring`; each
action then has a lemma for the invariant and one for its step of the queue. `Arrive` is the
queue's `Accept`, `Serve` its `Serve`, all others stutter.

`MeshMount_proofs`, from `MountAssumption`:

- `TypeCorrect`: `Spec => []TypeOK`, among it that the pump's attempts and polls stay within their limits;
- `LeaksAreFaults`: `Spec => []OneLeakAFault`, with calls that fail anywhere in a dial or a disconnect;
- `DialsNew`: `Spec => []DialsNewPeer`;
- `RepliesOwn`: `Spec => []ReplyIsOwn`.

All follow from `Invariance`, that the module's `IInv` is inductive. To `TypeOK`, `OneLeakAFault` and
`DialsNewPeer` it adds what they need of each other: `Bound` (what a connected transport knows: its fid, if it is
still bound, leads to its conversation with its peer; a disconnect that has the lock goes on with what it found),
`Pumping`, `HandshakeAlone` (who makes the session holds its lock, finds it
not attached, dials only when not connected, and is connected to the named node unless cut), `AttachedToNamed`, `AccessSeesNames` (an access
under way has seen the name in force, and the peer the transport has). A leak is counted by cardinality: each action's
set of lost conversations grows by one at most and only if it is a fault (`Lost`, for a finite pool). `ReplyIsOwn` is not inductive: a message is
copied from the buffer to the air, to a queue and to the pump, and the buffer may be overwritten in
between. `MessagesMatch` therefore says at each of these places that a message with a waiting request's number is of that request's
kind; `Numbered` says that the numbers of waiting requests differ and that the tag is the number, Tversion's apart. That
the answer is from a node the request has seen is a matter of the conversation it comes through, since fids are left
behind and conversations given away again: `QueuePeers` has a conversation's datagrams come from its peer, and `PumpSees`
that the access waiting for the pump's tag has seen the peer the pump talks to.

`MeshOta_proofs`, from `OtaAssumption`:

- `TypeCorrect`: `Spec => []TypeOK`;
- `SlotHoldsPrefix`: `Spec => []ImageIsPrefix`, no retry, resume or duplicate skips, repeats or shifts a chunk;
- `UpgradeIsOfWhole`: `Spec => []UpgradeIsWhole`, under `~ResetFinalizes`;
- `WritesLand`: `Spec => []AloneWritesLand`;
- `AnsweredCommitHasStaged`: `Spec => []AnsweredCommitStages`.

`ImageIsPrefix` says nothing of the writes that still wait in the peer's ring. `Follows` does: what precedes a write
in the ring brings the slot up to it (`Reached`), and so does the host's own offset. It holds in the first pass while the stream is
open (`FirstPass`), and with no other client about at any time (`AloneSession`), where `WritesFindSession`, `OnFirmware`
and `SessionOpens` say that each write meets the session it was sent in. `RingInOrder` has no write follow
a clunk, `CallsMatch` ties the gateway's call to the host's. Each of these is carried over a request
sent (`FollowsSent`, `ReadySent`) and one served (`FollowsTaken`, `ReadyTaken`) by a lemma of its own, which the actions
cite.

`RelayLink_proofs`, from `RelayAssumption`:

- `TypeCorrect`: `Spec => []TypeOK`;
- `OpHealsAlways`: `Spec => []OpHeals`, an operation nothing happens to succeeds whatever it found;
- `LiveSessionIsKept`: `Spec => LiveSessionKept`, an action property;
- `CompletedUploadIsWhole`: `Spec => []CompletedIsWhole`;
- `UpgradeIsOfWhole`: `Spec => UpgradeIsWhole`, an action property: a partial upgrade is requested only by the clunk
  after a failed sub-write and by a host that closes early (TLC agrees on the instance of `relay_heal`).

`Healing` is `OpHeals` carried back from the end of an operation to its begin: what must hold at each of its calls for the
next to work. It needs to know that mutual exclusion works (`SessionLocked`), when the node knows fids
(`FidsAreServed`), and what a dropped host session leaves aborted (`DropIsExcused`). For the uploads,
`StreamIsUps` and `OffsetsAgree` make the relay's offset the host's, `StreamInSlot` has every sub-write that went
through in the node's slot as long as the node knows the stream, and `ClosedIsWhole` carries that past the clunk to the
host's reboot.

`UartLink_proofs`, from `LinkAssumption`:

- `TypeCorrect`: `Spec => []TypeOK`, whatever bytes come and whenever a reset falls, the accumulator is not overrun;
- `AloneRepliesArrive`: `Spec => []RepliesArrive`.

`OneReply` follows a reply that is alone on the line: part of it in the buffer and the rest to come (`OnLine`),
whole and handed to the work item (`InBuffer`), or copied while the fields are cleared one after the other
(`Copied`); else the line is quiet and the accumulator is free. That is what lets the next call start.

`MeshDrain_proofs`, from `DrainAssumption`:

- `TypeCorrect`: `Spec => []TypeOK`, the retries, rounds and the room in the buffer stay within their bounds;
- `NoneToldTwice`: `Spec => []ToldOnceInOrder`;
- `LossesExcused`: `Spec => []LossIsExcused`.

What was told says nothing of what is still to come, so `IInv` follows the chunks on their way: replies leave a peer
in the order of its packetizer (`AirInOrder`) and queue up in it (`QueueInOrder`), two clients with one peer have
disjoint queues (`QueuesApart`, which is where `crossed` comes in), and a chunk that was told is in none of them
(`OutIsOver`). `InSession` says that there was room for the neighbour that is drained. The proof has a
lemma for each way in which the chunks can move, whatever action does it: nothing moves (`StaysOrderly`), a peer gives
(`GivesOrderly`), a reply is lost (`LoseOrderly`) or arrives (`ArriveOrderly`), a queue is emptied
(`EmptiedOrderly`), chunks are told (`TellsOrderly`).

`LossIsExcused` counts what is lost, but a reply that is still under way may be lost later for no new reason: its
attempt was given up long ago. `Budget` is the inductive form. Every message in a connected conversation or on
its way may come to nothing and a batch with it, so each is charged one batch; it is paid by a client that waits
for it (`Awaiting`) or by an excuse. That a reply has a batch at most is `Batches`. A step of a client that drops
`d` messages, sends `a`, and may stop or begin to wait keeps the balance if `ClientPays` holds of it (`StepPays`);
so each action only shows which messages it drops (`Drops`) and this one inequality. The head of the queue that
`Take` uses up is paid by who waited for it, or all its chunks are told (`TakenPays`); an attempt given up pays for
itself and, if it was the last, drops the queue, which was charged before (`GivesUp`). A reply that arrives
moves from one charge to the other, which needs that no two clients hear it (`OneHears`, from `QueuesApart`). At
the end, who waits has a message of its own (`Covered`), and what is left is the property. The two counts
are cardinalities of sets of places (`Spots`), so nothing is summed up over clients or peers. The theorem
holds for every number of attempts and reads. It would not if an attempt used up by stale replies were not
counted: with the code's 2 attempts of 2 reads no behaviour within the run's bounds depends on it, but with one
read, or with 3 attempts of 2 reads, TLC finds a batch lost with nothing to excuse it.

`HostTools_proofs`, from `HostAssumption` and `ModesAssumption`:

- `TypeCorrect`: `Spec => []TypeOK`;
- `BoundRelease`: `Spec => []BoundToolsRelease`;
- `OwnDataTheorem`: `Spec => []OwnDataOnly`.

What a tool may hold depends on where in its script it is, on which calls were answered, and on a reply that
is still on its way to a call that a signal ended. The properties say nothing of the steps before a
conversation is held. `InOrder` does: up to `SetUp` a tool has nothing parked and at most the one reply it waits
for, but for the read of the number, which goes on after a signal and leaves every later call one reply
`Behind`; such a tool gets an answer of another type next and stops. `Holds` says that past a clone or an open of data
that was answered (`Got`) the fids name a conversation of this tool, and `OneToGive` that a careful mode allocated one
conversation, which its ctl fid still names until it clunks. `RunsApart` and `CtlFidsApart` keep the tools and the fids
of one session apart, `IsoSilent` that nothing waits or arrives on the second conversation of `iso`.
`OwnDataOnly` follows from the invariant (`OwnData`).

The fifteen scripts enter the proof once: `Plans` shows of each where it clones, opens, holds and clunks
(`Planned`: `Places`, `Strict`, `Makes`, `Keeps`, `Forwards`, `Clunks`), and nothing after it looks into a script. Nor does
the invariance look at actions: each is shown to be one of three kinds of step, the tool goes on and the node stands
still (`Moves`), the node or another session acts (`Worlds`), or a call is served (`Calls`), and the parts of the
invariant are carried over the kinds. That the lowest free slot exists (`Least`) is well-founded induction.

Only model-checked:

- liveness (`HostEnds`, `LinkHeals`, `StopEnds`, `ReadUnlessLate`, `LinkComesBack`, `ToolsEnd`, the
  `OpsReturn` of `RelayLink` and of `MeshMount`, the fairness half of `QueueSpec`), since the proof system has no
  rules for `ENABLED`;
- the invariants of `Forwarder` (`TypeOK`, `PostedOnceAsOwn`, `LossIsExcused`): a reply's text is a fold over its
  devices and what was lost a fold over replies, and what a fold computes for every input takes an
  induction over data.

## 5. Plan

Order of importance: the conversation service and the mesh server carry every other feature, the two
update paths and the mount are where they meet failures, the tools are where they meet the user. These
are done. What is left:

1. `RelayLink`: the push proxies; they use the session as the modelled files do (walk, open, body,
   clunk), so they add threads to the product rather than a new kind of step.
2. The chat client's re-target protocol (`achat_core.c`): `/connect` changes the peer under a lock and hangs
   up, its reader connects again when the end of file arrives, and what is shown depends on a flag read without the
   lock.
3. `HostTools`: `--put`.

Not planned: BLE and the exports (the state is 9p4z's), start-up, LED and shell (no protocol state),
the identity's cryptography, metrics sampling, the chat client's user interface, test drivers and scripts (sequential programs over the modelled
interfaces).

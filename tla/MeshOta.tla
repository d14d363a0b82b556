-------------------------------- MODULE MeshOta --------------------------------
(***************************************************************************)
(* An update of a mesh peer's firmware over the air, end to end: the host  *)
(* tool that streams the image and resumes after a stall (do_mesh_ota in   *)
(* src/tools/aether_conv.c), the gateway's in-process 9P client            *)
(* (aether_net_push_* and m9_rpc in src/dect_mesh/src/aether_net.c, called *)
(* from write_push_ctl and write_push of aether_9p.c), the mesh's          *)
(* acknowledged datagrams, and the peer's mesh 9P server with its          *)
(* dev/firmware and dev/confirm files.                                     *)
(*                                                                         *)
(* The peer's ring of requests is Mesh9pQueue.  The peer serves every node *)
(* of the mesh from one session: the Tversion of any client drops the fids *)
(* of all.  A host write is one Twrite here: an image is the sequence of   *)
(* chunks 1 .. N.                                                          *)
(***************************************************************************)
EXTENDS Naturals, Sequences

CONSTANTS
  N,          \* chunks in the image
  Ring,       \* requests the peer's ring holds
  Depth,      \* replies the gateway's conversation holds
  Back,       \* chunks the host backs up before it resumes
  Passes,     \* max_passes of the host
  HostTries,  \* attempts of the host on a chunk
  SendTries,  \* attempts of push_write on a Twrite
  RpcTries,   \* attempts of m9_rpc
  Lossy,      \* frames, acknowledgements and replies may be lost or late
  Shared,     \* the peer has other clients
  ResetFinalizes, \* the library's Tversion finalizes the update it interrupts
  Mixed       \* bound: losses and other clients may occur in one behaviour

ASSUME OtaAssumption ==
  /\ {N, Ring, Depth, Passes, HostTries, SendTries, RpcTries} \subseteq Nat \ {0}
  /\ Back \in Nat
  /\ {Lossy, Shared, ResetFinalizes, Mixed} \subseteq BOOLEAN

VARIABLES
  host,       \* do_mesh_ota: pc, chunks sent, where to resume, pass, attempts
  gw,         \* the call the gateway executes, g_push.active, the m9_rpc state;
              \* clunked is history: the commit's clunk was answered
  rep,        \* rxq of the gateway's conversation: the replies that came
  q,          \* the peer's ring
  last,       \* the request the peer served last
  fid,        \* the peer's fid 2: the file it is open on
  owner,      \* the client whose Tversion the peer served last
  image,      \* the chunks written to the peer's secondary slot
  upgrade,    \* the peer requested the upgrade
  confirmed,  \* the peer's image was confirmed
  lost,       \* history: something was lost or late
  crowded     \* history: another client sent the peer a request

peerVars == <<fid, owner, image, upgrade, confirmed>>
vars == <<host, gw, rep, q, last, peerVars, lost, crowded>>

Client == {"gateway", "other"}
File == {"firmware", "reboot", "confirm", "mflt"}
Stage == {"version", "open", "write", "ctl", "clunk"}
Msg == [peer : Client, kind : {"op"}, op : Stage, file : File, chunk : 0 .. N]

PeerQ == INSTANCE Mesh9pQueue WITH Req <- Msg, Nobody <- "nobody", queue <- q

(* What the mesh may do: lose something, or bring other clients.            *)
MayLose == Lossy /\ (Mixed \/ ~crowded)
MayCrowd == Shared /\ (Mixed \/ ~lost)

-----------------------------------------------------------------------------
(* Host *)

(* The host's view of a call: the gateway executes op until it returns.     *)
Call(op, k) ==
  /\ gw.op = "none"
  /\ gw' = [gw EXCEPT !.op = op, !.chunk = k, !.stage = "start", !.tries = 0]

Returned(op, res) == gw.op = op /\ gw.stage = res

Idle == gw' = [gw EXCEPT !.op = "none", !.stage = "none"]

HostTarget ==
  /\ host.pc = "target"
  /\ Call("target", 0)
  /\ UNCHANGED <<host, rep, q, last, peerVars, lost, crowded>>

(* A wrong HostTargetDone: a pass whose target failed is not counted.       *)
BugFailedPassIsFree ==
  /\ host.pc = "target"
  /\ \/ /\ Returned("target", "ok")
        /\ host' = [host EXCEPT !.pc = "stream", !.off = host.resume, !.tries = 0]
     \/ /\ Returned("target", "err")
        /\ UNCHANGED host
  /\ Idle
  /\ UNCHANGED <<rep, q, last, peerVars, lost, crowded>>

HostTargetDone ==
  /\ host.pc = "target"
  /\ \/ /\ Returned("target", "ok")
        /\ host' = [host EXCEPT !.pc = "stream", !.off = host.resume, !.tries = 0]
     \/ /\ Returned("target", "err")
        /\ host' = [host EXCEPT !.pass = @ + 1,
                                !.pc = IF host.pass + 1 < Passes THEN "target" ELSE "failed"]
  /\ Idle
  /\ UNCHANGED <<rep, q, last, peerVars, lost, crowded>>

HostWrite ==
  /\ host.pc = "stream"
  /\ host.off < N
  /\ Call("write", host.off + 1)
  /\ UNCHANGED <<host, rep, q, last, peerVars, lost, crowded>>

(* A wrong Resume: the host goes on behind the chunk that did not get       *)
(* through.                                                                 *)
BugSkipAhead == host.off + 1

(* Where to go on after a stall.                                            *)
Resume == IF host.off > Back THEN host.off - Back ELSE 0

(* The end of a write: the next chunk, another attempt, or a stall.  The     *)
(* host may also miss the answer to a write that succeeded.                 *)
HostWriteDone ==
  /\ host.pc = "stream"
  /\ \/ /\ Returned("write", "ok")
        /\ host' = [host EXCEPT !.off = @ + 1, !.tries = 0]
        /\ UNCHANGED lost
     \/ /\ \/ Returned("write", "err") /\ UNCHANGED lost
           \/ Returned("write", "ok") /\ MayLose /\ lost' = TRUE
        /\ host' = IF host.tries + 1 < HostTries
                   THEN [host EXCEPT !.tries = @ + 1]
                   ELSE [host EXCEPT !.resume = Resume, !.pass = @ + 1, !.tries = 0,
                           !.pc = IF host.pass + 1 < Passes THEN "target" ELSE "failed"]
  /\ Idle
  /\ UNCHANGED <<rep, q, last, peerVars, crowded>>

HostCommit ==
  /\ host.pc = "stream"
  /\ host.off = N
  /\ host' = [host EXCEPT !.pc = "commit"]
  /\ Call("commit", 0)
  /\ UNCHANGED <<rep, q, last, peerVars, lost, crowded>>

(* The commit's result decides; the reboot's is ignored; the confirm is a    *)
(* command of its own, once the peer has booted.                            *)
HostCtl ==
  /\ host.pc \in {"reboot", "confirm"}
  /\ Call(host.pc, 0)
  /\ UNCHANGED <<host, rep, q, last, peerVars, lost, crowded>>

AfterCtl(ok) ==
  CASE host.pc = "commit" /\ ok -> "reboot"
    [] host.pc = "reboot" -> "confirm"
    [] host.pc = "confirm" /\ ok -> "done"
    [] ~ok /\ host.pc \in {"commit", "confirm"} -> "failed"

HostCtlDone ==
  /\ host.pc \in {"commit", "reboot", "confirm"}
  /\ host.pc = gw.op
  /\ gw.stage \in {"ok", "err"}
  /\ host' = [host EXCEPT !.pc = AfterCtl(gw.stage = "ok")]
  /\ Idle
  /\ UNCHANGED <<rep, q, last, peerVars, lost, crowded>>

-----------------------------------------------------------------------------
(* Gateway: the calls *)

Return(res) == gw' = [gw EXCEPT !.stage = res, !.wait = FALSE, !.tries = 0]

ToStage(st) == gw' = [gw EXCEPT !.stage = st, !.wait = FALSE, !.tries = 0, !.reads = 0]

(* The start of aether_net_push_open, _push_write, _push_close, _push_ctl.  *)
(* push_open drops the session that is still open; each new conversation    *)
(* begins with an empty queue.                                              *)
GwStart ==
  /\ gw.stage = "start"
  /\ \/ /\ gw.op \in {"target", "reboot", "confirm"}
        /\ gw' = [gw EXCEPT !.stage = "version", !.active = FALSE, !.wait = FALSE,
                            !.tries = 0, !.reads = 0]
        /\ rep' = <<>>
     \/ /\ gw.op \in {"write", "commit"}
        /\ ~gw.active
        /\ Return("err")
        /\ UNCHANGED rep
     \/ /\ gw.op = "write"
        /\ gw.active
        /\ ToStage("write")
        /\ UNCHANGED rep
     \/ /\ gw.op = "commit"
        /\ gw.active
        /\ ToStage("clunk")
        /\ UNCHANGED rep
  /\ UNCHANGED <<host, q, last, peerVars, lost, crowded>>

Request ==
  [peer |-> "gateway", kind |-> "op", op |-> gw.stage,
   file |-> IF gw.op \in {"reboot", "confirm"} THEN gw.op ELSE "firmware",
   chunk |-> gw.chunk]

(* What the call does with the answer to the request of this stage: the      *)
(* next request, or the end of the call.  The clunk is best effort; the     *)
(* result of a control write is kept across it.                             *)
Answered(ok) ==
  CASE gw.stage = "version" /\ ok -> ToStage("open")
    [] gw.stage = "version" /\ ~ok -> Return("err")
    [] gw.stage = "open" /\ ~ok -> Return("err")
    [] gw.stage = "open" /\ ok /\ gw.op = "target" ->
         gw' = [gw EXCEPT !.stage = "ok", !.wait = FALSE, !.tries = 0, !.active = TRUE]
    [] gw.stage = "open" /\ ok /\ gw.op # "target" -> ToStage("ctl")
    [] gw.stage = "ctl" ->
         gw' = [gw EXCEPT !.stage = "clunk", !.wait = FALSE, !.tries = 0, !.reads = 0,
                          !.res = IF ok \/ gw.op = "reboot" THEN "ok" ELSE "err"]
    [] gw.stage = "clunk" ->
         gw' = [gw EXCEPT !.stage = IF gw.op = "commit" THEN "ok" ELSE gw.res,
                          !.wait = FALSE, !.tries = 0, !.active = FALSE,
                          !.clunked = (gw.clunked \/ (gw.op = "commit" /\ ok))]

(* A wrong RpcRetry: one attempt too many.                                  *)
BugRetryOnceMore ==
  IF gw.tries < RpcTries
  THEN gw' = [gw EXCEPT !.tries = @ + 1, !.wait = FALSE, !.reads = 0]
  ELSE Answered(FALSE)

(* The next attempt of m9_rpc, or its failure.                              *)
RpcRetry ==
  IF gw.tries + 1 < RpcTries
  THEN gw' = [gw EXCEPT !.tries = @ + 1, !.wait = FALSE, !.reads = 0]
  ELSE Answered(FALSE)

-----------------------------------------------------------------------------
(* Gateway: aether_mesh_send_reliable *)

Sending == gw.stage \in Stage /\ ~gw.wait

(* A wrong SendFailed: push_write counts the chunk although it gave up.     *)
BugGiveUpIsDone ==
  IF gw.stage = "write"
  THEN IF gw.tries + 1 < SendTries
       THEN gw' = [gw EXCEPT !.tries = @ + 1]
       ELSE Return("ok")
  ELSE RpcRetry

(* Not delivered, or delivered and not acknowledged: push_write tries again, *)
(* m9_rpc begins its next attempt.                                          *)
SendFailed ==
  IF gw.stage = "write"
  THEN IF gw.tries + 1 < SendTries
       THEN gw' = [gw EXCEPT !.tries = @ + 1]
       ELSE Return("err")
  ELSE RpcRetry

(* Delivered and acknowledged: push_write is done with the chunk, after      *)
(* push_reap has swept the replies; m9_rpc waits for the reply.             *)
SendAcked ==
  /\ Sending
  /\ PeerQ!Accept(Request)
  /\ IF gw.stage = "write"
     THEN Return("ok") /\ rep' = <<>>
     ELSE /\ gw' = [gw EXCEPT !.wait = TRUE, !.reads = 0]
          /\ UNCHANGED rep
  /\ UNCHANGED <<host, peerVars, lost, crowded>>

SendUnacked ==
  /\ Sending
  /\ MayLose
  /\ lost' = TRUE
  /\ PeerQ!Accept(Request)
  /\ SendFailed
  /\ UNCHANGED <<host, rep, peerVars, crowded>>

(* The frame is lost, or refused by the gate of a full ring until the mesh   *)
(* gives up.                                                                *)
SendLost ==
  /\ Sending
  /\ \/ Len(q) = Ring /\ UNCHANGED lost
     \/ MayLose /\ lost' = TRUE
  /\ SendFailed
  /\ UNCHANGED <<host, rep, q, last, peerVars, crowded>>

-----------------------------------------------------------------------------
(* Gateway: the replies *)

(* A wrong GwTake: any reply answers the request.                           *)
BugTakeAnyTag ==
  /\ gw.wait
  /\ rep # <<>>
  /\ rep' = Tail(rep)
  /\ Answered(Head(rep).ok)
  /\ UNCHANGED <<host, q, last, peerVars, lost, crowded>>

(* The loop of m9_rpc: replies with another tag are discarded, two at most   *)
(* in an attempt.                                                           *)
GwTake ==
  /\ gw.wait
  /\ rep # <<>>
  /\ rep' = Tail(rep)
  /\ IF Head(rep).op = gw.stage
     THEN Answered(Head(rep).ok)
     ELSE IF gw.reads = 0 THEN gw' = [gw EXCEPT !.reads = 1] ELSE RpcRetry
  /\ UNCHANGED <<host, q, last, peerVars, lost, crowded>>

(* No reply in time: none is coming, or the peer has not come to it yet.    *)
GwTimeout ==
  /\ gw.wait
  /\ rep = <<>>
  /\ \/ /\ \A i \in 1 .. Len(q) : q[i] # Request
        /\ UNCHANGED lost
     \/ /\ MayLose
        /\ lost' = TRUE
  /\ RpcRetry
  /\ UNCHANGED <<host, rep, q, last, peerVars, crowded>>

-----------------------------------------------------------------------------
(* Peer *)

(* A wrong Flash: a chunk the slot already has is appended again.           *)
BugAppendAlways(k) == image' = Append(image, k)

(* ninep_dfu writes by offset: a chunk it has is skipped, the next one is    *)
(* appended; one beyond it may be refused or appended.                      *)
Flash(k) ==
  \/ k = Len(image) + 1 /\ image' = Append(image, k)
  \/ k <= Len(image) /\ UNCHANGED image
  \/ k > Len(image) + 1 /\ image' \in {image, Append(image, k)}

(* The reply of mesh9p_send reaches the conversation of the gateway, if it   *)
(* still has one with room, or is lost.                                     *)
Open == gw.active \/ gw.stage \in Stage

ReplyTo(m, ok) ==
  \/ /\ rep' = IF m.peer = "gateway" /\ Open /\ Len(rep) < Depth
               THEN Append(rep, [op |-> m.op, ok |-> ok]) ELSE rep
     /\ UNCHANGED lost
  \/ /\ MayLose
     /\ lost' = TRUE
     /\ UNCHANGED rep

(* mesh9p_send: an Rwrite is not sent.                                      *)
Suppress == UNCHANGED <<rep, lost>>

(* A wrong ServeVersion: the clunk of the fids it drops requests the upgrade. *)
BugVersionFinalizes(m) ==
  /\ m.op = "version"
  /\ fid' = "none"
  /\ owner' = m.peer
  /\ upgrade' = (upgrade \/ fid = "firmware")
  /\ ReplyTo(m, TRUE)
  /\ UNCHANGED <<image, confirmed>>

(* A Tversion clunks every fid of the one session the peer has.  Whether that *)
(* clunk finalizes an update is up to the 9P library's dfu_clunk, which is    *)
(* not in the repository: it does says aether_conv.c (l.387-391, "KNOWN       *)
(* LIMITATION"), it no longer does says OTA.md (l.111-113).                   *)
ServeVersion(m) ==
  /\ m.op = "version"
  /\ fid' = "none"
  /\ owner' = m.peer
  /\ upgrade' = (upgrade \/ (ResetFinalizes /\ fid = "firmware"))
  /\ ReplyTo(m, TRUE)
  /\ UNCHANGED <<image, confirmed>>

(* Tattach, Twalk and Topen of fid 2: sure to succeed only in the client's   *)
(* own fresh session.                                                       *)
ServeOpen(m) ==
  /\ m.op = "open"
  /\ \E ok \in BOOLEAN :
       /\ owner = m.peer /\ fid = "none" => ok
       /\ fid' = IF ok THEN m.file ELSE fid
       /\ ReplyTo(m, ok)
  /\ UNCHANGED <<owner, image, upgrade, confirmed>>

ServeWrite(m) ==
  /\ m.op \in {"write", "ctl"}
  /\ \/ /\ fid = "firmware"
        /\ Flash(m.chunk)
        /\ Suppress
        /\ UNCHANGED confirmed
     \/ /\ fid = "confirm"
        /\ confirmed' = TRUE
        /\ Suppress
        /\ UNCHANGED image
     \/ /\ fid \notin {"firmware", "confirm"}
        /\ ReplyTo(m, FALSE)
        /\ UNCHANGED <<image, confirmed>>
  /\ UNCHANGED <<fid, owner, upgrade>>

(* The clunk of dev/firmware requests the upgrade.                          *)
ServeClunk(m) ==
  /\ m.op = "clunk"
  /\ fid' = "none"
  /\ upgrade' = (upgrade \/ fid = "firmware")
  /\ ReplyTo(m, fid # "none")
  /\ UNCHANGED <<owner, image, confirmed>>

(* The write of dev/reboot resets the node: what its ring held is gone.      *)
Resets(m) == m.op = "ctl" /\ fid = "reboot"

PeerReboot ==
  /\ q # <<>>
  /\ Resets(Head(q))
  /\ q' = <<>>
  /\ fid' = "none"
  /\ owner' = "other"
  /\ UNCHANGED <<host, gw, rep, last, image, upgrade, confirmed, lost, crowded>>

PeerServe ==
  /\ PeerQ!Serve
  /\ ~Resets(Head(q))
  /\ LET m == Head(q) IN
       ServeVersion(m) \/ ServeOpen(m) \/ ServeWrite(m) \/ ServeClunk(m)
  /\ UNCHANGED <<host, gw, crowded>>

(* Another client of the peer: a drain of its dev/mflt (drain_peer, by any   *)
(* node, or by a host over the mesh) opens a session of its own.            *)
OtherSession(st) ==
  /\ MayCrowd
  /\ crowded' = TRUE
  /\ PeerQ!Accept([peer |-> "other", kind |-> "op", op |-> st, file |-> "mflt", chunk |-> 0])
  /\ UNCHANGED <<host, gw, rep, peerVars, lost>>

-----------------------------------------------------------------------------
Init ==
  /\ host = [pc |-> "target", off |-> 0, resume |-> 0, pass |-> 0, tries |-> 0]
  /\ gw = [op |-> "none", stage |-> "none", chunk |-> 0, active |-> FALSE,
           wait |-> FALSE, tries |-> 0, reads |-> 0, res |-> "ok", clunked |-> FALSE]
  /\ rep = <<>>
  /\ PeerQ!Init
  /\ fid = "none"
  /\ owner = "other"
  /\ image = <<>>
  /\ upgrade = FALSE
  /\ confirmed = FALSE
  /\ lost = FALSE
  /\ crowded = FALSE

HostNext ==
  \/ HostTarget \/ HostTargetDone \/ HostWrite \/ HostWriteDone
  \/ HostCommit \/ HostCtl \/ HostCtlDone

GwNext ==
  \/ GwStart \/ SendAcked \/ SendUnacked \/ SendLost \/ GwTake \/ GwTimeout

Next ==
  \/ HostNext
  \/ GwNext
  \/ PeerServe
  \/ PeerReboot
  \/ \E st \in {"version", "open"} : OtherSession(st)

(* The host, the gateway's server thread and the peer's work queue run; a    *)
(* send returns and a wait ends.                                            *)
Spec == Init /\ [][Next]_vars /\ WF_vars(HostNext) /\ WF_vars(GwNext) /\ WF_vars(PeerServe \/ PeerReboot)

-----------------------------------------------------------------------------
(* Properties *)

HostState ==
  [pc : {"target", "stream", "commit", "reboot", "confirm", "done", "failed"},
   off : 0 .. N, resume : 0 .. N, pass : 0 .. Passes, tries : 0 .. HostTries - 1]

GwState ==
  [op : {"none", "target", "write", "commit", "reboot", "confirm"},
   stage : Stage \cup {"none", "start", "ok", "err"}, chunk : 0 .. N,
   active : BOOLEAN, wait : BOOLEAN, tries : Nat, reads : {0, 1},
   res : {"ok", "err"}, clunked : BOOLEAN]

TypeOK ==
  /\ host \in HostState
  /\ gw \in GwState
  /\ gw.tries < SendTries \/ gw.tries < RpcTries
  /\ rep \in Seq([op : Stage, ok : BOOLEAN]) /\ Len(rep) <= Depth
  /\ q \in Seq(Msg) /\ Len(q) <= Ring
  /\ fid \in File \cup {"none"}
  /\ owner \in Client
  /\ image \in Seq(1 .. N)
  /\ upgrade \in BOOLEAN
  /\ confirmed \in BOOLEAN
  /\ lost \in BOOLEAN
  /\ crowded \in BOOLEAN

(* No other client has had a session on the peer, or the host has not yet    *)
(* resumed: until it does, another client's Tversion ends the session.      *)
Alone == ~crowded
Undisturbed == Alone \/ host.pass = 0

(* Whatever is lost, repeated or resumed, the peer's slot holds the first    *)
(* chunks of the image, each once and in order (OTA.md l.105: a re-sent      *)
(* chunk "is skipped, not appended twice, so the image can't shift").       *)
ImageIsPrefix == Undisturbed => \A i \in 1 .. Len(image) : image[i] = i

(* With the library OTA.md describes (l.111-113) the upgrade is requested     *)
(* only of the whole image: the clunk of commit finalizes after the writes   *)
(* have landed (push_close l.1257).                                         *)
UpgradeIsWhole == ~ResetFinalizes /\ Undisturbed /\ upgrade => Len(image) = N

(* OTA.md l.112-113: "Only an explicit commit finalizes".  With the library    *)
(* the host tool's comment describes (aether_conv.c l.387-391) it does not   *)
(* hold: the re-target of a resume requests the upgrade of the part written. *)
UpgradeNeedsCommit == upgrade => host.pc \notin {"target", "stream"}

(* Once the peer has served its ring, every chunk the host was told was      *)
(* written is in the slot (push_write: "Delivery is guaranteed by the ARQ"), *)
(* unless another client's session dropped the fid it was written through.  *)
AloneWritesLand == Alone /\ q = <<>> => Len(image) >= host.off

(* A commit whose clunk the peer answered staged the whole image.  push_close *)
(* does not look at the answer: a clunk refused by a full ring, or lost, is  *)
(* reported as success too.                                                 *)
AnsweredCommitStages == Alone /\ gw.clunked => upgrade

(* The host comes to an end, whatever happens to the mesh.                  *)
HostEnds == <>(host.pc \in {"done", "failed"})
-----------------------------------------------------------------------------
(* The inductive invariant                                                   *)

(* The gateway executes the call the host waits for, and a stage of it.       *)
CallsMatch ==
  /\ gw.op # "none" => host.pc = IF gw.op = "write" THEN "stream" ELSE gw.op
  /\ gw.op = "none" <=> gw.stage = "none"
  /\ host.pc = "commit" => gw.op = "commit"
  /\ gw.stage \in {"version", "open"} => gw.op \in {"target", "reboot", "confirm"}
  /\ gw.stage = "ctl" => gw.op \in {"reboot", "confirm"}
  /\ gw.stage = "clunk" => gw.op \in {"commit", "reboot", "confirm"}
  /\ gw.stage = "write" => gw.op = "write"
  /\ gw.wait => gw.stage \in Stage \ {"write"}
  /\ gw.op = "write" => gw.chunk = host.off + 1 /\ host.off < N
  /\ gw.stage = "write" => gw.active
  /\ gw.stage \in {"version", "open", "ctl"} => ~gw.active
  /\ host.resume <= host.off
  /\ host.pass = 0 => host.resume = 0
  /\ host.pass = 0 /\ host.pc = "target" => host.off = 0
  /\ host.pc \in {"target", "stream"} => host.pass < Passes
  /\ host.pc \in {"commit", "reboot", "confirm"} => host.off = N

(* Writes carry a chunk; a clunk or a control write is sent when the host has  *)
(* no more to stream, so no write follows it.                               *)
Closes(m) == m.op \in {"clunk", "ctl"}

RingInOrder ==
  /\ \A i \in 1 .. Len(q) : q[i].op = "write" => q[i].chunk > 0
  /\ \A i \in 1 .. Len(q) : Closes(q[i]) => host.off = N /\ host.pc \notin {"target", "stream"}
  /\ \A i, j \in 1 .. Len(q) : i < j /\ q[j].op = "write" => ~Closes(q[i])

(* The chunks up to k are in the slot, or will be once the requests before    *)
(* the i-th have been served.                                                *)
Reached(k, i) ==
  k <= Len(image) \/ \E j \in 1 .. Len(q) : j < i /\ q[j].op = "write" /\ q[j].chunk >= k

End == Len(q) + 1

(* No write leaves a gap, nor did the host go further than it wrote.          *)
Follows ==
  /\ \A i \in 1 .. Len(q) : q[i].op = "write" => Reached(q[i].chunk - 1, i)
  /\ Reached(host.off, End)
  /\ gw.op = "write" /\ gw.stage = "ok" => Reached(gw.chunk, End)

(* Until the host resumes, the stream is opened before the first write, and    *)
(* once another client took its fid no write lands.                         *)
OpensFirmware(m) == m.op = "open" /\ m.file = "firmware"
Alive == fid = "firmware" \/ \E i \in 1 .. Len(q) : OpensFirmware(q[i])

FirstPass ==
  host.pass = 0 =>
    /\ host.pc = "target" => \A i \in 1 .. Len(q) : q[i].op # "write"
    /\ \A i, j \in 1 .. Len(q) : i < j /\ q[i].op = "write" => ~OpensFirmware(q[j])
    /\ Alive => Follows

(* What the peer holds of the gateway's session when it comes to the i-th      *)
(* request: its Tversion, and fid 2 open on the firmware.                   *)
Versioned(i) ==
  owner = "gateway" \/ \E j \in 1 .. Len(q) : j < i /\ q[j].op = "version"

Ready(i) ==
  \/ fid = "firmware" /\ \A j \in 1 .. Len(q) : j < i => q[j].op # "version"
  \/ \E j \in 1 .. Len(q) :
       /\ j < i /\ q[j].op = "open" /\ Versioned(j)
       /\ \A h \in 1 .. Len(q) : j < h /\ h < i => q[h].op # "version"

Streams(m) == ~Closes(m) /\ m.file = "firmware"

(* With no other client about, every write finds the session it was sent in:   *)
(* what precedes it in the ring opens the firmware and closes nothing.       *)
WritesFindSession ==
  \A i \in 1 .. Len(q) : q[i].op = "write" =>
    /\ Ready(i)
    /\ fid \in {"none", "firmware"}
    /\ \A h \in 1 .. Len(q) : h < i => Streams(q[h])

OnFirmware ==
  host.pc \in {"target", "stream", "commit"} =>
    /\ fid \in {"none", "firmware"}
    /\ \A i \in 1 .. Len(q) : q[i].file = "firmware"
    /\ \A i \in 1 .. Len(rep) : rep[i].op = "clunk" /\ rep[i].ok => upgrade

SessionOpens ==
  /\ host.pc \in {"target", "stream"} /\ gw.active => Ready(End)
  /\ gw.op = "target" =>
       /\ gw.stage = "version" /\ gw.wait => Versioned(End)
       /\ gw.stage = "open" => Versioned(End) /\ (gw.wait => Ready(End))

AloneSession ==
  Alone =>
    /\ Follows
    /\ \A i \in 1 .. Len(q) : q[i].peer = "gateway"
    /\ WritesFindSession
    /\ OnFirmware
    /\ SessionOpens

IInv ==
  /\ TypeOK
  /\ CallsMatch
  /\ RingInOrder
  /\ FirstPass
  /\ AloneSession
  /\ ImageIsPrefix
  /\ UpgradeIsWhole
  /\ AnsweredCommitStages

=============================================================================

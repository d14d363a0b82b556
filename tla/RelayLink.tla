------------------------------- MODULE RelayLink -------------------------------
(***************************************************************************)
(* The relay's 9P session with its 9151 (src/dect_relay/src/main.c): the   *)
(* lazily attached session that all proxied files share and that heals     *)
(* itself, the link monitor, the firmware stream of dev/fw9151, reboot and *)
(* confirm, the automatic confirm of a staged image, and what a dropped    *)
(* host session does to all of them.                                       *)
(*                                                                         *)
(* Threads.  "mon" is the link monitor, "up" the server thread of a host   *)
(* that streams an image into dev/fw9151, those of Op the server threads   *)
(* of hosts that use the other files.  A call of the 9P client is one step *)
(* of its thread, other threads run between two calls; the two mutexes are *)
(* held as in the code.  "live" is the set of the relay's fids that the    *)
(* 9151's server knows: the session's root, the stream, a conversation     *)
(* held through /net/aether, and the fid each thread works with.           *)
(***************************************************************************)
EXTENDS Naturals

CONSTANTS
  N,           \* sub-writes in the image
  Batch,       \* sub-writes in a write of the host
  Op,          \* threads of hosts that use the one-shot files
  Ops,         \* what they do: of "status", "confirm", "reboot" and "conv"
  Faults,      \* what may go wrong: of "crash", "gone" and "write"
  BareAttach,  \* the 9151's server answers a Tattach before any Tversion
  NoOne        \* the owner of a free mutex

Thread == Op \cup {"mon", "up"}

ASSUME RelayAssumption ==
  /\ {N, Batch} \subseteq Nat \ {0}
  /\ Ops \subseteq {"status", "confirm", "reboot", "conv"}
  /\ Faults \subseteq {"crash", "gone", "write"}
  /\ BareAttach \in BOOLEAN
  /\ {"mon", "up", "root", "stream", "conv"} \cap Op = {}
  /\ NoOne \notin Thread

VARIABLES
  attached,   \* mesh_attached
  versioned,  \* mesh_versioned
  sess,       \* owner of mesh_sess
  wr,         \* owner of mesh_wr
  th,         \* each thread: pc, op, attempts; hit is history: something
              \* happened to the link during the operation
  live,       \* the fids the 9151's server knows
  aborted,    \* threads whose client call ninep_client_reset aborted
  pool,       \* where the session pool is in mesh_host_disconnected
  excuse,     \* history: a host session dropped since the last handshake
  writing,    \* fw9151_writing
  woff,       \* fw9151_woff
  fwd,        \* sub-writes of the host's write that went through (done)
  armed,      \* fw9151_armed
  host,       \* the streaming host: sub-writes done, and whether it closes the file
  node        \* the 9151: up, whether its server was versioned, running image,
              \* whether confirmed, chunks in the secondary slot, upgrade requested

linkVars == <<attached, versioned, sess>>
streamVars == <<writing, woff, fwd>>
poolVars == <<pool, excuse>>
vars == <<attached, versioned, sess, wr, th, live, aborted, pool, excuse,
          writing, woff, fwd, armed, host, node>>

Fid == {"root", "stream", "conv"} \cup Thread
CallPc == {"reattach", "version", "attach", "walk", "open", "body"}

-----------------------------------------------------------------------------
(* Threads and calls *)

Goto(t, pc) == th' = [th EXCEPT ![t].pc = pc]

(* Operations that a healthy 9151 must not fail.                             *)
OneShot == {"relink", "status", "confirm"}

Idle == [pc |-> "idle", op |-> "none", tries |-> 0, hit |-> FALSE]

Rest(t) == th' = [th EXCEPT ![t] = Idle]

(* The operation begins; those of the stream take mesh_wr first.            *)
Start(t, op) ==
  th' = [th EXCEPT ![t] = [pc |-> IF op \in {"write", "clunk"} THEN "wr" ELSE "sess",
                           op |-> op, tries |-> 0, hit |-> op \in OneShot /\ ~node.up]]

(* Something happens to the link.                                           *)
Marked == [t \in Thread |-> [th[t] EXCEPT !.hit = @ \/ th[t].op \in OneShot]]

(* The operation ends: mesh_wr is given up.                                 *)
Finish(t, res) ==
  /\ th' = [th EXCEPT ![t].pc = res, ![t].tries = 0]
  /\ wr' = IF wr = t THEN NoOne ELSE wr

(* A client call that the 9151 would answer with success if c.              *)
Answers(t, c) == node.up /\ c /\ t \notin aborted

(* It fails: refused, no one there, or aborted.                             *)
Fails(t, c) == ~Answers(t, c)

(* A call that fails may yet have been carried out.                         *)
MayHaveRun(t, c) == node.up /\ c /\ t \in aborted

CallOver(t) == aborted' = aborted \ {t}

-----------------------------------------------------------------------------
(* mesh_ensure_attached *)

Granted(t) == IF th[t].op = "relink" THEN "ok" ELSE "walk"

(* Mutant: every attach starts with a Tversion.                             *)
BugAlwaysVersion(t) ==
  /\ th[t].pc = "sess"
  /\ sess = NoOne
  /\ \/ /\ attached
        /\ live' = IF "root" \in live THEN live \cup {t} ELSE live \ {t}
        /\ Goto(t, Granted(t))
        /\ UNCHANGED sess
     \/ /\ ~attached
        /\ sess' = t
        /\ Goto(t, "version")
        /\ UNCHANGED live
  /\ UNCHANGED <<attached, versioned, wr, aborted, poolVars, streamVars, armed, host, node>>

(* An attached session hands out its root; otherwise the handshake is made   *)
(* under mesh_sess.                                                         *)
Ensure(t) ==
  /\ th[t].pc = "sess"
  /\ sess = NoOne
  /\ \/ /\ attached
        /\ live' = IF "root" \in live THEN live \cup {t} ELSE live \ {t}
        /\ Goto(t, Granted(t))
        /\ UNCHANGED sess
     \/ /\ ~attached
        /\ sess' = t
        /\ Goto(t, IF versioned THEN "reattach" ELSE "version")
        /\ UNCHANGED live
  /\ UNCHANGED <<attached, versioned, wr, aborted, poolVars, streamVars, armed, host, node>>

AttachOk(t) ==
  /\ attached' = TRUE
  /\ sess' = NoOne
  /\ live' = live \cup {"root", t}
  /\ excuse' = (excuse /\ pool # "idle")
  /\ Goto(t, Granted(t))
  /\ UNCHANGED <<versioned, wr>>

(* Mutant: an early return without the unlock.                              *)
BugKeepsLock(t) ==
  /\ sess' = t
  /\ Finish(t, "err")

GiveUp(t) ==
  /\ sess' = NoOne
  /\ Finish(t, "err")

Attachable == node.versioned \/ BareAttach

(* A plain Tattach first, which leaves the server's fids alone.             *)
Reattach(t) ==
  /\ th[t].pc = "reattach"
  /\ \/ /\ Answers(t, Attachable)
        /\ AttachOk(t)
     \/ /\ Fails(t, Attachable)
        /\ versioned' = FALSE
        /\ Goto(t, "version")
        /\ UNCHANGED <<attached, sess, wr, live, excuse>>
  /\ CallOver(t)
  /\ UNCHANGED <<pool, streamVars, armed, host, node>>

(* The server forgets every fid.                                            *)
ServerVersion ==
  /\ live' = {}
  /\ node' = [node EXCEPT !.versioned = TRUE]

Version(t) ==
  /\ th[t].pc = "version"
  /\ \/ /\ Answers(t, TRUE)
        /\ ServerVersion
        /\ versioned' = TRUE
        /\ Goto(t, "attach")
        /\ UNCHANGED <<sess, wr>>
     \/ /\ Fails(t, TRUE)
        /\ \/ MayHaveRun(t, TRUE) /\ ServerVersion
           \/ UNCHANGED <<live, node>>
        /\ GiveUp(t)
        /\ UNCHANGED versioned
  /\ CallOver(t)
  /\ UNCHANGED <<attached, poolVars, streamVars, armed, host>>

Attach(t) ==
  /\ th[t].pc = "attach"
  /\ \/ /\ Answers(t, Attachable)
        /\ AttachOk(t)
     \/ /\ Fails(t, Attachable)
        /\ GiveUp(t)
        /\ UNCHANGED <<attached, versioned, live, excuse>>
  /\ CallOver(t)
  /\ UNCHANGED <<pool, streamVars, armed, host, node>>

-----------------------------------------------------------------------------
(* fw9151_open_remote *)

(* The walk.                                                                *)
Walk(t) ==
  /\ th[t].pc = "walk"
  /\ \/ /\ Answers(t, t \in live)
        /\ Goto(t, "open")
        /\ UNCHANGED live
     \/ /\ Fails(t, t \in live)
        /\ Goto(t, "drop")
        /\ live' = live \ {t}
  /\ CallOver(t)
  /\ UNCHANGED <<linkVars, wr, poolVars, streamVars, armed, host, node>>

(* Mutant: a new stream goes on at the old one's offset.                     *)
BugWoffKept(t) ==
  /\ th[t].pc = "open"
  /\ \/ /\ Answers(t, t \in live)
        /\ Goto(t, "body")
        /\ writing' = (writing \/ th[t].op = "write")
        /\ live' = IF th[t].op = "write" THEN (live \cup {"stream"}) \ {t} ELSE live
        /\ UNCHANGED <<woff, fwd, wr>>
     \/ /\ Fails(t, t \in live)
        /\ Finish(t, "err")
        /\ live' = live \ {t}
        /\ UNCHANGED streamVars
  /\ CallOver(t)
  /\ UNCHANGED <<linkVars, poolVars, armed, host, node>>

(* The open, which is not tried again.  A write's stream begins here.        *)
Open(t) ==
  /\ th[t].pc = "open"
  /\ \/ /\ Answers(t, t \in live)
        /\ Goto(t, "body")
        /\ IF th[t].op = "write"
           THEN /\ writing' = TRUE
                /\ woff' = 0
                /\ live' = (live \cup {"stream"}) \ {t}
                /\ UNCHANGED fwd
           ELSE UNCHANGED <<streamVars, live>>
        /\ UNCHANGED wr
     \/ /\ Fails(t, t \in live)
        /\ Finish(t, "err")
        /\ live' = live \ {t}
        /\ UNCHANGED streamVars
  /\ CallOver(t)
  /\ UNCHANGED <<linkVars, poolVars, armed, host, node>>

(* Mutant: the first failed walk ends the operation.                        *)
BugOneAttempt(op) == 1

(* One attempt for the proxied /net/aether, two for the files.              *)
Attempts(op) == IF op = "conv" THEN 1 ELSE 2

(* The walk failed: the session is dropped, and tried once more.            *)
Drop(t) ==
  /\ th[t].pc = "drop"
  /\ sess = NoOne
  /\ attached' = FALSE
  /\ \/ /\ th[t].tries + 1 < Attempts(th[t].op)
        /\ th' = [th EXCEPT ![t].pc = "sess", ![t].tries = @ + 1]
        /\ UNCHANGED wr
     \/ /\ th[t].tries + 1 >= Attempts(th[t].op)
        /\ Finish(t, "err")
  /\ UNCHANGED <<versioned, sess, live, aborted, poolVars, streamVars, armed, host, node>>

-----------------------------------------------------------------------------
(* The one-shot files *)

(* fw9151_read, aether_state_read, mflt9151_read and their like; the monitor  *)
(* compares what it read with the staged image.                             *)
ReadBody(t) ==
  /\ th[t].pc = "body"
  /\ th[t].op = "status"
  /\ live' = live \ {t}
  /\ \/ /\ Answers(t, t \in live)
        /\ IF t # "mon"
           THEN Goto(t, "ok") /\ UNCHANGED armed
           ELSE \/ /\ ~node.confirmed /\ node.running = "new"
                   /\ Start(t, "confirm")
                   /\ UNCHANGED armed
                \/ /\ ~node.confirmed /\ node.running # "new"
                   /\ Goto(t, "ok") /\ armed' = FALSE
                \/ /\ node.confirmed
                   /\ Goto(t, "ok") /\ armed' = (armed /\ node.running # "new")
     \/ /\ Fails(t, t \in live)
        /\ Goto(t, "err")
        /\ UNCHANGED armed
  /\ CallOver(t)
  /\ UNCHANGED <<linkVars, wr, poolVars, streamVars, host, node>>

(* fw9151_confirm_write, and the automatic confirm, which disarms however    *)
(* the write went.                                                          *)
ConfirmBody(t) ==
  /\ th[t].pc = "body"
  /\ th[t].op = "confirm"
  /\ live' = live \ {t}
  /\ armed' = (armed /\ t # "mon")
  /\ \/ /\ Answers(t, t \in live)
        /\ node' = [node EXCEPT !.confirmed = TRUE]
        /\ Goto(t, "ok")
     \/ /\ Fails(t, t \in live)
        /\ \/ MayHaveRun(t, t \in live) /\ node' = [node EXCEPT !.confirmed = TRUE]
           \/ UNCHANGED node
        /\ Goto(t, "err")
  /\ CallOver(t)
  /\ UNCHANGED <<linkVars, wr, poolVars, streamVars, host>>

(* The 9151 goes down: a requested upgrade to a whole image is swapped in,   *)
(* an unconfirmed image is reverted, the server starts anew.                *)
GoDown ==
  /\ node' =
       [node EXCEPT
          !.up = FALSE, !.versioned = FALSE, !.slot = 0, !.upgrade = FALSE,
          !.running = IF node.upgrade /\ node.slot = N THEN "new"
                      ELSE IF ~node.confirmed THEN "old" ELSE @,
          !.confirmed = ~(node.upgrade /\ node.slot = N)]
  /\ live' = {}

(* fw9151_reboot_write: sent or not, it is taken for a success.             *)
RebootBody(t) ==
  /\ th[t].pc = "body"
  /\ th[t].op = "reboot"
  /\ \/ /\ Answers(t, t \in live) \/ MayHaveRun(t, t \in live)
        /\ GoDown
        /\ th' = [Marked EXCEPT ![t].pc = "forget"]
     \/ /\ Fails(t, t \in live)
        /\ live' = live \ {t}
        /\ Goto(t, "forget")
        /\ UNCHANGED node
  /\ CallOver(t)
  /\ UNCHANGED <<linkVars, wr, poolVars, streamVars, armed, host>>

Forget(t) ==
  /\ th[t].pc = "forget"
  /\ sess = NoOne
  /\ attached' = FALSE
  /\ Finish(t, "ok")
  /\ UNCHANGED <<versioned, sess, live, aborted, poolVars, streamVars, armed, host, node>>

(* A conversation is opened through the proxied /net/aether and held.       *)
ConvBody(t) ==
  /\ th[t].pc = "body"
  /\ th[t].op = "conv"
  /\ live' = IF t \in live THEN (live \ {t}) \cup {"conv"} ELSE live
  /\ Goto(t, "ok")
  /\ CallOver(t)
  /\ UNCHANGED <<linkVars, wr, poolVars, streamVars, armed, host, node>>

-----------------------------------------------------------------------------
(* dev/fw9151 *)

(* fw9151_write opens the remote file when no stream is open; fw9151_clunk   *)
(* does nothing then.                                                       *)
TakeWr(t) ==
  /\ th[t].pc = "wr"
  /\ wr = NoOne
  /\ \/ /\ writing
        /\ wr' = t
        /\ Goto(t, "body")
     \/ /\ ~writing /\ th[t].op = "write"
        /\ wr' = t
        /\ Goto(t, "sess")
     \/ /\ ~writing /\ th[t].op = "clunk"
        /\ Finish(t, "ok")
  /\ UNCHANGED <<linkVars, live, aborted, poolVars, streamVars, armed, host, node>>

(* ninep_dfu on the 9151, by offset.                                        *)
Flashed(k) == IF k = node.slot + 1 THEN k ELSE node.slot

(* The host's write in sub-writes.                                           *)
Smaller(a, b) == IF a < b THEN a ELSE b
Wanted == Smaller(Batch, N - host.off)

(* A write or clunk of the stream may be refused, or its reply not come in    *)
(* time, though the 9151 knows the fid.                                      *)
MayFail(t) == "write" \in Faults \/ Fails(t, "stream" \in live)

(* What a call of the stream that failed may have left: done, if it came to   *)
(* the server, or not.                                                       *)
Outcome(t) == IF "write" \in Faults \/ t \in aborted THEN BOOLEAN ELSE {TRUE}

(* The clunk of the 9151's dev/firmware, if it comes through, requests the    *)
(* upgrade.  The relay never uses the fid again either way.                  *)
ServerClunk(through, slot) ==
  /\ live' = live \ {"stream"}
  /\ node' = [node EXCEPT !.slot = slot,
                          !.upgrade = @ \/ (through /\ "stream" \in live /\ node.up)]

(* A sub-write at the relay's own offset; the loop ends with the host's write *)
(* or with a short sub-write, whose progress is reported.                    *)
SubWrite(t) ==
  /\ Answers(t, "stream" \in live)
  /\ node' = [node EXCEPT !.slot = Flashed(woff + fwd + 1)]
  /\ fwd' = fwd + 1
  /\ \/ /\ fwd + 1 < Wanted
        /\ UNCHANGED <<woff, th, wr>>
     \/ /\ woff' = woff + fwd + 1
        /\ Finish(t, "ok")
  /\ UNCHANGED <<live, writing>>

(* A sub-write failed, whether or not it was carried out: the stream is       *)
(* closed, which requests the upgrade of what there is if the 9151 knows the *)
(* fid, and nobody looks whether the clunk came through.                     *)
StreamFails(t, res) ==
  /\ MayFail(t)
  /\ \E landed, through \in Outcome(t) :
       ServerClunk(through, IF landed /\ node.up /\ "stream" \in live
                            THEN Flashed(woff + fwd + 1) ELSE node.slot)
  /\ writing' = FALSE
  /\ Finish(t, res)
  /\ UNCHANGED woff

(* Mutant: a failed write closes the stream and is reported as done.        *)
BugErrorSwallowed(t) ==
  /\ th[t].pc = "body"
  /\ th[t].op = "write"
  /\ \/ SubWrite(t)
     \/ StreamFails(t, "ok") /\ fwd' = Wanted
  /\ CallOver(t)
  /\ UNCHANGED <<linkVars, poolVars, armed, host>>

WriteBody(t) ==
  /\ th[t].pc = "body"
  /\ th[t].op = "write"
  /\ \/ SubWrite(t)
     \/ StreamFails(t, "err") /\ fwd' = 0
  /\ CallOver(t)
  /\ UNCHANGED <<linkVars, poolVars, armed, host>>

ClunkBody(t) ==
  /\ th[t].pc = "body"
  /\ th[t].op = "clunk"
  /\ \/ /\ Answers(t, "stream" \in live)
        /\ ServerClunk(TRUE, node.slot)
        /\ Finish(t, "ok")
     \/ /\ MayFail(t)
        /\ \E through \in Outcome(t) : ServerClunk(through, node.slot)
        /\ Finish(t, "err")
  /\ writing' = FALSE
  /\ armed' = TRUE
  /\ CallOver(t)
  /\ UNCHANGED <<linkVars, poolVars, woff, fwd, host>>

-----------------------------------------------------------------------------
(* Link monitor *)

(* Mutant: it probes only a link that had been versioned.                   *)
BugProbesOnlyVersioned ==
  /\ th["mon"].pc = "idle"
  /\ sess = NoOne
  /\ ~attached
  /\ versioned
  /\ Start("mon", "relink")
  /\ UNCHANGED <<linkVars, wr, live, aborted, poolVars, streamVars, armed, host, node>>

(* It probes only a link that is down.                                      *)
MonPoll ==
  /\ th["mon"].pc = "idle"
  /\ sess = NoOne
  /\ ~attached
  /\ Start("mon", "relink")
  /\ UNCHANGED <<linkVars, wr, live, aborted, poolVars, streamVars, armed, host, node>>

(* After a relink of its own, with an image staged, it looks at the 9151.   *)
MonReturn ==
  /\ \/ /\ th["mon"].pc = "ok" /\ th["mon"].op = "relink" /\ armed
        /\ Start("mon", "status")
     \/ /\ \/ th["mon"].pc = "err"
           \/ th["mon"].pc = "ok" /\ ~(th["mon"].op = "relink" /\ armed)
        /\ Rest("mon")
  /\ live' = live \ {"mon"}
  /\ UNCHANGED <<linkVars, wr, aborted, poolVars, streamVars, armed, host, node>>

-----------------------------------------------------------------------------
(* Hosts *)

OpStart(t, op) ==
  /\ t \in Op
  /\ th[t].pc = "idle"
  /\ Start(t, op)
  /\ UNCHANGED <<linkVars, wr, live, aborted, poolVars, streamVars, armed, host, node>>

OpReturn(t) ==
  /\ t \in Op
  /\ th[t].pc \in {"ok", "err"}
  /\ Rest(t)
  /\ UNCHANGED <<linkVars, wr, live, aborted, poolVars, streamVars, armed, host, node>>

ConvClose ==
  /\ "conv" \in live
  /\ live' = live \ {"conv"}
  /\ UNCHANGED <<linkVars, wr, th, aborted, poolVars, streamVars, armed, host, node>>

(* One update at a time: the host writes the image from its start, closes    *)
(* the file at the first error or at the end, and reboots the 9151 when it  *)
(* got through.                                                             *)
UpStart ==
  /\ th["up"].pc = "idle"
  /\ Start("up", IF host.done THEN "reboot"
                 ELSE IF host.closing \/ host.off = N THEN "clunk" ELSE "write")
  /\ UNCHANGED <<linkVars, wr, live, aborted, poolVars, streamVars, armed, host, node>>

UpReturn ==
  /\ th["up"].pc \in {"ok", "err"}
  /\ host' =
       IF th["up"].op = "clunk"
       THEN [off |-> 0, closing |-> FALSE,
             done |-> host.off = N /\ ~host.closing /\ th["up"].pc = "ok"]
       ELSE IF th["up"].op = "reboot" THEN [host EXCEPT !.done = FALSE]
       ELSE IF th["up"].pc = "ok" THEN [host EXCEPT !.off = @ + fwd]
       ELSE [host EXCEPT !.closing = TRUE]
  /\ fwd' = 0
  /\ Rest("up")
  /\ UNCHANGED <<linkVars, wr, live, aborted, poolVars, writing, woff, armed, node>>

(* mesh_host_disconnected: the client is reset, which aborts every call of   *)
(* every session, then the link is to be versioned again.  The files of the *)
(* session that dropped, perhaps the upload, are closed after that.         *)
HostGone ==
  /\ "gone" \in Faults
  /\ pool = "idle"
  /\ pool' = "reset"
  /\ excuse' = TRUE
  /\ aborted' = {t \in Thread : th[t].pc \in CallPc}
  /\ th' = Marked
  /\ \/ host' = [host EXCEPT !.closing = ~host.done]
     \/ UNCHANGED host
  /\ UNCHANGED <<linkVars, wr, live, streamVars, armed, node>>

HostForgotten ==
  /\ pool = "reset"
  /\ sess = NoOne
  /\ attached' = FALSE
  /\ versioned' = FALSE
  /\ pool' = "idle"
  /\ th' = Marked
  /\ UNCHANGED <<sess, wr, live, aborted, excuse, streamVars, armed, host, node>>

-----------------------------------------------------------------------------
(* 9151 *)

NodeCrash ==
  /\ "crash" \in Faults
  /\ node.up
  /\ GoDown
  /\ th' = Marked
  /\ UNCHANGED <<linkVars, wr, aborted, poolVars, streamVars, armed, host>>

NodeBoot ==
  /\ ~node.up
  /\ node' = [node EXCEPT !.up = TRUE]
  /\ UNCHANGED <<linkVars, wr, th, live, aborted, poolVars, streamVars, armed, host>>

-----------------------------------------------------------------------------
Init ==
  /\ attached = FALSE
  /\ versioned = FALSE
  /\ sess = NoOne
  /\ wr = NoOne
  /\ th = [t \in Thread |-> Idle]
  /\ live = {}
  /\ aborted = {}
  /\ pool = "idle"
  /\ excuse = FALSE
  /\ writing = FALSE
  /\ woff = 0
  /\ fwd = 0
  /\ armed = FALSE
  /\ host = [off |-> 0, closing |-> FALSE, done |-> FALSE]
  /\ node = [up |-> FALSE, versioned |-> FALSE, running |-> "old", confirmed |-> TRUE,
             slot |-> 0, upgrade |-> FALSE]

(* The steps of a thread once it has an operation.                          *)
Step(t) ==
  \/ Ensure(t) \/ Reattach(t) \/ Version(t) \/ Attach(t) \/ Walk(t) \/ Open(t) \/ Drop(t)
  \/ ReadBody(t) \/ ConfirmBody(t) \/ RebootBody(t) \/ Forget(t) \/ ConvBody(t)
  \/ TakeWr(t) \/ WriteBody(t) \/ ClunkBody(t)

Next ==
  \/ \E t \in Thread : Step(t)
  \/ MonPoll \/ MonReturn
  \/ \E t \in Op, op \in Ops : OpStart(t, op)
  \/ \E t \in Op : OpReturn(t)
  \/ ConvClose
  \/ UpStart \/ UpReturn
  \/ HostGone \/ HostForgotten
  \/ NodeCrash \/ NodeBoot

(* Threads run, calls return or time out, and the mutexes are handed to their *)
(* waiters, so no thread waits for ever while others come and go (SF).  The *)
(* monitor polls; the 9151 boots; nothing makes a host act.                 *)
Fairness ==
  /\ SF_vars(Step("mon") \/ MonPoll \/ MonReturn)
  /\ SF_vars(Step("up") \/ UpReturn)
  /\ \A t \in Op : SF_vars(Step(t) \/ OpReturn(t))
  /\ SF_vars(HostForgotten)
  /\ WF_vars(NodeBoot)

Spec == Init /\ [][Next]_vars /\ Fairness

-----------------------------------------------------------------------------
(* Properties *)

Pc == CallPc \cup {"idle", "wr", "sess", "drop", "forget", "ok", "err"}
OpName == {"none", "relink", "status", "confirm", "reboot", "conv", "write", "clunk"}
ThreadState == [pc : Pc, op : OpName, tries : {0, 1}, hit : BOOLEAN]

TypeOK ==
  /\ attached \in BOOLEAN
  /\ versioned \in BOOLEAN
  /\ sess \in Thread \cup {NoOne}
  /\ wr \in Thread \cup {NoOne}
  /\ th \in [Thread -> ThreadState]
  /\ live \subseteq Fid
  /\ aborted \subseteq Thread
  /\ pool \in {"idle", "reset"}
  /\ excuse \in BOOLEAN
  /\ writing \in BOOLEAN
  /\ woff \in 0 .. N
  /\ fwd \in 0 .. Batch
  /\ armed \in BOOLEAN
  /\ host \in [off : 0 .. N, closing : BOOLEAN, done : BOOLEAN]
  /\ node \in [up : BOOLEAN, versioned : BOOLEAN, running : {"old", "new"},
               confirmed : BOOLEAN, slot : 0 .. N, upgrade : BOOLEAN]

(* A stale session never costs a host its operation: while the 9151 is there *)
(* and nothing happens to the link, a one-shot operation succeeds, whatever *)
(* state of the session it starts from and whoever re-attaches meanwhile    *)
(* (fw9151_open_remote: "a sticky mesh_attached would wedge /dev/fw9151     *)
(* forever").                                                               *)
OpHeals ==
  \A t \in Thread :
    th[t].pc = "err" /\ th[t].op \in OneShot => th[t].hit

(* Attaching again never drops a conversation: the server forgets one only   *)
(* because the 9151 went down, a host session dropped, or it was closed     *)
(* ("non-destructive re-attach", mesh_ensure_attached l.555).               *)
LiveSessionKept ==
  [][("conv" \in live /\ "conv" \notin live')
       => ~node'.up \/ excuse \/ ConvClose]_vars

(* An upload the host was told is complete, every write and the close of the *)
(* file a success, is whole: the upgrade that awaits its reboot is of the    *)
(* whole image, whatever was refused, timed out, was aborted for another's   *)
(* sake, stopped short or was lost in a restart on the way (fw9151_write     *)
(* re-opens the stream at offset 0 while the host goes on where it was).     *)
CompletedIsWhole == host.done /\ node.upgrade => node.slot = N

(* The 9151 is asked to upgrade to a part of the image by nothing but the     *)
(* two paths on which the code does so: the clunk of l.1065 after a sub-write*)
(* failed on a stream the 9151 still knows, and a host that closes the file  *)
(* early; never by the close of an upload that got through, over restarts,   *)
(* re-opened streams, short writes and calls aborted for another's sake.     *)
UpgradeIsWhole ==
  [][~node.upgrade /\ node'.upgrade
       => \/ node'.slot = N
          \/ host.closing
          \/ th["up"].op = "write" /\ th'["up"].pc = "err"]_vars

(* A link known to be down comes up again by itself while the 9151 is there  *)
(* (mesh_link_monitor_fn); one that only is stale waits for an operation.   *)
LinkHeals == []<>(attached \/ ~node.up \/ pool = "reset")

(* Every operation of a host returns, whatever the other threads hold and    *)
(* whichever session drops.                                                 *)
OpsReturn == \A t \in Thread \ {"mon"} : th[t].pc # "idle" ~> th[t].pc = "idle"

(* An image that was staged and runs, on a 9151 that answers, is confirmed   *)
(* ("the relay watches the new version boot, verifies it's healthy, and     *)
(* auto-confirms it", doc/OTA.md l.16).                                     *)
AutoConfirms ==
  (armed /\ node.up /\ node.running = "new") ~> (node.confirmed \/ ~node.up)

-----------------------------------------------------------------------------
(* The inductive invariant                                                   *)

Handshake == {"reattach", "version", "attach"}

(* mesh_sess is held through the handshake and nowhere else; an attached      *)
(* session has been versioned, and none is attached during a handshake.     *)
SessionLocked ==
  /\ \A t \in Thread : sess = t <=> th[t].pc \in Handshake
  /\ \A t \in Thread :
       /\ th[t].pc \in {"reattach", "attach"} => versioned
       /\ th[t].pc = "version" => ~versioned
  /\ sess # NoOne => ~attached
  /\ attached => versioned

(* The 9151's server knows fids only while it is up and can be attached to;   *)
(* the link that has fids is versioned, until a host session drops.         *)
FidsAreServed ==
  /\ live # {} => node.up /\ Attachable
  /\ live # {} => versioned \/ excuse

(* A host session that dropped is excused until the session is attached       *)
(* again, and has aborted only calls that were being made then.             *)
DropIsExcused ==
  /\ pool = "reset" => excuse
  /\ \A t \in Thread : t \in aborted => th[t].pc \in CallPc
  /\ \A t \in Thread : t \in aborted /\ sess = t => excuse

(* A one-shot operation to which nothing has happened.                       *)
Untouched(t) == th[t].op \in OneShot /\ ~th[t].hit

(* It finds the 9151 up, has not failed, and from its second attempt on works  *)
(* with a fid the 9151 knows; no aborted handshake runs meanwhile.          *)
HealsFrom(t) ==
  /\ node.up
  /\ t \notin aborted
  /\ th[t].pc # "err"
  /\ th[t].pc = "attach" => Attachable
  /\ th[t].pc = "drop" => th[t].tries = 0
  /\ th[t].pc = "sess" /\ th[t].tries = 1 /\ attached => "root" \in live
  /\ th[t].pc \in {"open", "body"} => t \in live
  /\ th[t].pc = "walk" /\ th[t].tries = 1 => t \in live
  /\ th[t].pc \in {"walk", "open", "body"} /\ t \in live => versioned
  /\ sess \in aborted => th[t].pc = "sess"

Healing == \A t \in Thread : Untouched(t) => HealsFrom(t)

(* Only the streaming host writes and closes the stream.                     *)
StreamIsUps ==
  \A t \in Thread :
    /\ th[t].op \in {"write", "clunk"} => t = "up"
    /\ th[t].pc = "wr" => th[t].op \in {"write", "clunk"}
    /\ th[t].op = "clunk" => th[t].pc \in {"wr", "body", "ok", "err"}
    /\ th[t].op = "write" => th[t].pc # "forget"

Over == th["up"].pc \in {"ok", "err"}

(* The relay's offset is the host's; the host is at the start of the image     *)
(* unless a stream is open or it is to close one that failed.               *)
OffsetsAgree ==
  LET op == th["up"].op
      pc == th["up"].pc IN
  /\ op \in {"write", "clunk", "reboot"} \/ (op = "none" /\ pc = "idle")
  /\ op = "write" /\ pc = "ok" => writing /\ woff = host.off + fwd
  /\ op = "write" /\ pc = "body" => fwd < Wanted
  /\ fwd # 0 => op = "write" /\ pc \in {"body", "ok"}
  /\ fwd <= Wanted
  /\ writing /\ ~(op = "write" /\ pc = "ok") => woff = host.off
  /\ op = "write" => host.off < N
  /\ op = "write" /\ pc = "body" => writing
  /\ op = "write" /\ pc \in {"sess", "walk", "open", "drop", "err"} \cup Handshake => ~writing
  /\ op = "clunk" /\ Over => ~writing
  /\ op = "clunk" => host.closing \/ host.off = N
  /\ ~writing /\ (op = "write" \/ ~host.closing) /\ ~(op \in {"write", "clunk"} /\ Over)
       => host.off = 0
  /\ host.done => host.off = 0 /\ op \notin {"write", "clunk"}

(* What the host has written, the sub-writes that went through included, is   *)
(* in the slot while the 9151 knows the stream's fid.                        *)
StreamInSlot == "stream" \in live => writing /\ node.slot >= host.off + fwd

(* The host's upload got through, or its clunk just did.                      *)
GotThrough ==
  \/ host.done
  \/ th["up"].op = "clunk" /\ th["up"].pc = "ok" /\ host.off = N /\ ~host.closing

ClosedIsWhole == GotThrough /\ node.upgrade => node.slot = N

IInv ==
  /\ TypeOK
  /\ SessionLocked
  /\ FidsAreServed
  /\ DropIsExcused
  /\ Healing
  /\ StreamIsUps
  /\ OffsetsAgree
  /\ StreamInSlot
  /\ ClosedIsWhole
=============================================================================

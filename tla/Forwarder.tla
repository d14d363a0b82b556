------------------------------- MODULE Forwarder -------------------------------
(***************************************************************************)
(* The Memfault forwarder src/tools/aether_forwarder.c: one process that    *)
(* owns the gateway's serial port, speaks 9P over it with a deadline on     *)
(* every call, reads dev/mflt5340, dev/mflt9151 and dev/mflt_mesh in every   *)
(* cycle and posts each chunk it finds to Memfault under the serial that    *)
(* its DEV: line names.  Reading the files takes the chunks away.           *)
(*                                                                         *)
(* The gateway's side is its 9P server, which answers one request after the *)
(* other, and what dect_relay's handlers return; how the mesh fills         *)
(* dev/mflt_mesh is MeshDrain's subject.                                    *)
(***************************************************************************)
EXTENDS Naturals, SequencesExt, FiniteSetsExt, BagsExt

CONSTANTS
  Source,    \* the devices whose chunks each of the three files tells
  Chunks,    \* bound: chunks each device makes
  Batch,     \* chunks of one reply
  Cap,       \* chunks that fit the forwarder's buffer
  MaxReads,  \* reads of one visit of a file: 8
  MaxLate,   \* bound: replies that come after their deadline
  MaxFaults  \* bound: everything else that goes wrong

File == 1 .. 3
Mesh == 3
Dev == UNION {Source[f] : f \in File}

ASSUME ForwarderAssumption ==
  /\ Source \in [File -> SUBSET (Nat \ {0})]
  /\ \A f, g \in File : f # g => Source[f] \cap Source[g] = {}
  /\ Chunks \in [Dev -> Nat]
  /\ {Batch, Cap, MaxReads} \subseteq Nat \ {0}
  /\ {MaxLate, MaxFaults} \subseteq Nat

VARIABLES
  t,       \* the forwarder: where it is, the call it makes, its file, buffer
  stop,    \* g_stop
  port,    \* the gateway's port is there
  req,     \* requests the gateway has not answered
  rep,     \* replies the forwarder has not read
  fids,    \* the gateway's fid table: the root is attached, the file of FID_FILE
  made,    \* chunks each device has made
  next,    \* each device's next chunk: the packetizers
  posted,  \* history: what Memfault got, <<serial, device, number>> each
  late,    \* history: replies that came after their deadline
  fails,   \* history: chunks that were read and are gone: a post failed, a text was cut
  breaks   \* history: ports that dropped, frames that were torn, reads that failed,
           \* attempts to open the port before the gateway has answered

gateway == <<req, rep, fids, made, next>>
counts == <<late, fails, breaks>>
vars == <<t, stop, port, gateway, posted, counts>>

Op == {"version", "attach", "walk", "open", "read", "clunk", "bye"}
Token == [k : {"DEV", "MC", "cut"}, dev : Dev, i : Nat]
NoFids == [root |-> FALSE, file |-> 0, open |-> FALSE]

MayFail == fails + breaks < MaxFaults

-----------------------------------------------------------------------------
(* The forwarder: what a call's outcome leads to.  The outcome is the reply's *)
(* type, "timeout" (RC_TIMEOUT) or "err" (RC_ERR); replies are not matched    *)
(* with their requests.                                                      *)

(* A wrong Down: a call that failed ends the cycle and nothing else.          *)
BugDown == [t EXCEPT !.at = "sleep"]

Down == [at |-> "down", op |-> "version", file |-> 1, reads |-> 0, res |-> "ok",
         buf |-> t.buf, pos |-> 1, serial |-> 0, live |-> FALSE]

Ask(op) == [t EXCEPT !.at = "send", !.op = op]

Visit(f) == [Ask("walk") EXCEPT !.file = f, !.reads = 0, !.res = "ok"]

NextFile == IF t.file = Mesh THEN [t EXCEPT !.at = "sleep"] ELSE Visit(t.file + 1)

Parse == [t EXCEPT !.at = "post", !.pos = 1, !.serial = 0]

(* A wrong AfterReads: what was read is posted when nothing was read, too.    *)
BugAfterReads == IF t.res = "err" THEN Down ELSE Parse

(* read_file and read_drain return: RC_ERR ends the cycle, bytes are           *)
(* forwarded, anything else leaves the file for this cycle.                   *)
AfterReads ==
  IF t.res = "err" THEN Down
  ELSE IF t.reads > 0 THEN Parse ELSE NextFile

Chunk(tok) == tok.k = "MC"

(* do_read returned.  dev/mflt_mesh is read once, the others until they are   *)
(* empty, the buffer is full or eight reads are made.                        *)
AfterRead(out, toks) ==
  LET some == out = "read" /\ toks # <<>>
      buf == IF t.reads = 0 THEN toks ELSE t.buf \o toks
      done == [Ask("clunk") EXCEPT
                 !.res = IF out = "err" \/ (t.file = Mesh /\ out = "timeout") THEN out ELSE "ok",
                 !.buf = IF out \in {"err", "timeout"} \/ t.reads > 0 THEN @ ELSE <<>>]
  IN  IF ~some THEN done
      ELSE LET more == [t EXCEPT !.buf = buf, !.reads = @ + 1] IN
           IF t.file # Mesh /\ more.reads < MaxReads /\ Len(SelectSeq(buf, Chunk)) < Cap
           THEN [more EXCEPT !.at = "send"]
           ELSE [more EXCEPT !.at = "send", !.op = "clunk"]

Result(out, toks) ==
  CASE t.op = "version" -> IF out = "version" THEN Ask("attach") ELSE Down
    [] t.op = "attach" -> IF out = "attach" THEN Visit(1) ELSE Down
    [] t.op = "walk" -> IF out = "walk" THEN Ask("open") ELSE IF out = "err" THEN Down ELSE NextFile
    [] t.op = "open" -> IF out = "open" THEN Ask("read") ELSE Ask("clunk")
    [] t.op = "read" -> AfterRead(out, toks)
    [] t.op = "clunk" -> AfterReads
    [] t.op = "bye" -> [Down EXCEPT !.at = "stopped"]

-----------------------------------------------------------------------------
(* rpc_to                                                                    *)

Send ==
  /\ t.at = "send"
  /\ \/ /\ t.live
        /\ LET room == IF t.op = "read" /\ t.reads > 0 THEN Cap - Len(SelectSeq(t.buf, Chunk)) ELSE Cap
           IN  req' = Append(req, [op |-> t.op, file |-> t.file, room |-> room])
        /\ t' = [t EXCEPT !.at = "wait"]
     \/ /\ ~t.live
        /\ t' = Result("err", <<>>)
        /\ UNCHANGED req
  /\ UNCHANGED <<stop, port, rep, fids, made, next, posted, counts>>

(* The reply is read, or what is left of one that was cut by a deadline: its  *)
(* bytes make no size, and stay.                                             *)
Receive ==
  /\ t.at = "wait"
  /\ \/ /\ ~t.live
        /\ t' = Result("err", <<>>)
        /\ UNCHANGED rep
     \/ /\ t.live /\ rep # <<>>
        /\ IF Head(rep).type = "torn"
           THEN t' = Result("err", <<>>) /\ UNCHANGED rep
           ELSE t' = Result(Head(rep).type, Head(rep).toks) /\ rep' = Tail(rep)
  /\ UNCHANGED <<stop, port, req, fids, made, next, posted, counts>>

(* The deadline is over: nothing of the reply came, and all of it will come    *)
(* later.                                                                    *)
Late ==
  /\ t.at = "wait" /\ t.live /\ rep = <<>>
  /\ late < MaxLate
  /\ late' = late + 1
  /\ t' = Result("timeout", <<>>)
  /\ UNCHANGED <<stop, port, gateway, posted, fails, breaks>>

(* The deadline is over within the reply.                                    *)
Torn ==
  /\ t.at = "wait" /\ t.live /\ rep # <<>>
  /\ Head(rep).type # "torn"
  /\ MayFail
  /\ breaks' = breaks + 1
  /\ rep' = <<[type |-> "torn", toks |-> <<>>]>> \o Tail(rep)
  /\ t' = Result("timeout", <<>>)
  /\ UNCHANGED <<stop, port, req, fids, made, next, posted, late, fails>>

-----------------------------------------------------------------------------
(* main                                                                      *)

(* open_serial: tcflush drops what came meanwhile.  An attempt that is made     *)
(* every two seconds mostly finds all that was asked before answered.         *)
Open ==
  /\ t.at = "down" /\ ~stop
  /\ port
  /\ req = <<>> \/ MayFail
  /\ breaks' = IF req = <<>> THEN breaks ELSE breaks + 1
  /\ rep' = <<>>
  /\ t' = [Ask("version") EXCEPT !.live = TRUE]
  /\ UNCHANGED <<stop, port, req, fids, made, next, posted, late, fails>>

Wake ==
  /\ t.at = "sleep" /\ ~stop
  /\ t' = Visit(1)
  /\ UNCHANGED <<stop, port, gateway, posted, counts>>

(* A wrong Leave: the wait for the port does not look at g_stop.              *)
BugLeave ==
  /\ stop
  /\ t.at = "sleep" /\ t' = Ask("bye")
  /\ UNCHANGED <<stop, port, gateway, posted, counts>>

(* g_stop is seen between two cycles.                                        *)
Leave ==
  /\ stop
  /\ \/ t.at = "down" /\ t' = [t EXCEPT !.at = "stopped"]
     \/ t.at = "sleep" /\ t' = Ask("bye")
  /\ UNCHANGED <<stop, port, gateway, posted, counts>>

(* A wrong Skipped: a post that fails ends the stream.                        *)
BugSkipped == [t EXCEPT !.pos = Len(t.buf) + 1]

(* Another: the token behind it is skipped, too.                             *)
BugSkipsNext == [t EXCEPT !.pos = @ + 2]

Skipped == [t EXCEPT !.pos = @ + 1]

Posted(tok) == posted (+) SetToBag({<<t.serial, tok.dev, tok.i>>})

(* forward_stream, one token: a serial, a chunk that is posted (or the post   *)
(* fails and it is dropped), or a last chunk whose end is missing.            *)
Forward ==
  /\ t.at = "post"
  /\ IF t.pos > Len(t.buf) \/ t.buf[t.pos].k = "cut"
     THEN /\ t' = [NextFile EXCEPT !.pos = 1, !.serial = 0]
          /\ UNCHANGED <<posted, fails>>
     ELSE LET tok == t.buf[t.pos] IN
          \/ /\ tok.k = "DEV"
             /\ t' = [t EXCEPT !.serial = tok.dev, !.pos = @ + 1]
             /\ UNCHANGED <<posted, fails>>
          \/ /\ Chunk(tok)
             /\ t' = [t EXCEPT !.pos = @ + 1]
             /\ posted' = IF t.serial = 0 THEN posted ELSE Posted(tok)
             /\ UNCHANGED fails
          \/ /\ Chunk(tok) /\ t.serial # 0
             /\ MayFail
             /\ t' = Skipped
             /\ fails' = fails + 1
             /\ UNCHANGED posted
  /\ UNCHANGED <<stop, port, gateway, late, breaks>>

Signal ==
  /\ ~stop
  /\ stop' = TRUE
  /\ UNCHANGED <<t, port, gateway, posted, counts>>

-----------------------------------------------------------------------------
(* The gateway                                                               *)

Make(d) ==
  /\ made[d] < Chunks[d]
  /\ made' = [made EXCEPT ![d] = @ + 1]
  /\ UNCHANGED <<t, stop, port, req, rep, fids, next, posted, counts>>

Pending(d) == made[d] - next[d]

(* A device's part of a reply: its DEV: line and chunks.                     *)
Part(d, n) ==
  IF n = 0 THEN <<>>
  ELSE <<[k |-> "DEV", dev |-> d, i |-> 0]>>
       \o [j \in 1 .. n |-> [k |-> "MC", dev |-> d, i |-> next[d] + j - 1]]

Parts(n) == FoldLeft(LAMBDA a, d : a \o Part(d, n[d]), <<>>, SetToSortSeq(DOMAIN n, <))

(* What one read may take: of the gateway's own two chips as much as is there  *)
(* and fits, of each neighbour a batch or nothing.                           *)
Taking(f, room) ==
  {n \in [Source[f] -> 0 .. Batch] :
     /\ \A d \in Source[f] : n[d] <= Pending(d)
     /\ MapThenSumSet(LAMBDA d : n[d], Source[f]) <= room
     /\ f # Mesh => \A d \in Source[f] : n[d] \in {Batch, Pending(d), room}}

Answer(type, toks) == rep' = Append(rep, [type |-> type, toks |-> toks])

CutLast(toks) == [toks EXCEPT ![Len(toks)].k = "cut"]

(* The handlers behind a Tread: mflt5340_read, mflt9151_read, mflt_mesh_read.  *)
(* The last two ask the 9151 and fail when it does not answer, with its       *)
(* chunks taken or not; a neighbour's last chunk may not fit.                 *)
ServeRead(f, room) ==
  \E n \in Taking(f, room) :
    LET toks == Parts(n)
        took == next' = [d \in Dev |-> next[d] + IF d \in Source[f] THEN n[d] ELSE 0]
    IN  \/ Answer("read", toks) /\ took /\ UNCHANGED <<fails, breaks>>
        \/ /\ f = Mesh /\ toks # <<>> /\ MayFail
           /\ Answer("read", CutLast(toks)) /\ took
           /\ fails' = fails + 1 /\ UNCHANGED breaks
        \/ /\ f # 1 /\ MayFail
           /\ Answer("error", <<>>)
           /\ took \/ UNCHANGED next
           /\ breaks' = breaks + 1 /\ UNCHANGED fails

(* One request, in order.  Tversion drops the fids; a fid in use cannot be    *)
(* walked to, nor read unless it is open.                                    *)
Serve ==
  /\ req # <<>>
  /\ req' = Tail(req)
  /\ LET m == Head(req)
         Refuse == Answer("error", <<>>) /\ UNCHANGED <<fids, next, fails, breaks>>
         Grant(table) == Answer(m.op, <<>>) /\ fids' = table /\ UNCHANGED <<next, fails, breaks>>
     IN  CASE m.op = "version" -> Grant(NoFids)
           [] m.op = "attach" -> IF fids.root THEN Refuse ELSE Grant([fids EXCEPT !.root = TRUE])
           [] m.op = "walk" -> IF fids.root /\ fids.file = 0
                               THEN Grant([fids EXCEPT !.file = m.file]) ELSE Refuse
           [] m.op = "open" -> IF fids.file # 0 THEN Grant([fids EXCEPT !.open = TRUE]) ELSE Refuse
           [] m.op = "read" -> IF fids.open THEN ServeRead(fids.file, m.room) /\ UNCHANGED fids
                               ELSE Refuse
           [] m.op = "clunk" -> IF fids.file # 0
                                THEN Grant([fids EXCEPT !.file = 0, !.open = FALSE]) ELSE Refuse
           [] m.op = "bye" -> Grant([fids EXCEPT !.root = FALSE])
  /\ UNCHANGED <<t, stop, port, made, posted, late>>

(* The gateway is unplugged or resets; its chunks are retained.               *)
Drop ==
  /\ port /\ MayFail
  /\ port' = FALSE
  /\ t' = [t EXCEPT !.live = FALSE]
  /\ req' = <<>> /\ rep' = <<>> /\ fids' = NoFids
  /\ breaks' = breaks + 1
  /\ UNCHANGED <<stop, made, next, posted, late, fails>>

Plug ==
  /\ ~port
  /\ port' = TRUE
  /\ UNCHANGED <<t, stop, gateway, posted, counts>>

-----------------------------------------------------------------------------

Init ==
  /\ t = [at |-> "down", op |-> "version", file |-> 1, reads |-> 0, res |-> "ok",
          buf |-> <<>>, pos |-> 1, serial |-> 0, live |-> FALSE]
  /\ stop = FALSE
  /\ port = TRUE
  /\ req = <<>> /\ rep = <<>> /\ fids = NoFids
  /\ made = [d \in Dev |-> 0] /\ next = made
  /\ posted = EmptyBag
  /\ late = 0 /\ fails = 0 /\ breaks = 0

Tool == Send \/ Receive \/ Open \/ Wake \/ Leave \/ Forward

Next ==
  \/ Tool \/ Late \/ Torn
  \/ Serve \/ Plug
  \/ Signal \/ Drop
  \/ \E d \in Dev : Make(d)

Spec == Init /\ [][Next]_vars

(* The forwarder runs, the gateway answers, and its port comes back.          *)
FairSpec == Spec /\ WF_vars(Tool) /\ WF_vars(Serve) /\ WF_vars(Plug)

-----------------------------------------------------------------------------
(* Properties                                                                *)

TypeOK ==
  /\ t.at \in {"down", "send", "wait", "post", "sleep", "stopped"}
  /\ t.op \in Op /\ t.file \in File /\ t.reads \in 0 .. MaxReads
  /\ t.res \in {"ok", "timeout", "err"}
  /\ t.buf \in Seq(Token) /\ Len(SelectSeq(t.buf, Chunk)) <= Cap
  /\ t.pos \in 1 .. Len(t.buf) + 1 /\ t.serial \in Dev \cup {0} /\ t.live \in BOOLEAN
  /\ req \in Seq([op : Op, file : File, room : 1 .. Cap])
  /\ rep \in Seq([type : Op \cup {"error", "torn"}, toks : Seq(Token)])
  /\ fids.file \in 0 .. 3 /\ fids.open => fids.file # 0
  /\ \A d \in Dev : next[d] <= made[d] /\ made[d] <= Chunks[d]
  /\ IsABag(posted)

(* Every chunk is posted once at most and under its own device's serial,       *)
(* whichever file's reply a read gets (forward_stream, the reused buffer).     *)
PostedOnceAsOwn ==
  \A x \in BagToSet(posted) : CopiesIn(x, posted) = 1 /\ x[1] = x[2]

(* Chunks that a reply carries, or the buffer that will be forwarded.        *)
Held ==
  LET keeps == t.at = "post" \/ (t.at \in {"send", "wait"} /\ t.op \in {"read", "clunk"} /\ t.reads > 0 /\ t.res = "ok")
      mine == IF keeps THEN SubSeq(t.buf, t.pos, Len(t.buf)) ELSE <<>>
      all == FoldLeft(LAMBDA a, r : a \o r.toks, mine, rep)
  IN  {<<tok.dev, tok.i>> : tok \in {x \in ToSet(all) : Chunk(x)}}

(* A chunk taken from its device is posted, or its loss is owed to a post that *)
(* failed or a text that was cut (one chunk each), or to a reply that was     *)
(* late or spoilt or a port that dropped (one buffer each).                   *)
LossIsExcused ==
  LET taken == {x \in Dev \X (0 .. Max({Chunks[d] : d \in Dev})) : x[2] < next[x[1]]}
      done == {<<x[2], x[3]>> : x \in BagToSet(posted)}
  IN  Cardinality(taken \ (done \cup Held)) <= fails + Cap * (breaks + late)

(* A signal ends the forwarder: no call and no wait of it is for ever.        *)
StopEnds == stop ~> t.at = "stopped"

(* The chunks of the gateway's own chips are read, whatever drops, fails or is *)
(* torn, if no reply comes after its deadline.                               *)
ReadUnlessLate ==
  \A d \in Source[1] \cup Source[2] :
    Pending(d) > 0 ~> next[d] = made[d] \/ late > 0 \/ stop

(* A slow read "is retried next cycle" (l.14-15).                             *)
RetriedNextCycle ==
  \A d \in Source[1] : Pending(d) > 0 ~> next[d] = made[d] \/ stop

=============================================================================

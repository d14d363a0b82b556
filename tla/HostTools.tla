------------------------------- MODULE HostTools -------------------------------
(***************************************************************************)
(* The modes of the host tool src/tools/aether_conv.c that hold a          *)
(* conversation of /net/aether, run one after the other over a 9P session  *)
(* that outlives them (the relay's DTR session: l.47-49).  What such a     *)
(* tool leaves behind when a call fails or a signal arrives decides        *)
(* whether the node's small pool of conversations survives it.             *)
(*                                                                         *)
(* A mode is a script: the sequence of its calls, each with what the code  *)
(* does when the call fails.  The node's side is the conversation service  *)
(* as the tools see it; its concurrency is AetherNet's subject.            *)
(***************************************************************************)
EXTENDS Naturals, SequencesExt, FiniteSets

CONSTANTS
  Slots,    \* conversations of the node's pool: AETHER_MAX_CONNS
  Depth,    \* datagrams a conversation queues
  Modes,    \* the modes that are run
  Later,    \* those of them that may follow another
  MaxRuns,  \* bound: tools started
  MaxRx,    \* bound: datagrams that arrive
  Others    \* bound: conversations that other sessions of the node hold at once

ASSUME HostAssumption ==
  /\ {Slots, Depth} \subseteq Nat \ {0}
  /\ {MaxRuns, MaxRx, Others} \subseteq Nat
  /\ Modes # {} /\ Later \subseteq Modes

VARIABLES
  tool,   \* the tool that runs or ran last: its mode, step (0: it ended) and
          \* phase, g_stop, the conversation's number and recv_tag's stash; cut,
          \* bound and killed are history
  run,    \* which tool it is; earlier ones are gone
  conv,   \* the node's conversations: used, bind, datagrams queued, and (history)
          \* the run that allocated it, 0 for another session
  fid,    \* the session's fid table
  parked, \* of each conversation the data reads the node's workers wait with,
          \* oldest first: run and tag
  pipe,   \* replies on their way to the tool
  rx      \* datagrams that arrived

nodeVars == <<conv, fid, parked>>
vars == <<tool, run, nodeVars, pipe, rx>>

Slot == 0 .. Slots - 1
Fids == 0 .. 4 \cup 11 .. 13
Bind == {"none", "peer", "fake", "bcast", "any"}
NoFid == [kind |-> "none", slot |-> 0]

-----------------------------------------------------------------------------
(* Scripts.  onErr: "quit" returns at once, "clean" clunks ctl and root       *)
(* first, "end" goes to the final clunks, "over" behind the next clunk of the *)
(* fid, "drop" to the next wait, "next" ignores the failure.  how:            *)
(* "rpc" sends and reads one reply, "loop" is an rpc made only while g_stop is *)
(* clear, "post" sends and goes on, "take" waits for the reply with a tag,     *)
(* "wait" waits for a local client and "pause" for ever.                      *)

(* A "wait" that fails with "end" is accept(); the client's messages "drop".   *)

Step(how, op, f, arg, tag, onErr) ==
  [how |-> how, op |-> op, fid |-> f, arg |-> arg, tag |-> tag, onErr |-> onErr]
Call(op, f, arg, onErr) == Step("rpc", op, f, arg, 1, onErr)
Loop(op) == Step("loop", op, 2, "-", 1, IF op = "read" THEN "end" ELSE "next")
Post(op, f, arg, tag) == Step("post", op, f, arg, tag, "next")
Take(op, tag) == Step("take", op, 0, "-", tag, "next")

Attach == <<Call("version", 0, "-", "quit"), Call("attach", 0, "-", "quit")>>
OpenClone(f, numErr) ==
  <<Call("walk", f, "clone", "quit"), Call("open", f, "-", "quit"), Call("num", f, "-", numErr)>>
Clone(numErr) == Attach \o OpenClone(1, numErr)
OpenData(f, onErr) == <<Call("walk", f, "data", onErr), Call("open", f, "-", onErr)>>
Ctl(f, bind, onErr) == <<Call("ctl", f, bind, onErr)>>
Bye == <<Call("clunk", 2, "-", "next"), Call("clunk", 1, "-", "next"), Call("clunk", 0, "-", "next")>>

(* With the conversation bound, every failure clunks.                         *)
Bound(bind, work) == Clone("zero") \o Ctl(1, bind, "clean") \o work \o Bye
Held(bind, work) == Bound(bind, OpenData(2, "clean") \o work)

Hold == Clone("zero") \o OpenData(2, "quit")
        \o <<Post("read", 2, "-", 10), Step("pause", "-", 0, "-", 0, "next")>>
Bstatus == Bound("bcast", <<Call("walk", 2, "status", "clean"), Call("open", 2, "-", "clean"),
                            Call("status", 2, "-", "next")>>)
Bsend == Held("bcast", <<Call("write", 2, "-", "next")>>)
Bsendn == Held("bcast", <<Call("write", 2, "-", "next"), Call("write", 2, "-", "next")>>)
Brecv == Held("bcast", <<Loop("read"), Loop("read")>>)
Recv == Held("any", <<Loop("read"), Loop("read")>>)
Sendn == Held("peer", <<Loop("write"), Loop("write")>>)
Sendbig == Held("peer", <<Loop("write"), Loop("write")>>)
Asend == Held("any", <<Call("write", 2, "-", "next")>>)
Crecv == Held("peer", <<Call("read", 2, "-", "end")>>)

(* Three conversations, a blocking read posted on each, replies taken as      *)
(* they come (recv_one).                                                      *)
IsoConv(ctl, data, bind) == OpenClone(ctl, "zero") \o Ctl(ctl, bind, "quit") \o OpenData(data, "quit")
RecvOne == Step("take", "read", 0, "-", 0, "quit")
Iso == Attach \o IsoConv(1, 11, "peer") \o IsoConv(2, 12, "fake") \o IsoConv(3, 13, "any")
       \o <<Post("read", 11, "-", 11), Post("read", 12, "-", 12), Post("read", 13, "-", 13)>>
       \o <<RecvOne, RecvOne, RecvOne, RecvOne>>

(* A blocking read, and a status read pipelined behind it.                    *)
Concurrent ==
  Clone("zero") \o OpenData(2, "quit")
  \o <<Post("read", 2, "-", 10),
       Post("walk", 3, "status", 1), Take("walk", 1), Post("open", 3, "-", 1), Take("open", 1),
       Post("status", 3, "-", 1), Take("status", 1), Post("clunk", 3, "-", 1), Take("clunk", 1),
       Post("clunk", 1, "-", 1), Take("clunk", 1), Take("read", 10),
       Post("clunk", 2, "-", 1), Take("clunk", 1)>>
  \o <<Call("clunk", 0, "-", "next")>>

(* A local client's message is relayed (the retries of l.819-830 are         *)
(* abstracted); a signal ends the wait for a client only.                    *)
Accept == Step("wait", "-", 0, "-", 0, "end")
Message == Step("wait", "-", 0, "-", 0, "drop")
Bridge == Clone("quit") \o OpenData(2, "quit") \o Ctl(1, "peer", "quit")
          \o <<Accept, Message, Call("write", 2, "-", "drop"), Call("read", 2, "-", "drop"),
               Message, Accept>> \o Bye

(* Stale replies are drained, then every request is sent once.                *)
Probe == Clone("quit") \o OpenData(2, "quit") \o Ctl(1, "peer", "quit")
         \o <<Call("read", 2, "-", "next"), Call("write", 2, "-", "quit"), Call("read", 2, "-", "quit")>>
         \o Bye

(* Without an option: a conversation's life with the counters read around it. *)
Status(f) == <<Call("walk", f, "status", "over"), Call("open", f, "-", "over"),
               Call("status", f, "-", "next"), Call("clunk", f, "-", "next")>>
Default == Clone("quit") \o OpenData(2, "quit") \o Status(3)
           \o <<Call("ctl", 1, "peer", "next"), Call("write", 2, "-", "next"),
                Call("clunk", 2, "-", "next"), Call("clunk", 1, "-", "next")>>
           \o Status(4) \o <<Call("clunk", 0, "-", "next")>>

Script ==
  [hold |-> Hold, bstatus |-> Bstatus, bsend |-> Bsend, bsendn |-> Bsendn, brecv |-> Brecv,
   recv |-> Recv, sendn |-> Sendn, sendbig |-> Sendbig, asend |-> Asend, crecv |-> Crecv,
   iso |-> Iso, concurrent |-> Concurrent, bridge |-> Bridge, probe |-> Probe,
   default |-> Default]

ASSUME ModesAssumption == Modes \subseteq DOMAIN Script

(* The modes that clunk on every failure after the clone.                     *)
Careful == {"bstatus", "bsend", "bsendn", "brecv", "recv", "sendn", "sendbig", "asend", "crecv"}

-----------------------------------------------------------------------------
(* The node: one request, one reply                                          *)

Reply(op, tag, ok, n) == [op |-> op, tag |-> tag, ok |-> ok, n |-> n]
Answer(st, ok, n) == pipe' = Append(pipe, Reply(st.op, st.tag, ok, n))

SetFid(f, kind, s) == fid' = [fid EXCEPT ![f] = [kind |-> kind, slot |-> s]]

Free == {s \in Slot : ~conv[s].used}
Fresh(by) == [used |-> TRUE, bind |-> "none", q |-> 0, by |-> by]

(* Tversion drops the session's fids; their conversations stay allocated.    *)
ServeVersion(st) ==
  /\ st.op = "version"
  /\ fid' = [f \in Fids |-> NoFid]
  /\ Answer(st, TRUE, 0)
  /\ UNCHANGED <<conv, parked>>

ServeAttach(st) ==
  /\ st.op = "attach"
  /\ SetFid(0, "root", 0)
  /\ Answer(st, TRUE, 0)
  /\ UNCHANGED <<conv, parked>>

(* Walking clone allocates, and forgets who still waits on the slot's queue; a *)
(* number's data file exists while it is in use.                              *)
ServeWalk(st) ==
  /\ st.op = "walk"
  /\ LET ok == /\ fid[0].kind = "root" /\ fid[st.fid].kind = "none"
               /\ \/ st.arg = "status"
                  \/ st.arg = "clone" /\ Free # {}
                  \/ st.arg = "data" /\ conv[tool.num].used
         s == IF st.arg = "clone" THEN CHOOSE x \in Free : \A y \in Free : x <= y
              ELSE tool.num
     IN  /\ IF ok THEN SetFid(st.fid, IF st.arg = "clone" THEN "ctl" ELSE st.arg, s)
                  ELSE UNCHANGED fid
         /\ conv' = IF ok /\ st.arg = "clone" THEN [conv EXCEPT ![s] = Fresh(run)] ELSE conv
         /\ parked' = IF ok /\ st.arg = "clone" THEN [parked EXCEPT ![s] = <<>>] ELSE parked
         /\ Answer(st, ok, 0)

(* open, the number read from ctl, the status text.                          *)
ServePlain(st) ==
  /\ st.op \in {"open", "num", "status"}
  /\ Answer(st, fid[st.fid].kind # "none", IF st.op = "num" THEN fid[st.fid].slot ELSE 0)
  /\ UNCHANGED nodeVars

ServeCtl(st) ==
  /\ st.op = "ctl"
  /\ LET ok == fid[st.fid].kind = "ctl" IN
       /\ conv' = IF ok THEN [conv EXCEPT ![fid[st.fid].slot].bind = st.arg] ELSE conv
       /\ Answer(st, ok, 0)
  /\ UNCHANGED <<fid, parked>>

(* anet_write of data: by the binding; a send may fail.                      *)
ServeWrite(st) ==
  /\ st.op = "write"
  /\ \E ok \in BOOLEAN :
       /\ ok => fid[st.fid].kind = "data" /\ conv[fid[st.fid].slot].bind # "none"
       /\ Answer(st, ok, 0)
  /\ UNCHANGED nodeVars

(* A data read takes a datagram or waits on a worker.                        *)
ServeRead(st) ==
  /\ st.op = "read"
  /\ LET s == fid[st.fid].slot IN
     \/ /\ fid[st.fid].kind # "data"
        /\ Answer(st, FALSE, 0)
        /\ UNCHANGED <<conv, parked>>
     \/ /\ fid[st.fid].kind = "data"
        /\ conv[s].q > 0
        /\ conv' = [conv EXCEPT ![s].q = @ - 1]
        /\ Answer(st, TRUE, 1)
        /\ UNCHANGED parked
     \/ /\ fid[st.fid].kind = "data"
        /\ conv[s].q = 0
        /\ parked' = [parked EXCEPT ![s] = Append(@, [run |-> run, tag |-> st.tag])]
        /\ UNCHANGED <<conv, pipe>>
  /\ UNCHANGED fid

(* Workers that go on at once finish in any order.                            *)
Orders(S) == Bijection(1 .. Cardinality(S), S)

(* A reader's reply, n = 0 for an end of file.  Readers whose tool is gone get *)
(* theirs for nobody.                                                        *)
Mine(s) == {i \in 1 .. Len(parked[s]) : parked[s][i].run = run}
ReadReply(s, i, n) == Reply("read", parked[s][i].tag, TRUE, n)

ConvFreed(s) == conv' = [conv EXCEPT ![s] = [Fresh(@.by) EXCEPT !.used = FALSE]]

(* The clunk of a ctl fid frees the conversation: the purge of its queue ends  *)
(* every read that waits there with an end of file.                           *)
ServeClunk(st) ==
  /\ st.op = "clunk"
  /\ fid' = [fid EXCEPT ![st.fid] = NoFid]
  /\ LET s == fid[st.fid].slot
         clunked == Reply("clunk", st.tag, fid[st.fid].kind # "none", 0)
     IN  IF fid[st.fid].kind = "ctl"
         THEN /\ ConvFreed(s)
              /\ parked' = [parked EXCEPT ![s] = <<>>]
              /\ \E o \in Orders({0} \cup Mine(s)) :
                   pipe' = pipe \o [i \in DOMAIN o |->
                                      IF o[i] = 0 THEN clunked ELSE ReadReply(s, o[i], 0)]
         ELSE /\ pipe' = Append(pipe, clunked)
              /\ UNCHANGED <<conv, parked>>

Serve(st) ==
  \/ ServeVersion(st) \/ ServeAttach(st) \/ ServeWalk(st) \/ ServePlain(st)
  \/ ServeCtl(st) \/ ServeWrite(st) \/ ServeRead(st) \/ ServeClunk(st)

-----------------------------------------------------------------------------
(* Mesh and other sessions                                                   *)

(* The filter of aether_recv_cb for a unicast of the peer and for a broadcast. *)
Takes(s, d) ==
  conv[s].used /\ conv[s].bind \in IF d = "party" THEN {"bcast"} ELSE {"any", "peer"}

(* A wrong Room: one more than the queue holds.                              *)
BugRoom(s) == conv[s].q <= Depth

Room(s) == conv[s].q < Depth

(* A datagram goes to the reader of each conversation that takes it that has  *)
(* waited longest, or is queued there, or dropped.                           *)
Deliver(d) ==
  LET T == {s \in Slot : Takes(s, d)}
      W == {s \in T : parked[s] # <<>>}
  IN  /\ rx < MaxRx
      /\ rx' = rx + 1
      /\ conv' = [s \in Slot |-> IF s \in T \ W /\ Room(s) THEN [conv[s] EXCEPT !.q = @ + 1]
                                 ELSE conv[s]]
      /\ parked' = [s \in Slot |-> IF s \in W THEN Tail(parked[s]) ELSE parked[s]]
      /\ \E o \in Orders({s \in W : 1 \in Mine(s)}) :
           pipe' = pipe \o [i \in DOMAIN o |-> ReadReply(o[i], 1, 1)]
      /\ UNCHANGED <<tool, run, fid>>

(* The relay gives up a read after five minutes; the node's worker stays and  *)
(* takes the next datagram for nobody.                                       *)
Expire ==
  \E s \in Slot : \E i \in Mine(s) :
    /\ tool.pc # 0
    /\ parked' = [parked EXCEPT ![s][i] = [run |-> 0, tag |-> 0]]
    /\ pipe' = Append(pipe, Reply("read", parked[s][i].tag, FALSE, 0))
    /\ UNCHANGED <<tool, run, conv, fid, rx>>

(* Another session clones or clunks.                                         *)
OtherClone ==
  /\ Cardinality({s \in Slot : conv[s].used /\ conv[s].by = 0}) < Others
  /\ Free # {}
  /\ LET s == CHOOSE x \in Free : \A y \in Free : x <= y IN
       /\ conv' = [conv EXCEPT ![s] = Fresh(0)]
       /\ parked' = [parked EXCEPT ![s] = <<>>]
  /\ UNCHANGED <<tool, run, fid, pipe, rx>>

OtherClunk ==
  \E s \in Slot :
    /\ conv[s].used /\ conv[s].by = 0
    /\ ConvFreed(s)
    /\ parked' = [parked EXCEPT ![s] = <<>>]
    /\ \E o \in Orders(Mine(s)) : pipe' = pipe \o [i \in DOMAIN o |-> ReadReply(s, o[i], 0)]
    /\ UNCHANGED <<tool, run, fid, rx>>

-----------------------------------------------------------------------------
(* The tool                                                                  *)

script == Script[tool.name]
cur == script[tool.pc]
On == tool.pc # 0
NoReply == Reply("-", 0, FALSE, 0)

(* A wrong Target: a failure after the clone clunks the root fid only.       *)
BugSkipCtl(onErr) ==
  CASE onErr \in {"quit"} -> 0
    [] onErr = "clean"    -> Len(script)
    [] onErr = "end"      -> Len(script) - 2
    [] OTHER              -> IF tool.pc = Len(script) THEN 0 ELSE tool.pc + 1

(* Where a step's failure leads.                                             *)
Target(onErr) ==
  CASE onErr = "quit"  -> 0
    [] onErr = "clean" -> Len(script) - 1
    [] onErr = "end"   -> Len(script) - 2
    [] onErr = "over"  -> 1 + SelectInSubSeq(script, tool.pc, Len(script),
                                             LAMBDA x : x.op = "clunk" /\ x.fid = cur.fid)
    [] onErr = "drop"  -> SelectInSubSeq(script, tool.pc + 1, Len(script),
                                         LAMBDA x : x.how = "wait" /\ x.onErr = "end")
    [] OTHER           -> IF tool.pc = Len(script) THEN 0 ELSE tool.pc + 1

At(pc) ==
  IF pc # 0 THEN [tool EXCEPT !.pc = pc, !.phase = "top"]
  ELSE [tool EXCEPT !.pc = 0, !.phase = "top", !.stop = FALSE, !.num = 0, !.stash = NoReply, !.cut = FALSE]
NextStep == At(Target("next"))

Start(mode) ==
  /\ ~On
  /\ run < MaxRuns
  /\ run = 0 \/ mode \in Later
  /\ run' = run + 1
  /\ tool' = [name |-> mode, pc |-> 1, phase |-> "top", stop |-> FALSE, num |-> 0,
              stash |-> NoReply, cut |-> FALSE, bound |-> FALSE, killed |-> FALSE]
  /\ pipe' = <<>>
  /\ UNCHANGED <<nodeVars, rx>>

(* A loop looks at g_stop before each call; a reply the stash holds is taken. *)
Stopped == cur.how = "loop" /\ tool.stop
Stashed == cur.how = "take" /\ tool.stash.tag = cur.tag /\ cur.tag # 0

Send ==
  /\ On /\ tool.phase = "top"
  /\ cur.how \in {"rpc", "loop", "post"}
  /\ ~Stopped
  /\ Serve(cur)
  /\ tool' = [IF cur.how = "post" THEN NextStep ELSE [tool EXCEPT !.phase = "sent"]
              EXCEPT !.bound = @ \/ cur.op = "ctl"]
  /\ UNCHANGED <<run, rx>>

LeaveLoop ==
  /\ On /\ tool.phase = "top" /\ Stopped
  /\ tool' = At(Target("end"))
  /\ UNCHANGED <<run, nodeVars, pipe, rx>>

TakeStash ==
  /\ On /\ tool.phase = "top" /\ Stashed
  /\ tool' = [NextStep EXCEPT !.stash = NoReply]
  /\ UNCHANGED <<run, nodeVars, pipe, rx>>

(* The blocking call is entered: before that a signal is only noted.         *)
Block ==
  /\ On
  /\ \/ tool.phase = "sent"
     \/ tool.phase = "top" /\ cur.how \in {"take", "wait"} /\ ~Stashed
  /\ tool' = [tool EXCEPT !.phase = "wait"]
  /\ UNCHANGED <<run, nodeVars, pipe, rx>>

(* The reply types of 9P do not tell apart what was read or written.         *)
ReplyType(op) ==
  CASE op \in {"num", "status", "read"} -> "Rread" [] op \in {"ctl", "write"} -> "Rwrite" [] OTHER -> op

(* A wrong Succeeds: any reply will do.                                      *)
BugSucceeds(r) == r.ok

Succeeds(r) == r.ok /\ ReplyType(r.op) = ReplyType(cur.op)

(* rpc takes the next reply whatever its tag; an end of file ends a loop.     *)
TakeReply ==
  /\ On /\ tool.phase = "wait" /\ pipe # <<>>
  /\ cur.how \in {"rpc", "loop"}
  /\ LET r == Head(pipe)
         next == CASE ~Succeeds(r) -> Target(cur.onErr)
                   [] Succeeds(r) /\ cur.how = "loop" /\ cur.op = "read" /\ r.n = 0 -> Target("end")
                   [] OTHER -> Target("next")
     IN  /\ pipe' = Tail(pipe)
         /\ tool' = [At(next) EXCEPT
                       !.num = IF cur.op # "num" THEN @ ELSE IF Succeeds(r) THEN r.n ELSE 0]
  /\ UNCHANGED <<run, nodeVars, rx>>

Keep(r) == [tool EXCEPT !.stash = r]

(* recv_tag waits for its tag and stashes one other reply; recv_one takes any. *)
TakeTagged ==
  /\ On /\ tool.phase = "wait" /\ pipe # <<>>
  /\ cur.how = "take"
  /\ pipe' = Tail(pipe)
  /\ tool' = IF cur.tag \in {0, Head(pipe).tag} THEN NextStep ELSE Keep(Head(pipe))
  /\ UNCHANGED <<run, nodeVars, rx>>

(* A local client connects, sends a message, or closes.                      *)
Client ==
  /\ On /\ tool.phase = "wait" /\ cur.how = "wait"
  /\ tool' \in {NextStep} \cup (IF cur.onErr = "drop" THEN {At(Target("drop"))} ELSE {})
  /\ UNCHANGED <<run, nodeVars, pipe, rx>>

(* A wrong Interrupts: the handler is installed with SA_RESTART.             *)
BugRestarts == {FALSE}

(* on_term: a call that blocks fails with EINTR, and may block with its reply *)
(* still on the way.                                                         *)
Interrupts ==
  CASE tool.phase # "wait" -> {FALSE}
    [] tool.phase = "wait" /\ (cur.how = "wait" \/ pipe = <<>>) -> {TRUE}
    [] OTHER -> BOOLEAN

Signal ==
  /\ On
  /\ \E interrupted \in Interrupts :
       tool' = [IF interrupted THEN At(Target(cur.onErr)) ELSE tool EXCEPT
                  !.stop = TRUE,
                  !.num = IF interrupted /\ cur.op = "num" THEN 0 ELSE @,
                  !.cut = @ \/ (tool.phase = "wait" /\ cur.op = "read")]
  /\ UNCHANGED <<run, nodeVars, pipe, rx>>

Kill ==
  /\ On
  /\ tool' = [At(0) EXCEPT !.killed = TRUE]
  /\ UNCHANGED <<run, nodeVars, pipe, rx>>

-----------------------------------------------------------------------------

Init ==
  /\ tool = [name |-> CHOOSE m \in Modes : TRUE, pc |-> 0, phase |-> "top", stop |-> FALSE,
             num |-> 0, stash |-> NoReply, cut |-> FALSE, bound |-> FALSE, killed |-> FALSE]
  /\ run = 0
  /\ conv = [s \in Slot |-> [Fresh(0) EXCEPT !.used = FALSE]]
  /\ fid = [f \in Fids |-> NoFid]
  /\ parked = [s \in Slot |-> <<>>]
  /\ pipe = <<>>
  /\ rx = 0

Tool == Send \/ LeaveLoop \/ TakeStash \/ Block \/ TakeReply \/ TakeTagged

Next ==
  \/ \E mode \in Modes : Start(mode)
  \/ Tool
  \/ Client
  \/ Signal
  \/ Kill
  \/ \E d \in {"peer", "party"} : Deliver(d)
  \/ Expire
  \/ OtherClone
  \/ OtherClunk

(* The tool is a running process; nothing else has to happen.                *)
Spec == Init /\ [][Next]_vars /\ WF_vars(Tool)

-----------------------------------------------------------------------------
(* Properties                                                                *)

Ops == {"-", "version", "attach", "walk", "open", "num", "ctl", "write", "read", "status", "clunk"}
Replies == [op : Ops, tag : Nat, ok : BOOLEAN, n : Nat]
Tools == [name : Modes, pc : Nat, phase : {"top", "sent", "wait"}, stop : BOOLEAN, num : Slot,
          stash : Replies, cut : BOOLEAN, bound : BOOLEAN, killed : BOOLEAN]

TypeOK ==
  /\ tool \in Tools /\ tool.pc <= Len(script)
  /\ run \in 0 .. MaxRuns
  /\ conv \in [Slot -> [used : BOOLEAN, bind : Bind, q : 0 .. Depth, by : 0 .. MaxRuns]]
  /\ fid \in [Fids -> [kind : {"none", "root", "ctl", "data", "status"}, slot : Slot]]
  /\ parked \in [Slot -> Seq([run : 0 .. MaxRuns, tag : Nat])]
  /\ pipe \in Seq(Replies) /\ \A i \in 1 .. Len(pipe) : pipe[i].op = "num" => pipe[i].n \in Slot
  /\ rx \in 0 .. MaxRx

(* A mode that got as far as binding its conversation leaves none behind,     *)
(* whatever call of it fails and whenever a signal interrupts it: the promise *)
(* of l.47-51, and what the four slots of the pool depend on.                *)
BoundToolsRelease ==
  ~On /\ tool.name \in Careful /\ tool.bound /\ ~tool.killed =>
    \A s \in Slot : ~(conv[s].used /\ conv[s].by = run)

(* No data is read from or written to a conversation the tool did not         *)
(* allocate, although a number that could not be read counts as 0, which is   *)
(* somebody's conversation (the atoi of an empty buffer); and of the three     *)
(* conversations of do_iso_recv the one connected to another peer stays silent. *)
OwnDataOnly ==
  /\ On /\ tool.phase # "top" /\ cur.op \in {"read", "write"} /\ cur.how # "take" =>
       LET f == fid[cur.fid] IN f.kind = "data" /\ conv[f.slot].used /\ conv[f.slot].by = run
  /\ tool.name = "iso" => \A i \in 1 .. Len(pipe) : pipe[i].tag = 12 => pipe[i].n = 0

(* A receiver whose blocked read is interrupted comes to its end (l.47-49), and *)
(* so does the demo, which gets the reply of its blocked read behind five       *)
(* others.                                                                   *)
ToolsEnd ==
  /\ (On /\ tool.name \in {"recv", "brecv", "crecv"} /\ tool.cut) ~> ~On
  /\ (On /\ tool.name = "concurrent") ~> ~On

-----------------------------------------------------------------------------
(* The inductive invariant                                                   *)

(* The conversation of a mode that its data calls depend on: the fids of its   *)
(* ctl and data, the steps that walk to them, the end of the steps that are    *)
(* made strictly one after the other, and the last step before it is given up. *)
(* Of do_iso_recv it is the one that must stay silent.                        *)
CtlFid(m) == IF m = "iso" THEN 2 ELSE 1
DataFid(m) == IF m = "iso" THEN 12 ELSE 2
CloneAt(m) == IF m = "iso" THEN 9 ELSE 3
NumAt(m) == CloneAt(m) + 2
DataAt(m) == IF m = "iso" THEN 13 ELSE IF m \in Careful THEN 7 ELSE 6
SetUp(m) == IF m = "iso" THEN 20 ELSE DataAt(m) + 1
HeldTo(m) ==
  CASE m \in Careful -> Len(Script[m]) - 3
    [] m = "iso" -> Len(Iso)
    [] m = "bridge" -> Len(Bridge) - 3
    [] m = "probe" -> Len(Probe) - 3
    [] m = "default" -> 13
    [] OTHER -> 7

(* A run number tells tools apart; a ctl fid is the only one of a conversation *)
(* that a tool allocated.                                                    *)
RunsApart ==
  /\ On \/ tool.bound => run > 0
  /\ \A s \in Slot : conv[s].by <= run
  /\ \A s \in Slot : \A i \in 1 .. Len(parked[s]) : run > 0 /\ parked[s][i].run <= run

CtlFidsApart ==
  \A f \in Fids : fid[f].kind = "ctl" =>
    /\ conv[fid[f].slot].used /\ conv[fid[f].slot].by > 0
    /\ \A g \in Fids : g # f /\ fid[g].kind = "ctl" => fid[g].slot # fid[f].slot

(* Up to SetUp each call has one reply, and it is the next to come; only an    *)
(* interrupted read of the number leaves its reply to the call behind it,      *)
(* which then fails.                                                         *)
Behind == pipe # <<>> /\ pipe[1].op = "num" /\ cur.op # "num"

InOrder ==
  On /\ tool.pc <= SetUp(tool.name) =>
    /\ \A s \in Slot : Mine(s) = {}
    /\ \/ tool.phase = "top" /\ pipe = <<>>
       \/ tool.phase # "top" /\ Len(pipe) = 1 /\ pipe[1].op = cur.op
       \/ Behind /\ tool.pc > 1 /\ script[tool.pc - 1].op = "num"

(* The mode's ctl and data fids lead to a conversation of its own, from the    *)
(* reply on.                                                                 *)
Got(i) == tool.pc > i \/ (tool.pc = i /\ pipe # <<>> /\ ~Behind /\ pipe[1].ok)

Holds ==
  LET m == tool.name
      c == CtlFid(m)
      s == fid[c].slot
  IN  On /\ tool.pc <= HeldTo(m) =>
        /\ Got(CloneAt(m)) => fid[c].kind = "ctl" /\ conv[s].by = run
        /\ tool.pc = NumAt(m) /\ pipe # <<>> => pipe[1].ok /\ pipe[1].n = s
        /\ tool.pc \in NumAt(m) + 1 .. DataAt(m) /\ ~Behind => tool.num = s
        /\ Got(DataAt(m)) /\ m # "bstatus" => fid[DataFid(m)] = [kind |-> "data", slot |-> s]

(* A conversation connected to the peer that sends nothing.                  *)
Silent(s) == conv[s].used /\ conv[s].by = run /\ conv[s].bind \in {"none", "fake"} /\ conv[s].q = 0

IsoSilent ==
  tool.name = "iso" =>
    /\ On /\ Got(CloneAt("iso")) => Silent(fid[2].slot)
    /\ \A s \in Slot : \A i \in Mine(s) : parked[s][i].tag = 12 => Silent(s)
    /\ \A i \in 1 .. Len(pipe) : pipe[i].tag = 12 => pipe[i].n = 0

(* A careful mode has the one conversation of its ctl fid, until the clunk of  *)
(* that fid.                                                                 *)
Given == tool.pc > Len(script) - 1 \/ (tool.pc = Len(script) - 1 /\ tool.phase # "top")

OneToGive ==
  tool.name \in Careful =>
    /\ On => \A s \in Slot : conv[s].used /\ conv[s].by = run =>
         ~Given /\ (tool.pc > 1 \/ tool.phase # "top") /\ fid[1] = [kind |-> "ctl", slot |-> s]
    /\ On /\ tool.bound => tool.pc >= 6

(* A call that is posted is not waited for.                                  *)
PostsGoOn == On /\ tool.phase # "top" => cur.how # "post"

IInv ==
  /\ TypeOK /\ RunsApart /\ CtlFidsApart /\ InOrder /\ Holds /\ IsoSilent /\ OneToGive /\ PostsGoOn
  /\ BoundToolsRelease

=============================================================================

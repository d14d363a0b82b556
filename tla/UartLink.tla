------------------------------- MODULE UartLink -------------------------------
(***************************************************************************)
(* The relay's receive path on the UART to its 9151 (relay main.c).  An     *)
(* interrupt collects bytes until the length in a header says that a        *)
(* message is whole (mesh_uart_isr); a work item copies it, frees the       *)
(* accumulator and hands the copy to the 9P client (mesh_rx_work_handler);  *)
(* whoever attaches clears the accumulator first (mesh_rx_reset, from       *)
(* mesh_ensure_attached), whatever the other two are doing.                 *)
(*                                                                         *)
(* A unit of the line is the seven bytes of a header or a stretch of what   *)
(* follows one.  The client library and the 9151's server are external: the *)
(* client hands a message to the call with its tag and ignores others, the  *)
(* server answers requests in any order, each reply in one piece.           *)
(***************************************************************************)
EXTENDS Naturals, Sequences

CONSTANTS
  Thread,    \* threads that use the client
  Monitor,   \* the one of them that polls for ever
  Spare,     \* a thread's tags: bound of the client's 16-bit counter
  Frame,     \* bound: units of a reply
  Buf,       \* sizeof(mesh_rx_buf), in units
  MaxFaults, \* bound: restarts of the 9151 and replies past their deadline
  None

ASSUME LinkAssumption ==
  /\ Monitor \in Thread
  /\ None \notin Thread
  /\ {Spare, Frame, Buf, MaxFaults} \subseteq Nat
  /\ 1 <= Spare
  /\ 2 <= Frame /\ Frame <= Buf

VARIABLES
  th,        \* each thread: where it is, its call, the call's tag
  sess,      \* mesh_sess: its holder
  attached,  \* mesh_attached
  versioned, \* mesh_versioned
  rx,        \* mesh_rx_len, _have_hdr, _expected, _processing, _proc_len
  buf,       \* mesh_rx_buf
  queued,    \* the work item waits in mesh_rx_wq
  job,       \* the work item's handler: where it is, its len, the copy (mesh_rx_msg)
  wire,      \* units on their way to the relay
  server,    \* the 9151: the requests it has, whether it knows the session
  faults,    \* faults so far
  excused,   \* history: since the last reset of a quiet line the 9151 restarted or
             \* sent two replies at a time
  flight,    \* history, unless excused: tags of replies sent and not handed over
  lost       \* history, unless excused: a reply was dropped or torn

session == <<th, sess, attached, versioned>>
history == <<excused, flight, lost>>
vars == <<session, rx, buf, queued, job, wire, server, faults, history>>

Tag == Thread \X (1 .. Spare)
Call == {"use", "reattach", "version", "attach"}
Idle == [at |-> "idle", call |-> "use", tag |-> None]
Reply == [tag : Tag, pos : 1 .. Frame, ok : BOOLEAN]

(* Bytes that are no reply's, and fewer of them than a header has.            *)
Noise == [tag |-> None, pos |-> 0, ok |-> FALSE]
Scrap == [Noise EXCEPT !.ok = TRUE]
Unit == Reply \cup {Noise, Scrap}

NoJob == [at |-> "idle", len |-> 0, copy |-> <<>>]
NewRx == [len |-> 0, hdr |-> FALSE, expected |-> 0, processing |-> FALSE, proc |-> 0]

(* What the buffer holds behind its first n units is not read again unless it   *)
(* is still to be copied.                                                    *)
Kept(b, n) ==
  IF queued \/ job.at = "copy" THEN b ELSE [i \in 1 .. Buf |-> IF i <= n THEN b[i] ELSE Noise]

Quiet == wire = <<>> /\ ~queued /\ job.at = "idle"

InUse(g) ==
  \/ \E h \in Thread : th[h].tag = g
  \/ \E q \in server.todo : q.tag = g
  \/ \E i \in 1 .. Len(wire) : wire[i].tag = g
  \/ \E i \in 1 .. Len(job.copy) : job.copy[i].tag = g
  \/ \E i \in 1 .. Buf : buf[i].tag = g

(* A tag that is not around, while there is one.                              *)
FreshTag(h) ==
  CHOOSE g \in {h} \X (1 .. Spare) : (\E f \in {h} \X (1 .. Spare) : ~InUse(f)) => ~InUse(g)

-----------------------------------------------------------------------------
(* The interrupt: mesh_uart_isr                                              *)

IsHeader(u) == u.pos = 1

(* A wrong Lengths: a length beyond the buffer is believed.                   *)
BugLengths(u) == IF IsHeader(u) THEN {Frame} ELSE 0 .. Buf + 1

(* What the first seven bytes in the buffer say of the length: that of the    *)
(* reply they begin, or anything; 0 if it is not a possible one.              *)
Lengths(u) == IF IsHeader(u) THEN {Frame} ELSE 0 .. Buf

(* The accumulator with one more unit; what completes a scrap makes no good    *)
(* header.                                                                   *)
Stored(u) ==
  LET over == rx.len >= Buf
      n == IF over THEN 0 ELSE rx.len
      hdr == rx.hdr /\ ~over
  IN  IF ~hdr /\ n = 1 /\ buf[1] = Scrap
      THEN [len |-> 1, hdr |-> FALSE, buf |-> [buf EXCEPT ![1] = Noise]]
      ELSE [len |-> n + 1, hdr |-> hdr, buf |-> [buf EXCEPT ![n + 1] = u]]

(* Fewer bytes than a header has, of a glitch or left of a header that was      *)
(* refused.                                                                  *)
TooShort(s) ==
  /\ buf' = Kept([s.buf EXCEPT ![1] = Scrap], 1)
  /\ rx' = [rx EXCEPT !.len = 1, !.hdr = FALSE]
  /\ UNCHANGED queued

Resync(s) ==
  /\ buf' = Kept(s.buf, 0)
  /\ rx' = [rx EXCEPT !.len = 0, !.hdr = FALSE]
  /\ UNCHANGED queued

(* The length is known: the message is whole and the work item submitted, or   *)
(* more is to come.                                                          *)
Collect(s, e) ==
  LET whole == s.len >= e
  IN  /\ buf' = s.buf
      /\ rx' = [len |-> s.len, hdr |-> TRUE, expected |-> e,
                processing |-> whole, proc |-> IF whole THEN e ELSE rx.proc]
      /\ queued' = (queued \/ whole)

Receive(u) ==
  LET s == Stored(u)
  IN  \/ s.hdr /\ Collect(s, rx.expected)
      \/ ~s.hdr /\ \E e \in Lengths(s.buf[1]) \ {0} : Collect(s, e)
      \/ ~s.hdr /\ 0 \in Lengths(s.buf[1]) /\ (Resync(s) \/ TooShort(s))

(* While a message is handed over all is dropped; so is what a chunk holds     *)
(* behind the message it completes.                                          *)
Isr ==
  /\ wire # <<>>
  /\ wire' = Tail(wire)
  /\ IF rx.processing THEN UNCHANGED <<rx, buf, queued>> ELSE Receive(Head(wire))
  /\ lost' = (lost \/ (~excused /\ (rx.processing \/ ~IsHeader(Stored(Head(wire)).buf[1]))))
  /\ UNCHANGED <<session, job, server, faults, excused, flight>>

-----------------------------------------------------------------------------
(* The work item: mesh_rx_work_handler, its stores in the order of the text.  *)

(* A wrong After: the client is called before the accumulator is free.        *)
BugAfter ==
  [copy |-> "deliver", deliver |-> "len", len |-> "hdr", hdr |-> "expected",
   expected |-> "processing", processing |-> "idle", idle |-> "idle"]

After ==
  [copy |-> "len", len |-> "hdr", hdr |-> "expected", expected |-> "processing",
   processing |-> "deliver", deliver |-> "idle", idle |-> "idle"]

Goes == IF After[job.at] = "idle" THEN NoJob ELSE [job EXCEPT !.at = After[job.at]]

Take ==
  /\ job.at = "idle" /\ queued
  /\ queued' = FALSE
  /\ job' = [at |-> "copy", len |-> rx.proc, copy |-> <<>>]
  /\ UNCHANGED <<session, rx, buf, wire, server, faults, history>>

(* The memcpy, which an interrupt may come into.                              *)
Copy ==
  /\ job.at = "copy"
  /\ job' = IF Len(job.copy) < job.len
            THEN [job EXCEPT !.copy = Append(@, buf[Len(@) + 1])]
            ELSE Goes
  /\ UNCHANGED <<session, rx, buf, queued, wire, server, faults, history>>

Clear ==
  /\ job.at \in {"len", "hdr", "expected", "processing"}
  /\ rx' = [rx EXCEPT ![job.at] = NewRx[job.at]]
  /\ buf' = IF job.at = "len" THEN Kept(buf, 0) ELSE buf
  /\ job' = Goes
  /\ UNCHANGED <<session, queued, wire, server, faults, history>>

-----------------------------------------------------------------------------
(* The session: mesh_ensure_attached, mesh_remote_down                       *)

(* mesh_tx_send, byte by byte; the client sends one request after the other.   *)
Send(h, call) ==
  LET g == FreshTag(h)
  IN  /\ th' = [th EXCEPT ![h] = [at |-> "wait", call |-> call, tag |-> g]]
      /\ server' = [server EXCEPT !.todo = @ \cup {[tag |-> g, call |-> call]}]

Leave(h) == th' = [th EXCEPT ![h] = Idle] /\ sess' = None /\ UNCHANGED server

(* What a call that returned means for its thread.                            *)
Returns(h, ok) ==
  LET call == th[h].call
  IN  \/ /\ call = "use"
         /\ th' = [th EXCEPT ![h] = IF ok THEN Idle ELSE [Idle EXCEPT !.at = "down"]]
         /\ UNCHANGED <<server, sess, attached, versioned>>
      \/ /\ call \in {"reattach", "attach"} /\ ok
         /\ attached' = TRUE
         /\ Leave(h)
         /\ UNCHANGED versioned
      \/ /\ call = "reattach" /\ ~ok
         /\ versioned' = FALSE
         /\ Send(h, "version")
         /\ UNCHANGED <<sess, attached>>
      \/ /\ call = "version" /\ ok
         /\ versioned' = TRUE
         /\ Send(h, "attach")
         /\ UNCHANGED <<sess, attached>>
      \/ /\ call \in {"version", "attach"} /\ ~ok
         /\ Leave(h)
         /\ UNCHANGED <<attached, versioned>>

(* recv_cb: a message goes to the call with its tag; one that is torn may be   *)
(* taken for the reply it begins as or be refused.                           *)
Deliver ==
  LET m == job.copy
      begun == m # <<>> /\ IsHeader(m[1])
      whole == begun /\ Len(m) = Frame /\ \A i \in 1 .. Frame : m[i] = [m[1] EXCEPT !.pos = i]
      callers == {h \in Thread : th[h].at = "wait" /\ th[h].tag = m[1].tag}
  IN  /\ job.at = "deliver"
      /\ job' = Goes
      /\ lost' = (lost \/ (~excused /\ ~whole))
      /\ IF begun
         THEN /\ flight' = flight \ {m[1].tag}
              /\ \/ \E h \in callers : Returns(h, m[1].ok)
                 \/ (callers = {} \/ ~whole) /\ UNCHANGED <<session, server>>
         ELSE UNCHANGED <<session, server, flight>>
      /\ UNCHANGED <<rx, buf, queued, wire, faults, excused>>

(* A wrong MeshRxReset: a half-parsed frame stays.                            *)
BugReset == rx' = [rx EXCEPT !.processing = FALSE] /\ UNCHANGED buf

MeshRxReset == rx' = [NewRx EXCEPT !.proc = rx.proc] /\ buf' = Kept(buf, 0)

Excuse(b) == excused' = b /\ flight' = {} /\ lost' = FALSE

(* A thread uses the session, or makes it under the lock, from a clean state   *)
(* of the accumulator; a message that is just handed over stays queued.       *)
Begin(h) ==
  /\ th[h].at = "idle" /\ sess = None
  /\ IF attached
     THEN Send(h, "use") /\ UNCHANGED <<sess, rx, buf, history>>
     ELSE /\ sess' = h
          /\ MeshRxReset
          /\ Send(h, IF versioned THEN "reattach" ELSE "version")
          /\ Excuse(~Quiet)
  /\ UNCHANGED <<attached, versioned, queued, job, wire, faults>>

Down(h) ==
  /\ th[h].at = "down" /\ sess = None
  /\ attached' = FALSE
  /\ th' = [th EXCEPT ![h] = Idle]
  /\ UNCHANGED <<sess, versioned, rx, buf, queued, job, wire, server, faults, history>>

(* timeout_ms: the 9151 answers in time, but the reply is lost, or arrives just *)
(* past the deadline.                                                        *)
Timeout(h) ==
  /\ th[h].at = "wait"
  /\ \A q \in server.todo : q.tag # th[h].tag
  /\ IF Quiet THEN UNCHANGED faults ELSE faults < MaxFaults /\ faults' = faults + 1
  /\ Returns(h, FALSE)
  /\ UNCHANGED <<rx, buf, queued, job, wire, history>>

-----------------------------------------------------------------------------
(* The 9151                                                                  *)

Answer(q) ==
  /\ q \in server.todo
  /\ LET ok == q.call = "version" \/ server.known
     IN  /\ server' = [todo |-> server.todo \ {q}, known |-> ok]
         /\ wire' = wire \o [i \in 1 .. Frame |-> [tag |-> q.tag, pos |-> i, ok |-> ok]]
  /\ IF excused \/ flight # {}
     THEN Excuse(TRUE)
     ELSE flight' = {q.tag} /\ UNCHANGED <<excused, lost>>
  /\ UNCHANGED <<session, rx, buf, queued, job, faults>>

(* It restarts: what it was sending breaks off, and its pin may glitch.        *)
Restart ==
  /\ faults < MaxFaults
  /\ faults' = faults + 1
  /\ server' = [todo |-> {}, known |-> FALSE]
  /\ \E n \in 0 .. Len(wire), glitch \in {<<>>, <<Noise>>} :
       wire' = SubSeq(wire, 1, n) \o glitch
  /\ Excuse(TRUE)
  /\ UNCHANGED <<session, rx, buf, queued, job>>

-----------------------------------------------------------------------------
Init ==
  /\ th = [h \in Thread |-> Idle]
  /\ sess = None
  /\ attached = FALSE /\ versioned = FALSE
  /\ rx = NewRx
  /\ buf = [i \in 1 .. Buf |-> Noise]
  /\ queued = FALSE
  /\ job = NoJob
  /\ wire = <<>>
  /\ server = [todo |-> {}, known |-> FALSE]
  /\ faults = 0
  /\ excused = FALSE /\ flight = {} /\ lost = FALSE

Handler == Take \/ Copy \/ Clear \/ Deliver
GoesOn(h) == Down(h) \/ Timeout(h)

Next ==
  \/ Isr
  \/ Handler
  \/ \E h \in Thread : Begin(h) \/ GoesOn(h)
  \/ \E q \in server.todo : Answer(q)
  \/ Restart

(* Interrupts are taken, the work queue runs, calls return or time out, the    *)
(* monitor goes on polling, and the 9151 answers it and whoever makes a        *)
(* session; it need not answer a host's read of a conversation.              *)
Fairness ==
  /\ WF_vars(Isr)
  /\ WF_vars(Handler)
  /\ \A h \in Thread : WF_vars(GoesOn(h))
  /\ WF_vars(Begin(Monitor))
  /\ WF_vars(\E q \in server.todo :
               (q.call # "use" \/ q.tag = th[Monitor].tag) /\ Answer(q))

Spec == Init /\ [][Next]_vars /\ Fairness

-----------------------------------------------------------------------------
(* The accumulator (mesh_rx_buf) is never overrun, and a message handed over   *)
(* is no longer than it.                                                     *)
TypeOK ==
  /\ th \in [Thread -> [at : {"idle", "wait", "down"}, call : Call, tag : Tag \cup {None}]]
  /\ sess \in Thread \cup {None}
  /\ attached \in BOOLEAN /\ versioned \in BOOLEAN
  /\ rx \in [len : 0 .. Buf, hdr : BOOLEAN, expected : 0 .. Buf, processing : BOOLEAN, proc : 0 .. Buf]
  /\ buf \in [1 .. Buf -> Unit]
  /\ queued \in BOOLEAN
  /\ job \in [at : DOMAIN After, len : 0 .. Buf, copy : Seq(Unit)] /\ Len(job.copy) <= job.len
  /\ wire \in Seq(Unit)
  /\ server \in [todo : SUBSET [tag : Tag, call : Call], known : BOOLEAN]
  /\ faults \in 0 .. MaxFaults
  /\ excused \in BOOLEAN /\ flight \subseteq Tag /\ lost \in BOOLEAN

(* Once mesh_ensure_attached has cleared the accumulator with nothing on the   *)
(* line or in the work queue, a reply is dropped or torn only if the 9151 was  *)
(* sending another at the same time or restarted: the caller that a message    *)
(* wakes may send at once, and the reply to that finds the accumulator free.   *)
RepliesArrive == ~lost

(* However a frame was torn, and whatever mesh_rx_reset came between, the link *)
(* that was lost is attached again.                                          *)
LinkComesBack == ~attached ~> attached
-----------------------------------------------------------------------------
(* The inductive invariant                                                   *)

(* The i-th unit of the reply to g.                                          *)
Part(g, ok, i) == [tag |-> g, pos |-> i, ok |-> ok]

Begins(s, n, g, ok) == \A i \in 1 .. n : s[i] = Part(g, ok, i)

(* A reply that nothing else is around with: its first units are in the buffer,*)
(* the others on the line.                                                   *)
OnLine(g, ok) ==
  /\ ~queued /\ job.at = "idle" /\ ~rx.processing
  /\ rx.len < Frame /\ Len(wire) = Frame - rx.len
  /\ rx.hdr <=> rx.len > 0
  /\ rx.hdr => rx.expected = Frame
  /\ Begins(buf, rx.len, g, ok)
  /\ \A i \in 1 .. Len(wire) : wire[i] = Part(g, ok, rx.len + i)

(* It is whole: handed to the work item, or being copied.                     *)
InBuffer(g, ok) ==
  /\ wire = <<>> /\ rx.processing /\ Begins(buf, Frame, g, ok)
  /\ \/ queued /\ job.at = "idle" /\ rx.proc = Frame
     \/ ~queued /\ job.at = "copy" /\ job.len = Frame /\ Begins(job.copy, Len(job.copy), g, ok)

(* It is copied: the accumulator is freed, field by field.                    *)
Copied(g, ok) ==
  /\ wire = <<>> /\ ~queued
  /\ Len(job.copy) = Frame /\ Begins(job.copy, Frame, g, ok)
  /\ job.at \in {"len", "hdr", "expected", "processing", "deliver"}
  /\ job.at # "len" => rx.len = 0
  /\ job.at \notin {"len", "hdr"} => ~rx.hdr
  /\ job.at = "deliver" => ~rx.processing

OneReply ==
  ~excused =>
    \/ flight = {} /\ Quiet /\ rx.len = 0 /\ ~rx.hdr /\ ~rx.processing
    \/ \E g \in Tag, ok \in BOOLEAN :
         flight = {g} /\ (OnLine(g, ok) \/ InBuffer(g, ok) \/ Copied(g, ok))

IInv == TypeOK /\ RepliesArrive /\ OneReply

=============================================================================

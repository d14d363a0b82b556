---------------------------- MODULE UartLink_proofs ----------------------------
(* The relay's receive path on its UART, for every size of buffer and reply   *)
(* and every number of threads and faults: the accumulator is never overrun, *)
(* and a reply that is alone on a clean line reaches the client whole.        *)
EXTENDS UartLink, Integers, TLAPS

-----------------------------------------------------------------------------
(* Types                                                                     *)

Threads == [Thread -> [at : {"idle", "wait", "down"}, call : Call, tag : Tag \cup {None}]]
RxState == [len : 0 .. Buf, hdr : BOOLEAN, expected : 0 .. Buf, processing : BOOLEAN, proc : 0 .. Buf]
Place == {"idle", "copy", "len", "hdr", "expected", "processing", "deliver"}
JobState == [at : Place, len : 0 .. Buf, copy : Seq(Unit)]
ServerState == [todo : SUBSET [tag : Tag, call : Call], known : BOOLEAN]

SessionTypes ==
  /\ th \in Threads /\ sess \in Thread \cup {None}
  /\ attached \in BOOLEAN /\ versioned \in BOOLEAN /\ server \in ServerState
RxTypes ==
  /\ rx \in RxState /\ buf \in [1 .. Buf -> Unit] /\ queued \in BOOLEAN
JobTypes ==
  job \in JobState /\ Len(job.copy) <= job.len
LineTypes ==
  wire \in Seq(Unit) /\ faults \in 0 .. MaxFaults
HistoryTypes ==
  excused \in BOOLEAN /\ flight \subseteq Tag /\ lost \in BOOLEAN

LEMMA Bounds ==
  /\ Spare \in Nat /\ Frame \in Nat /\ Buf \in Nat /\ MaxFaults \in Nat
  /\ 1 <= Spare /\ 2 <= Frame /\ Frame <= Buf
BY LinkAssumption

LEMMA Places == DOMAIN After = Place
BY DEF After, Place

LEMMA TypeParts ==
  TypeOK <=> SessionTypes /\ RxTypes /\ JobTypes /\ LineTypes /\ HistoryTypes
BY Places DEF TypeOK, SessionTypes, RxTypes, JobTypes, LineTypes, HistoryTypes,
              Threads, RxState, JobState, ServerState

LEMMA TypePartsNext ==
  TypeOK' <=> SessionTypes' /\ RxTypes' /\ JobTypes' /\ LineTypes' /\ HistoryTypes'
BY TypeParts, PTL

LEMMA UnitTypes ==
  /\ Reply \subseteq Unit /\ Noise \in Unit /\ Scrap \in Unit
  /\ Scrap = [tag |-> None, pos |-> 0, ok |-> TRUE] /\ Scrap.pos = 0 /\ Noise.pos = 0
  /\ \A u \in Unit : u.pos \in 0 .. Frame /\ u.tag \in Tag \cup {None}
  /\ \A u \in Unit : IsHeader(u) => u.tag \in Tag /\ u.ok \in BOOLEAN
<1>1. Scrap = [tag |-> None, pos |-> 0, ok |-> TRUE]
  <2>1. Noise \in [tag : {None}, pos : {0}, ok : BOOLEAN]
    BY DEF Noise
  <2>2. Scrap \in [tag : {None}, pos : {0}, ok : BOOLEAN] /\ Scrap.ok = TRUE
    BY <2>1 DEF Scrap
  <2>3. QED
    BY <2>2
<1>2. ASSUME NEW u \in Unit
      PROVE  /\ u.pos \in 0 .. Frame /\ u.tag \in Tag \cup {None}
             /\ IsHeader(u) => u.tag \in Tag /\ u.ok \in BOOLEAN
  <2>1. CASE u \in Reply
    BY <2>1, Bounds DEF Reply
  <2>2. CASE u \in {Noise, Scrap}
    BY <1>1, <2>2, Bounds DEF Noise, IsHeader
  <2>3. QED
    BY <1>2, <2>1, <2>2 DEF Unit
<1>3. QED
  BY <1>1, <1>2 DEF Unit, Noise

LEMMA FreshTagType ==
  ASSUME NEW h \in Thread
  PROVE  FreshTag(h) \in Tag
<1>1. <<h, 1>> \in {h} \X (1 .. Spare)
  BY Bounds
<1>2. \E g \in {h} \X (1 .. Spare) : (\E f \in {h} \X (1 .. Spare) : ~InUse(f)) => ~InUse(g)
  BY <1>1, Zenon
<1>3. FreshTag(h) \in {h} \X (1 .. Spare)
  BY <1>2, Zenon DEF FreshTag
<1>4. QED
  BY <1>3 DEF Tag

(* Sequences                                                                 *)
LEMMA AppendedSeq ==
  ASSUME NEW S, NEW s \in Seq(S), NEW e \in S
  PROVE  /\ Append(s, e) \in Seq(S) /\ Len(Append(s, e)) = Len(s) + 1
         /\ \A i \in 1 .. Len(s) : Append(s, e)[i] = s[i]
         /\ Append(s, e)[Len(s) + 1] = e
OBVIOUS

LEMMA TailSeq ==
  ASSUME NEW S, NEW s \in Seq(S), s # <<>>
  PROVE  /\ Tail(s) \in Seq(S) /\ Len(Tail(s)) = Len(s) - 1 /\ Len(s) > 0
         /\ \A i \in 1 .. Len(s) - 1 : Tail(s)[i] = s[i + 1]
         /\ Head(s) = s[1] /\ Head(s) \in S
OBVIOUS

LEMMA ElementOfSeq ==
  ASSUME NEW S, NEW s \in Seq(S), NEW i \in 1 .. Len(s)
  PROVE  s[i] \in S
OBVIOUS

LEMMA EmptySeq ==
  ASSUME NEW S, NEW s \in Seq(S)
  PROVE  /\ <<>> \in Seq(S) /\ Len(<<>>) = 0 /\ Len(s) \in Nat /\ (s = <<>> <=> Len(s) = 0)
OBVIOUS

LEMMA ConcatSeq ==
  ASSUME NEW S, NEW s \in Seq(S), NEW t \in Seq(S)
  PROVE  s \o t \in Seq(S)
OBVIOUS

LEMMA FunctionSeq ==
  ASSUME NEW S, NEW n \in Nat, NEW f \in [1 .. n -> S]
  PROVE  f \in Seq(S) /\ Len(f) = n
OBVIOUS

LEMMA PrefixSeq ==
  ASSUME NEW S, NEW s \in Seq(S), NEW n \in 0 .. Len(s)
  PROVE  SubSeq(s, 1, n) \in Seq(S)
OBVIOUS

-----------------------------------------------------------------------------
(* The session                                                               *)

LEMMA SendTypes ==
  ASSUME TypeOK, NEW h \in Thread, NEW call \in Call, Send(h, call)
  PROVE  th' \in Threads /\ server' \in ServerState
<1>1. DEFINE g == FreshTag(h)
<1>2. g \in Tag
  BY FreshTagType
<1>3. th' = [th EXCEPT ![h] = [at |-> "wait", call |-> call, tag |-> g]]
      /\ server' = [server EXCEPT !.todo = @ \cup {[tag |-> g, call |-> call]}]
  BY DEF Send
<1> HIDE DEF g
<1>4. QED
  BY <1>2, <1>3, TypeParts DEF SessionTypes, Threads, ServerState

LEMMA IdleType ==
  Idle \in [at : {"idle", "wait", "down"}, call : Call, tag : Tag \cup {None}]
  /\ [Idle EXCEPT !.at = "down"] \in [at : {"idle", "wait", "down"}, call : Call, tag : Tag \cup {None}]
BY DEF Idle, Call

LEMMA LeaveTypes ==
  ASSUME TypeOK, NEW h \in Thread, Leave(h)
  PROVE  th' \in Threads /\ server' \in ServerState /\ sess' \in Thread \cup {None}
BY IdleType, TypeParts DEF SessionTypes, Threads, ServerState, Leave

LEMMA ReturnsTypes ==
  ASSUME TypeOK, NEW h \in Thread, NEW ok \in BOOLEAN, Returns(h, ok)
  PROVE  SessionTypes'
<1>1. SessionTypes
  BY TypeParts
<1>2. CASE th[h].call = "use"
           /\ th' = [th EXCEPT ![h] = IF ok THEN Idle ELSE [Idle EXCEPT !.at = "down"]]
           /\ UNCHANGED <<server, sess, attached, versioned>>
  <2>1. th' \in Threads
    BY <1>1, <1>2, IdleType DEF SessionTypes, Threads
  <2>2. QED
    BY <1>1, <1>2, <2>1 DEF SessionTypes
<1>3. CASE attached' = TRUE /\ Leave(h) /\ UNCHANGED versioned
  BY <1>1, <1>3, LeaveTypes DEF SessionTypes
<1>4. CASE versioned' = FALSE /\ Send(h, "version") /\ UNCHANGED <<sess, attached>>
  BY <1>1, <1>4, SendTypes DEF SessionTypes, Call
<1>5. CASE versioned' = TRUE /\ Send(h, "attach") /\ UNCHANGED <<sess, attached>>
  BY <1>1, <1>5, SendTypes DEF SessionTypes, Call
<1>6. CASE Leave(h) /\ UNCHANGED <<attached, versioned>>
  BY <1>1, <1>6, LeaveTypes DEF SessionTypes
<1>7. QED
  BY <1>2, <1>3, <1>4, <1>5, <1>6 DEF Returns

-----------------------------------------------------------------------------
(* The interrupt                                                             *)

LEMMA StoredTypes ==
  ASSUME RxTypes, NEW u \in Unit
  PROVE  /\ Stored(u).len \in 1 .. Buf /\ Stored(u).hdr \in BOOLEAN
         /\ Stored(u).buf \in [1 .. Buf -> Unit]
<1> DEFINE over == rx.len >= Buf
           n == IF over THEN 0 ELSE rx.len
           hdr == rx.hdr /\ ~over
<1>1. n \in 0 .. Buf - 1 /\ hdr \in BOOLEAN
  BY Bounds DEF RxTypes, RxState
<1>2. CASE ~hdr /\ n = 1 /\ buf[1] = Scrap
  <2>1. Stored(u) = [len |-> 1, hdr |-> FALSE, buf |-> [buf EXCEPT ![1] = Noise]]
    BY <1>2 DEF Stored
  <2>2. QED
    BY <2>1, UnitTypes, Bounds DEF RxTypes
<1>3. CASE ~(~hdr /\ n = 1 /\ buf[1] = Scrap)
  <2>1. Stored(u) = [len |-> n + 1, hdr |-> hdr, buf |-> [buf EXCEPT ![n + 1] = u]]
    BY <1>3 DEF Stored
  <2> HIDE DEF n, hdr
  <2>2. QED
    BY <1>1, <2>1, Bounds DEF RxTypes
<1>4. QED
  BY <1>2, <1>3

LEMMA KeptType ==
  ASSUME NEW b \in [1 .. Buf -> Unit], NEW n \in 0 .. Buf
  PROVE  Kept(b, n) \in [1 .. Buf -> Unit]
BY UnitTypes, Zenon DEF Kept

LEMMA CollectTypes ==
  ASSUME RxTypes, NEW u \in Unit, NEW e \in 0 .. Buf, Collect(Stored(u), e)
  PROVE  RxTypes'
<1> DEFINE s == Stored(u)
           whole == s.len >= e
           p == IF whole THEN e ELSE rx.proc
<1>1. s.len \in 0 .. Buf /\ s.buf \in [1 .. Buf -> Unit]
  BY StoredTypes, Bounds
<1>2. whole \in BOOLEAN /\ p \in 0 .. Buf
  BY DEF RxTypes, RxState
<1>3. /\ buf' = s.buf /\ queued' = (queued \/ whole)
      /\ rx' = [len |-> s.len, hdr |-> TRUE, expected |-> e, processing |-> whole, proc |-> p]
  BY DEF Collect
<1> HIDE DEF s, whole, p
<1>4. rx' \in RxState
  BY <1>1, <1>2, <1>3, Zenon DEF RxState
<1>5. QED
  BY <1>1, <1>2, <1>3, <1>4 DEF RxTypes

LEMMA ResyncTypes ==
  ASSUME RxTypes, NEW u \in Unit, Resync(Stored(u)) \/ TooShort(Stored(u))
  PROVE  RxTypes'
<1> DEFINE s == Stored(u)
<1>1. s.buf \in [1 .. Buf -> Unit] /\ 0 \in 0 .. Buf /\ 1 \in 0 .. Buf
  BY StoredTypes, Bounds
<1> HIDE DEF s
<1>2. CASE Resync(s)
  <2>1. buf' \in [1 .. Buf -> Unit] /\ queued' = queued
    BY <1>1, <1>2, KeptType DEF Resync
  <2>2. rx' = [rx EXCEPT !.len = 0, !.hdr = FALSE]
    BY <1>2 DEF Resync
  <2>3. rx' \in RxState
    BY <1>1, <2>2, Zenon DEF RxTypes, RxState
  <2>4. QED
    BY <2>1, <2>3 DEF RxTypes
<1>3. CASE TooShort(s)
  <2>0. [s.buf EXCEPT ![1] = Scrap] \in [1 .. Buf -> Unit]
    BY <1>1, UnitTypes
  <2>1. buf' \in [1 .. Buf -> Unit] /\ queued' = queued
    BY <1>1, <2>0, <1>3, KeptType DEF TooShort
  <2>2. rx' = [rx EXCEPT !.len = 1, !.hdr = FALSE]
    BY <1>3 DEF TooShort
  <2>3. rx' \in RxState
    BY <1>1, <2>2, Zenon DEF RxTypes, RxState
  <2>4. QED
    BY <2>1, <2>3 DEF RxTypes
<1>4. QED
  BY <1>2, <1>3 DEF s

LEMMA IsrTypes ==
  ASSUME TypeOK, Isr
  PROVE  TypeOK'
<1>0. SessionTypes /\ RxTypes /\ JobTypes /\ LineTypes /\ HistoryTypes
  BY TypeParts
<1>1. Tail(wire) \in Seq(Unit) /\ Head(wire) \in Unit
  BY <1>0, TailSeq DEF Isr, LineTypes
<1>2. RxTypes'
  <2>1. CASE rx.processing
    BY <1>0, <2>1 DEF Isr, RxTypes
  <2>2. CASE Receive(Head(wire))
    <3>1. \A e \in Lengths(Stored(Head(wire)).buf[1]) : e \in 0 .. Buf
      BY Bounds DEF Lengths
    <3>2. CASE Collect(Stored(Head(wire)), rx.expected)
      BY <1>0, <1>1, <3>2, CollectTypes DEF RxTypes, RxState
    <3>3. CASE \E e \in Lengths(Stored(Head(wire)).buf[1]) \ {0} : Collect(Stored(Head(wire)), e)
      BY <1>0, <1>1, <3>1, <3>3, CollectTypes
    <3>4. CASE Resync(Stored(Head(wire))) \/ TooShort(Stored(Head(wire)))
      BY <1>0, <1>1, <3>4, ResyncTypes
    <3>5. QED
      BY <2>2, <3>2, <3>3, <3>4, Zenon DEF Receive
  <2>3. QED
    BY <1>0, <2>1, <2>2, Zenon DEF Isr
<1>3. SessionTypes' /\ JobTypes'
  BY <1>0 DEF Isr, SessionTypes, JobTypes, session
<1>4. LineTypes'
  BY <1>0, <1>1 DEF Isr, LineTypes
<1>5. HistoryTypes'
  BY <1>0 DEF Isr, HistoryTypes
<1>6. QED
  BY <1>2, <1>3, <1>4, <1>5, TypePartsNext

(* One more unit of the reply that is alone on the line.                     *)
LEMMA IsrOnLine ==
  ASSUME TypeOK, Isr, NEW g \in Tag, NEW ok \in BOOLEAN, OnLine(g, ok)
  PROVE  /\ IsHeader(Stored(Head(wire)).buf[1])
         /\ OnLine(g, ok)' \/ InBuffer(g, ok)'
<1> DEFINE u == Head(wire)
           n == rx.len
           b == [buf EXCEPT ![n + 1] = u]
<1>0. RxTypes /\ LineTypes /\ JobTypes
  BY TypeParts
<1>1. /\ wire # <<>> /\ wire' = Tail(wire) /\ ~rx.processing /\ Receive(u)
      /\ UNCHANGED job
  BY DEF Isr, OnLine
<1>2. /\ u = wire[1] /\ Len(wire') = Len(wire) - 1 /\ Len(wire) > 0 /\ u \in Unit
      /\ \A i \in 1 .. Len(wire) - 1 : wire'[i] = wire[i + 1]
      /\ wire' \in Seq(Unit)
  BY <1>0, <1>1, TailSeq DEF LineTypes
<1>3. n \in 0 .. Frame - 1 /\ n + 1 \in 1 .. Buf /\ Len(wire) = Frame - n
  BY <1>0, Bounds DEF OnLine, RxTypes, RxState
<1>4. u = Part(g, ok, n + 1)
  BY <1>2, <1>3 DEF OnLine
<1>5. b \in [1 .. Buf -> Unit] /\ \A i \in 1 .. n + 1 : b[i] = Part(g, ok, i)
  BY <1>0, <1>2, <1>3, <1>4 DEF RxTypes, OnLine, Begins
<1>6. Stored(u) = [len |-> n + 1, hdr |-> rx.hdr, buf |-> b]
  <2>1. ~(rx.len >= Buf) /\ rx.hdr \in BOOLEAN
    BY <1>0, <1>3, Bounds DEF RxTypes, RxState
  <2>2. ~rx.hdr => n # 1
    BY <1>3 DEF OnLine
  <2>3. QED
    BY <2>1, <2>2 DEF Stored
<1>7. IsHeader(b[1])
  <2>1. 1 \in 1 .. n + 1
    BY <1>3
  <2>2. b[1] = Part(g, ok, 1)
    BY <1>5, <2>1
  <2>3. QED
    BY <2>2 DEF IsHeader, Part
<1>8. Collect([len |-> n + 1, hdr |-> rx.hdr, buf |-> b], Frame)
  <2>1. Lengths(b[1]) = {Frame} /\ 0 \notin {Frame}
    BY <1>7, Bounds DEF Lengths
  <2>2. rx.hdr => rx.expected = Frame
    BY DEF OnLine
  <2>3. PICK s : s = Stored(u) /\ s = [len |-> n + 1, hdr |-> rx.hdr, buf |-> b]
    BY <1>6
  <2>4. s.hdr = rx.hdr /\ s.buf = b /\ rx.hdr \in BOOLEAN
    <3>1. PICK a, h, d : h = rx.hdr /\ d = b /\ s = [len |-> a, hdr |-> h, buf |-> d]
      BY <2>3, Zenon
    <3>2. s.hdr = h /\ s.buf = d
      BY <3>1
    <3>3. s.hdr = rx.hdr /\ s.buf = b
      BY <3>1, <3>2, Zenon
    <3>4. rx.hdr \in BOOLEAN
      BY <1>0 DEF RxTypes, RxState
    <3>5. QED
      BY <3>3, <3>4
  <2>5. \/ s.hdr /\ Collect(s, rx.expected)
        \/ ~s.hdr /\ \E e \in Lengths(s.buf[1]) \ {0} : Collect(s, e)
        \/ ~s.hdr /\ 0 \in Lengths(s.buf[1]) /\ (Resync(s) \/ TooShort(s))
    BY <1>1, <2>3, Zenon DEF Receive
  <2>6. Collect(s, Frame)
    BY <2>1, <2>2, <2>4, <2>5
  <2>7. QED
    BY <2>3, <2>6
<1>9. /\ buf' = b /\ rx'.len = n + 1 /\ rx'.hdr /\ rx'.expected = Frame
      /\ rx'.processing <=> n + 1 >= Frame
      /\ n + 1 >= Frame => rx'.proc = Frame
      /\ queued' <=> n + 1 >= Frame
  BY <1>8 DEF Collect, OnLine
<1>10. ASSUME n + 1 < Frame PROVE OnLine(g, ok)'
  <2>1. \A i \in 1 .. Len(wire') : wire'[i] = Part(g, ok, n + 1 + i)
    <3>1. TAKE i \in 1 .. Len(wire')
    <3>2. i + 1 \in 1 .. Len(wire) /\ i \in 1 .. Len(wire) - 1
      BY <1>2, <1>3
    <3>3. wire'[i] = wire[i + 1] /\ wire[i + 1] = Part(g, ok, n + (i + 1))
      BY <1>2, <3>2 DEF OnLine
    <3>4. n + (i + 1) = n + 1 + i
      BY <1>3, <3>2
    <3>5. QED
      BY <3>3, <3>4
  <2>2. Begins(buf', rx'.len, g, ok)
    BY <1>5, <1>9 DEF Begins
  <2>3. rx'.len < Frame /\ Len(wire') = Frame - rx'.len /\ rx'.len > 0
    <3>1. n \in Nat /\ Frame \in Nat /\ rx'.len = n + 1
      BY <1>3, <1>9, Bounds
    <3>2. Len(wire') = Frame - (n + 1)
      BY <1>2, <1>3, <3>1
    <3>3. QED
      BY <1>10, <3>1, <3>2
  <2>4. \A i \in 1 .. Len(wire') : wire'[i] = Part(g, ok, rx'.len + i)
    BY <1>9, <2>1
  <2>5. ~queued' /\ job'.at = "idle" /\ ~rx'.processing
    BY <1>1, <1>3, <1>9, <1>10, Bounds DEF OnLine
  <2>6. OnLine(g, ok)'
    BY <1>9, <2>2, <2>3, <2>4, <2>5 DEF OnLine, Begins, Part
  <2>7. QED
    BY <2>6, Zenon
<1>11. ASSUME n + 1 = Frame PROVE InBuffer(g, ok)'
  <2>1. wire' = <<>>
    BY <1>2, <1>3, <1>11, EmptySeq
  <2>2. InBuffer(g, ok)'
    BY <1>1, <1>5, <1>9, <1>11, <2>1 DEF InBuffer, Begins, Part, OnLine
  <2>3. QED
    BY <2>2, Zenon
<1>12. n + 1 < Frame \/ n + 1 = Frame
  BY <1>3, Bounds
<1>13. Stored(u).buf = b
  <2> HIDE DEF b, u, n
  <2>1. QED
    BY <1>6
<1>14. IsHeader(Stored(u).buf[1])
  BY <1>13, <1>7, Zenon
<1>15. QED
  BY <1>10, <1>11, <1>12, <1>14, Zenon

LEMMA IsrKeepsReply ==
  ASSUME IInv, Isr
  PROVE  RepliesArrive' /\ OneReply'
<1>1. TypeOK /\ ~lost /\ OneReply
  BY DEF IInv, RepliesArrive
<1>2. wire # <<>> /\ excused' = excused /\ flight' = flight
  BY DEF Isr
<1>3. lost' <=> (lost \/ (~excused /\ (rx.processing \/ ~IsHeader(Stored(Head(wire)).buf[1]))))
  BY Zenon DEF Isr
<1>4. CASE excused
  BY <1>1, <1>2, <1>3, <1>4, Zenon DEF RepliesArrive, OneReply
<1>5. CASE ~excused
  <2>1. PICK g \in Tag, ok \in BOOLEAN : flight = {g} /\ OnLine(g, ok)
    BY <1>1, <1>2, <1>5, Zenon DEF OneReply, Quiet, InBuffer, Copied
  <2>2. /\ IsHeader(Stored(Head(wire)).buf[1]) /\ ~rx.processing
        /\ OnLine(g, ok)' \/ InBuffer(g, ok)'
    BY <1>1, <2>1, IsrOnLine, Zenon DEF OnLine
  <2>3. OneReply'
    BY <1>2, <2>1, <2>2, Zenon DEF OneReply
  <2>4. QED
    BY <1>1, <1>3, <2>2, <2>3, Zenon DEF RepliesArrive
<1>6. QED
  BY <1>4, <1>5

-----------------------------------------------------------------------------
(* The work item                                                             *)

LEMMA TakeTypes ==
  ASSUME TypeOK, Take
  PROVE  TypeOK'
<1>0. SessionTypes /\ RxTypes /\ JobTypes /\ LineTypes /\ HistoryTypes
  BY TypeParts
<1>1. job' \in JobState /\ Len(job'.copy) <= job'.len
  BY <1>0 DEF Take, RxTypes, RxState, JobState, Place
<1>2. QED
  BY <1>0, <1>1, TypePartsNext
     DEF Take, SessionTypes, RxTypes, JobTypes, LineTypes, HistoryTypes, session, history

LEMMA GoesTypes ==
  ASSUME TypeOK, job' = Goes
  PROVE  JobTypes'
<1>1. JobTypes /\ After[job.at] \in Place
  BY TypeParts, Places, Bounds DEF JobTypes, JobState, After, Place
<1>2. CASE job' = NoJob
  BY <1>1, <1>2, Bounds DEF JobTypes, JobState, NoJob, Place
<1>3. CASE job' = [job EXCEPT !.at = After[job.at]]
  BY <1>1, <1>3 DEF JobTypes, JobState
<1>4. QED
  BY <1>2, <1>3 DEF Goes

LEMMA CopyTypes ==
  ASSUME TypeOK, Copy
  PROVE  TypeOK'
<1>0. SessionTypes /\ RxTypes /\ JobTypes /\ LineTypes /\ HistoryTypes
  BY TypeParts
<1>1. JobTypes'
  <2>1. CASE Len(job.copy) < job.len
    <3> DEFINE e == buf[Len(job.copy) + 1]
    <3>1. job.copy \in Seq(Unit) /\ job.len \in 0 .. Buf /\ Len(job.copy) \in Nat
      BY <1>0, EmptySeq DEF JobTypes, JobState
    <3>2. e \in Unit
      BY <1>0, <2>1, <3>1, Bounds DEF RxTypes
    <3>3. job' = [job EXCEPT !.copy = Append(job.copy, e)]
      BY <2>1 DEF Copy
    <3> HIDE DEF e
    <3>4. Append(job.copy, e) \in Seq(Unit) /\ Len(Append(job.copy, e)) = Len(job.copy) + 1
      BY <3>1, <3>2, AppendedSeq
    <3>5. job' \in JobState /\ job'.copy = Append(job.copy, e) /\ job'.len = job.len
      BY <1>0, <3>3, <3>4 DEF JobTypes, JobState
    <3>6. QED
      BY <2>1, <3>1, <3>4, <3>5, Bounds DEF JobTypes
  <2>2. CASE job' = Goes
    BY <2>2, GoesTypes
  <2>3. QED
    BY <2>1, <2>2 DEF Copy
<1>2. QED
  BY <1>0, <1>1, TypePartsNext
     DEF Copy, SessionTypes, RxTypes, LineTypes, HistoryTypes, session, history

(* One field of the accumulator is cleared.                                  *)
LEMMA ClearedRx ==
  ASSUME TypeOK, Clear
  PROVE  /\ rx' \in RxState
         /\ rx'.len = IF job.at = "len" THEN 0 ELSE rx.len
         /\ rx'.hdr = IF job.at = "hdr" THEN FALSE ELSE rx.hdr
         /\ rx'.processing = IF job.at = "processing" THEN FALSE ELSE rx.processing
<1>0. rx \in RxState /\ 0 \in 0 .. Buf
  BY TypeParts, Bounds DEF RxTypes
<1>1. NewRx = [len |-> 0, hdr |-> FALSE, expected |-> 0, processing |-> FALSE, proc |-> 0]
  BY DEF NewRx
<1>2. CASE job.at = "len"
  <2>1. rx' = [rx EXCEPT !["len"] = NewRx["len"]]
    BY <1>2 DEF Clear
  <2>2. rx' = [rx EXCEPT !["len"] = 0]
    BY <1>1, <2>1
  <2>3. rx' = [rx EXCEPT !.len = 0]
    BY <1>0, <2>2 DEF RxState
  <2>4. QED
    BY <1>0, <1>2, <2>3 DEF RxState
<1>3. CASE job.at = "hdr"
  <2>1. rx' = [rx EXCEPT !["hdr"] = NewRx["hdr"]]
    BY <1>3 DEF Clear
  <2>2. rx' = [rx EXCEPT !["hdr"] = FALSE]
    BY <1>1, <2>1
  <2>3. rx' = [rx EXCEPT !.hdr = FALSE]
    BY <1>0, <2>2 DEF RxState
  <2>4. QED
    BY <1>0, <1>3, <2>3 DEF RxState
<1>4. CASE job.at = "expected"
  <2>1. rx' = [rx EXCEPT !["expected"] = NewRx["expected"]]
    BY <1>4 DEF Clear
  <2>2. rx' = [rx EXCEPT !["expected"] = 0]
    BY <1>1, <2>1
  <2>3. rx' = [rx EXCEPT !.expected = 0]
    BY <1>0, <2>2 DEF RxState
  <2>4. QED
    BY <1>0, <1>4, <2>3 DEF RxState
<1>5. CASE job.at = "processing"
  <2>1. rx' = [rx EXCEPT !["processing"] = NewRx["processing"]]
    BY <1>5 DEF Clear
  <2>2. rx' = [rx EXCEPT !["processing"] = FALSE]
    BY <1>1, <2>1
  <2>3. rx' = [rx EXCEPT !.processing = FALSE]
    BY <1>0, <2>2 DEF RxState
  <2>4. QED
    BY <1>0, <1>5, <2>3 DEF RxState
<1>6. QED
  BY <1>2, <1>3, <1>4, <1>5 DEF Clear

LEMMA ClearTypes ==
  ASSUME TypeOK, Clear
  PROVE  TypeOK'
<1>0. SessionTypes /\ RxTypes /\ JobTypes /\ LineTypes /\ HistoryTypes
  BY TypeParts
<1>1. RxTypes'
  <2>1. buf' \in [1 .. Buf -> Unit]
    BY <1>0, KeptType, Bounds DEF Clear, RxTypes
  <2>2. QED
    BY <1>0, <2>1, ClearedRx DEF Clear, RxTypes
<1>2. JobTypes'
  BY GoesTypes DEF Clear
<1>3. QED
  BY <1>0, <1>1, <1>2, TypePartsNext
     DEF Clear, SessionTypes, LineTypes, HistoryTypes, session, history

LEMMA DeliverTypes ==
  ASSUME TypeOK, Deliver
  PROVE  TypeOK'
<1> DEFINE m == job.copy
           begun == m # <<>> /\ IsHeader(m[1])
<1>0. SessionTypes /\ RxTypes /\ JobTypes /\ LineTypes /\ HistoryTypes
  BY TypeParts
<1>1. begun => m[1].ok \in BOOLEAN
  <2>1. m \in Seq(Unit)
    BY <1>0 DEF JobTypes, JobState
  <2>2. m # <<>> => 1 \in 1 .. Len(m)
    BY <2>1
  <2>3. m # <<>> => m[1] \in Unit
    BY <2>1, <2>2, ElementOfSeq
  <2>4. QED
    BY <2>3, UnitTypes
<1>2. SessionTypes'
  <2>1. CASE UNCHANGED <<session, server>>
    BY <1>0, <2>1 DEF SessionTypes, session
  <2>2. CASE begun /\ \E h \in Thread : Returns(h, m[1].ok)
    BY <1>1, <2>2, ReturnsTypes
  <2>3. QED
    BY <2>1, <2>2, Zenon DEF Deliver
<1>3. JobTypes'
  BY GoesTypes DEF Deliver
<1>4. HistoryTypes'
  BY <1>0 DEF Deliver, HistoryTypes
<1>5. QED
  BY <1>0, <1>2, <1>3, <1>4, TypePartsNext DEF Deliver, RxTypes, LineTypes

-----------------------------------------------------------------------------
(* Threads and the 9151                                                      *)

LEMMA ExcuseTypes ==
  ASSUME NEW b \in BOOLEAN, Excuse(b)
  PROVE  HistoryTypes'
BY DEF Excuse, HistoryTypes

LEMMA NewRxType ==
  NewRx \in RxState
<1>1. 0 \in 0 .. Buf /\ FALSE \in BOOLEAN
  BY Bounds
<1>2. QED
  BY <1>1, Zenon DEF NewRx, RxState

LEMMA BeginTypes ==
  ASSUME TypeOK, NEW h \in Thread, Begin(h)
  PROVE  TypeOK'
<1>0. SessionTypes /\ RxTypes /\ JobTypes /\ LineTypes /\ HistoryTypes
  BY TypeParts
<1>1. JobTypes' /\ LineTypes'
  BY <1>0 DEF Begin, JobTypes, LineTypes
<1>2. CASE attached
  <2>1. Send(h, "use") /\ UNCHANGED <<sess, attached, versioned, rx, buf, queued, history>>
    BY <1>2 DEF Begin
  <2>2. th' \in Threads /\ server' \in ServerState
    BY <2>1, SendTypes DEF Call
  <2>3. QED
    BY <1>0, <1>1, <2>1, <2>2, TypePartsNext DEF SessionTypes, RxTypes, HistoryTypes, history
<1>3. CASE ~attached
  <2>1. /\ sess' = h /\ MeshRxReset /\ Send(h, IF versioned THEN "reattach" ELSE "version")
        /\ Excuse(~Quiet) /\ UNCHANGED <<attached, versioned, queued>>
    BY <1>3, Zenon DEF Begin
  <2>2. th' \in Threads /\ server' \in ServerState
    BY <2>1, SendTypes DEF Call
  <2>3. rx' \in RxState /\ buf' \in [1 .. Buf -> Unit]
    <3>1. rx' = [NewRx EXCEPT !.proc = rx.proc] /\ buf' = Kept(buf, 0) /\ rx.proc \in 0 .. Buf
      BY <1>0, <2>1 DEF MeshRxReset, RxTypes, RxState
    <3>2. rx' \in RxState
      BY <3>1, NewRxType, Zenon DEF RxState
    <3>3. QED
      BY <1>0, <3>1, <3>2, KeptType, Bounds DEF RxTypes
  <2>4. HistoryTypes'
    BY <2>1, ExcuseTypes DEF Quiet
  <2>5. QED
    BY <1>0, <1>1, <2>1, <2>2, <2>3, <2>4, TypePartsNext DEF SessionTypes, RxTypes
<1>4. QED
  BY <1>2, <1>3

LEMMA DownTypes ==
  ASSUME TypeOK, NEW h \in Thread, Down(h)
  PROVE  TypeOK'
<1>0. SessionTypes /\ RxTypes /\ JobTypes /\ LineTypes /\ HistoryTypes
  BY TypeParts
<1>1. th' \in Threads
  BY <1>0, IdleType DEF Down, SessionTypes, Threads
<1>2. QED
  BY <1>0, <1>1, TypePartsNext
     DEF Down, SessionTypes, RxTypes, JobTypes, LineTypes, HistoryTypes, history

LEMMA TimeoutTypes ==
  ASSUME TypeOK, NEW h \in Thread, Timeout(h)
  PROVE  TypeOK'
<1>0. SessionTypes /\ RxTypes /\ JobTypes /\ LineTypes /\ HistoryTypes
  BY TypeParts
<1>1. SessionTypes'
  BY ReturnsTypes DEF Timeout
<1>2. LineTypes'
  BY <1>0, Bounds DEF Timeout, LineTypes
<1>3. QED
  BY <1>0, <1>1, <1>2, TypePartsNext
     DEF Timeout, RxTypes, JobTypes, HistoryTypes, history

LEMMA AnswerTypes ==
  ASSUME TypeOK, NEW q \in server.todo, Answer(q)
  PROVE  TypeOK'
<1> DEFINE ok == q.call = "version" \/ server.known
           f == [i \in 1 .. Frame |-> [tag |-> q.tag, pos |-> i, ok |-> ok]]
<1>0. SessionTypes /\ RxTypes /\ JobTypes /\ LineTypes /\ HistoryTypes
  BY TypeParts
<1>1. q \in [tag : Tag, call : Call] /\ ok \in BOOLEAN
  BY <1>0 DEF SessionTypes, ServerState
<1>2. f \in [1 .. Frame -> Unit]
  BY <1>1, UnitTypes DEF Reply
<1>3. server' = [todo |-> server.todo \ {q}, known |-> ok] /\ wire' = wire \o f
  BY DEF Answer
<1> HIDE DEF ok, f
<1>4. f \in Seq(Unit)
  BY <1>2, FunctionSeq, Bounds
<1>5. LineTypes'
  BY <1>0, <1>3, <1>4, ConcatSeq DEF LineTypes, Answer
<1>6. SessionTypes'
  BY <1>0, <1>1, <1>3 DEF SessionTypes, ServerState, Answer, session
<1>7. HistoryTypes'
  BY <1>0, <1>1, ExcuseTypes DEF Answer, HistoryTypes
<1>8. QED
  BY <1>0, <1>5, <1>6, <1>7, TypePartsNext DEF Answer, RxTypes, JobTypes

LEMMA RestartTypes ==
  ASSUME TypeOK, Restart
  PROVE  TypeOK'
<1>0. SessionTypes /\ RxTypes /\ JobTypes /\ LineTypes /\ HistoryTypes
  BY TypeParts
<1>1. wire' \in Seq(Unit)
  <2>1. PICK n \in 0 .. Len(wire), glitch \in {<<>>, <<Noise>>} :
          wire' = SubSeq(wire, 1, n) \o glitch
    BY DEF Restart
  <2>2. SubSeq(wire, 1, n) \in Seq(Unit)
    BY <1>0, PrefixSeq DEF LineTypes
  <2>3. glitch \in Seq(Unit)
    <3>1. <<>> \in Seq(Unit)
      OBVIOUS
    <3>2. Noise \in Unit
      BY UnitTypes
    <3>3. <<Noise>> \in Seq(Unit)
      BY <3>2
    <3>4. QED
      BY <2>1, <3>1, <3>3
  <2>4. QED
    BY <2>1, <2>2, <2>3, ConcatSeq
<1>2. SessionTypes' /\ LineTypes'
  BY <1>0, <1>1, Bounds DEF Restart, SessionTypes, ServerState, LineTypes, session
<1>3. HistoryTypes'
  BY ExcuseTypes DEF Restart
<1>4. QED
  BY <1>0, <1>2, <1>3, TypePartsNext DEF Restart, RxTypes, JobTypes

LEMMA InitTypes ==
  ASSUME Init
  PROVE  TypeOK
<1>1. SessionTypes
  BY IdleType DEF Init, SessionTypes, Threads, ServerState
<1>2. RxTypes
  <2>1. buf \in [1 .. Buf -> Unit]
    BY UnitTypes DEF Init
  <2>2. QED
    BY <2>1, NewRxType DEF Init, RxTypes
<1>3. JobTypes
  BY Bounds DEF Init, JobTypes, JobState, NoJob, Place
<1>4. LineTypes
  <2>1. <<>> \in Seq(Unit)
    OBVIOUS
  <2>2. QED
    BY <2>1, Bounds DEF Init, LineTypes
<1>5. HistoryTypes
  BY DEF Init, HistoryTypes
<1>6. QED
  BY <1>1, <1>2, <1>3, <1>4, <1>5, TypeParts

LEMMA NextTypes ==
  ASSUME TypeOK, [Next]_vars
  PROVE  TypeOK'
<1>1. CASE Next
  BY <1>1, IsrTypes, TakeTypes, CopyTypes, ClearTypes, DeliverTypes, BeginTypes, DownTypes,
     TimeoutTypes, AnswerTypes, RestartTypes, Zenon DEF Next, Handler, GoesOn
<1>2. CASE UNCHANGED vars
  BY <1>2, TypeParts, TypePartsNext
     DEF vars, session, history, SessionTypes, RxTypes, JobTypes, LineTypes, HistoryTypes
<1>3. QED
  BY <1>1, <1>2

-----------------------------------------------------------------------------
(* What becomes of the reply                                                 *)

(* Steps that touch neither the line, the buffer nor the work item.          *)
LEMMA ReplyFrame ==
  ASSUME IInv, UNCHANGED <<rx, buf, queued, job, wire, history>>
  PROVE  RepliesArrive' /\ OneReply'
<1>1. OneReply' = OneReply
  BY DEF OneReply, Quiet, OnLine, InBuffer, Copied, Begins, Part, history
<1>2. QED
  BY <1>1 DEF IInv, RepliesArrive, history

(* Once it is excused nothing is promised.                                   *)
LEMMA ExcusedReply ==
  ASSUME excused', ~lost'
  PROVE  RepliesArrive' /\ OneReply'
BY DEF RepliesArrive, OneReply

LEMMA TakeKeepsReply ==
  ASSUME IInv, Take
  PROVE  RepliesArrive' /\ OneReply'
<1>1. /\ job.at = "idle" /\ queued /\ queued' = FALSE
      /\ job' = [at |-> "copy", len |-> rx.proc, copy |-> <<>>]
      /\ UNCHANGED <<rx, buf, wire, excused, flight, lost>>
  BY DEF Take, history
<1>2. TypeOK /\ ~lost /\ OneReply
  BY DEF IInv, RepliesArrive
<1>3. CASE excused
  BY <1>1, <1>2, <1>3, ExcusedReply
<1>4. CASE ~excused
  <2>1. PICK g \in Tag, ok \in BOOLEAN : flight = {g} /\ InBuffer(g, ok)
    BY <1>1, <1>2, <1>4, Zenon DEF OneReply, Quiet, OnLine, Copied
  <2>2. rx.proc = Frame
    BY <1>1, <2>1 DEF InBuffer
  <2>3. /\ job'.at = "copy" /\ job'.len = Frame /\ job'.copy = <<>>
        /\ wire' = <<>> /\ rx'.processing /\ ~queued'
    BY <1>1, <2>1, <2>2 DEF InBuffer
  <2>4. Begins(buf', Frame, g, ok) /\ Begins(job'.copy, Len(job'.copy), g, ok)
    <3>1. Begins(buf, Frame, g, ok) /\ buf' = buf
      BY <1>1, <2>1 DEF InBuffer
    <3>2. QED
      BY <2>3, <3>1 DEF Begins
  <2>5. InBuffer(g, ok)'
    BY <2>3, <2>4 DEF InBuffer, Begins, Part
  <2>6. QED
    BY <1>1, <1>2, <2>1, <2>5, Zenon DEF OneReply, RepliesArrive
<1>5. QED
  BY <1>3, <1>4

LEMMA CopyKeepsReply ==
  ASSUME IInv, Copy
  PROVE  RepliesArrive' /\ OneReply'
<1>1. /\ job.at = "copy"
      /\ UNCHANGED <<rx, buf, queued, wire, excused, flight, lost>>
  BY DEF Copy, history
<1>2. TypeOK /\ ~lost /\ OneReply
  BY DEF IInv, RepliesArrive
<1>3. CASE excused
  BY <1>1, <1>2, <1>3, ExcusedReply
<1>4. CASE ~excused
  <2>1. PICK g \in Tag, ok \in BOOLEAN : flight = {g} /\ InBuffer(g, ok)
    BY <1>1, <1>2, <1>4, Zenon DEF OneReply, Quiet, OnLine, Copied
  <2>2. /\ ~queued /\ job.len = Frame /\ wire = <<>> /\ rx.processing
        /\ Begins(buf, Frame, g, ok) /\ Begins(job.copy, Len(job.copy), g, ok)
    BY <1>1, <2>1 DEF InBuffer
  <2>3. /\ job.copy \in Seq(Unit) /\ Len(job.copy) \in Nat /\ Len(job.copy) <= Frame
        /\ buf \in [1 .. Buf -> Unit] /\ job \in JobState
    BY <1>2, <2>2, TypeParts, EmptySeq DEF JobTypes, JobState, RxTypes
  <2>4. CASE Len(job.copy) < Frame
    <3> DEFINE n == Len(job.copy)
               e == buf[n + 1]
    <3>1. e \in Unit /\ e = Part(g, ok, n + 1)
      BY <2>2, <2>3, <2>4, Bounds DEF Begins
    <3>2. job' = [job EXCEPT !.copy = Append(job.copy, e)]
      BY <2>2, <2>4 DEF Copy
    <3> HIDE DEF e
    <3>3. /\ Append(job.copy, e) \in Seq(Unit) /\ Len(Append(job.copy, e)) = n + 1
          /\ \A i \in 1 .. n : Append(job.copy, e)[i] = job.copy[i]
          /\ Append(job.copy, e)[n + 1] = e
      BY <2>3, <3>1, AppendedSeq
    <3>4. job'.copy = Append(job.copy, e) /\ job'.at = "copy" /\ job'.len = Frame
      BY <1>1, <2>2, <2>3, <3>2 DEF JobState
    <3>5. Begins(job'.copy, Len(job'.copy), g, ok)
      <4>1. ASSUME NEW i \in 1 .. Len(job'.copy) PROVE job'.copy[i] = Part(g, ok, i)
        <5>1. i \in 1 .. n \/ i = n + 1
          BY <2>3, <3>3, <3>4
        <5>2. QED
          BY <2>2, <3>1, <3>3, <3>4, <5>1 DEF Begins
      <4>2. QED
        BY <4>1 DEF Begins
    <3>6. Begins(buf', Frame, g, ok)
      BY <1>1, <2>2 DEF Begins
    <3>7. InBuffer(g, ok)'
      BY <1>1, <2>2, <3>4, <3>5, <3>6 DEF InBuffer, Begins, Part
    <3>8. QED
      BY <1>1, <1>2, <2>1, <3>7, Zenon DEF OneReply, RepliesArrive
  <2>5. CASE Len(job.copy) = Frame
    <3>1. job' = [job EXCEPT !.at = "len"]
      BY <1>1, <2>2, <2>3, <2>5, Bounds DEF Copy, Goes, After
    <3>2. job'.copy = job.copy /\ job'.at = "len"
      BY <2>3, <3>1 DEF JobState
    <3>3. Begins(job'.copy, Frame, g, ok)
      BY <2>2, <2>5, <3>2
    <3>4. Copied(g, ok)'
      BY <1>1, <2>2, <2>5, <3>2, <3>3 DEF Copied, Begins, Part
    <3>5. QED
      BY <1>1, <1>2, <2>1, <3>4, Zenon DEF OneReply, RepliesArrive
  <2>6. QED
    BY <2>3, <2>4, <2>5, Bounds
<1>5. QED
  BY <1>3, <1>4

LEMMA ClearKeepsReply ==
  ASSUME IInv, Clear
  PROVE  RepliesArrive' /\ OneReply'
<1>1. /\ job.at \in {"len", "hdr", "expected", "processing"} /\ job' = Goes
      /\ UNCHANGED <<queued, wire, excused, flight, lost>>
  BY DEF Clear, history
<1>2. TypeOK /\ ~lost /\ OneReply
  BY DEF IInv, RepliesArrive
<1>3. CASE excused
  BY <1>1, <1>2, <1>3, ExcusedReply
<1>4. CASE ~excused
  <2>1. PICK g \in Tag, ok \in BOOLEAN : flight = {g} /\ Copied(g, ok)
    BY <1>1, <1>2, <1>4 DEF OneReply, Quiet, OnLine, InBuffer
  <2>2. job \in JobState
    BY <1>2, TypeParts DEF JobTypes
  <2>3. /\ job.at = "len" => After[job.at] = "hdr"
        /\ job.at = "hdr" => After[job.at] = "expected"
        /\ job.at = "expected" => After[job.at] = "processing"
        /\ job.at = "processing" => After[job.at] = "deliver"
    BY DEF After
  <2>4. job' = [job EXCEPT !.at = After[job.at]]
    BY <1>1, <2>3 DEF Goes
  <2>5. job'.copy = job.copy /\ job'.at = After[job.at]
    BY <2>2, <2>4 DEF JobState
  <2>6. Begins(job'.copy, Frame, g, ok) /\ Len(job'.copy) = Frame /\ wire' = <<>> /\ ~queued'
    BY <1>1, <2>1, <2>5 DEF Copied
  <2>7. /\ job'.at \in {"hdr", "expected", "processing", "deliver"} /\ rx'.len = 0
        /\ job'.at # "hdr" => ~rx'.hdr
        /\ job'.at = "deliver" => ~rx'.processing
    BY <1>1, <1>2, <2>1, <2>3, <2>5, ClearedRx DEF Copied
  <2>8. Copied(g, ok)'
    BY <2>6, <2>7 DEF Copied, Begins, Part
  <2>9. QED
    BY <1>1, <1>2, <2>1, <2>8, Zenon DEF OneReply, RepliesArrive
<1>5. QED
  BY <1>3, <1>4

(* A whole reply is handed over, and the line is quiet again.                *)
LEMMA DeliverKeepsReply ==
  ASSUME IInv, Deliver
  PROVE  RepliesArrive' /\ OneReply'
<1> DEFINE m == job.copy
           begun == m # <<>> /\ IsHeader(m[1])
           whole == begun /\ Len(m) = Frame /\ \A i \in 1 .. Frame : m[i] = [m[1] EXCEPT !.pos = i]
<1>1. /\ job.at = "deliver" /\ job' = Goes
      /\ UNCHANGED <<rx, queued, wire, excused>>
      /\ lost' = (lost \/ (~excused /\ ~whole))
      /\ begun => flight' = flight \ {m[1].tag}
  BY Zenon DEF Deliver
<1>2. TypeOK /\ ~lost /\ OneReply
  BY DEF IInv, RepliesArrive
<1>3. CASE excused
  <2>1. excused' /\ ~lost'
    BY <1>1, <1>2, <1>3, Zenon
  <2>2. QED
    BY <2>1, ExcusedReply
<1>4. CASE ~excused
  <2>1. PICK g \in Tag, ok \in BOOLEAN : flight = {g} /\ Copied(g, ok)
    BY <1>1, <1>2, <1>4 DEF OneReply, Quiet, OnLine, InBuffer
  <2>2. m \in Seq(Unit) /\ Len(m) = Frame /\ Begins(m, Frame, g, ok)
    BY <1>2, <2>1, TypeParts DEF Copied, JobTypes, JobState
  <2>3. m # <<>> /\ m[1] = Part(g, ok, 1)
    BY <2>2, Bounds, EmptySeq DEF Begins
  <2>4. begun
    BY <2>3 DEF IsHeader, Part
  <2>5. \A i \in 1 .. Frame : m[i] = [m[1] EXCEPT !.pos = i]
    <3>1. TAKE i \in 1 .. Frame
    <3>2. m[i] = [tag |-> g, pos |-> i, ok |-> ok]
      BY <2>2 DEF Begins, Part
    <3>3. m[1] = [tag |-> g, pos |-> 1, ok |-> ok]
      BY <2>3 DEF Part
    <3>4. [[tag |-> g, pos |-> 1, ok |-> ok] EXCEPT !.pos = i] = [tag |-> g, pos |-> i, ok |-> ok]
      OBVIOUS
    <3>5. QED
      BY <3>2, <3>3, <3>4, Zenon
  <2>6. ~lost'
    BY <1>1, <1>2, <2>2, <2>4, <2>5, Zenon
  <2>7. flight' = {}
    BY <1>1, <2>1, <2>3, <2>4 DEF Part
  <2>8. job' = NoJob
    BY <1>1 DEF Goes, After
  <2>9. Quiet'
    BY <1>1, <2>1, <2>8 DEF Quiet, Copied, NoJob
  <2>10. rx'.len = 0 /\ ~rx'.hdr /\ ~rx'.processing
    BY <1>1, <2>1 DEF Copied
  <2>11. QED
    BY <2>6, <2>7, <2>9, <2>10, Zenon DEF OneReply, RepliesArrive
<1>5. QED
  BY <1>3, <1>4

(* Whoever attaches on a quiet line leaves a clean accumulator.              *)
LEMMA BeginKeepsReply ==
  ASSUME IInv, NEW h \in Thread, Begin(h)
  PROVE  RepliesArrive' /\ OneReply'
<1>1. CASE attached
  <2>1. UNCHANGED <<rx, buf, queued, job, wire, history>>
    BY <1>1, Zenon DEF Begin
  <2>2. QED
    BY <2>1, ReplyFrame
<1>2. CASE ~attached
  <2>1. MeshRxReset /\ Excuse(~Quiet) /\ UNCHANGED <<queued, job, wire>>
    BY <1>2, Zenon DEF Begin
  <2>2. excused' = ~Quiet /\ flight' = {} /\ lost' = FALSE
    BY <2>1, Zenon DEF Excuse
  <2>3. CASE ~Quiet
    BY <2>2, <2>3, ExcusedReply
  <2>4. CASE Quiet
    <3>1. Quiet'
      BY <2>1, <2>4 DEF Quiet
    <3>2. rx'.len = 0 /\ ~rx'.hdr /\ ~rx'.processing
      BY <2>1 DEF MeshRxReset, NewRx
    <3>3. QED
      BY <2>2, <3>1, <3>2, Zenon DEF OneReply, RepliesArrive
  <2>5. QED
    BY <2>3, <2>4
<1>3. QED
  BY <1>1, <1>2

(* A reply that nothing else is around with is sent into a free accumulator.  *)
LEMMA AnswerKeepsReply ==
  ASSUME IInv, NEW q \in server.todo, Answer(q)
  PROVE  RepliesArrive' /\ OneReply'
<1> DEFINE ok == q.call = "version" \/ server.known
           f == [i \in 1 .. Frame |-> [tag |-> q.tag, pos |-> i, ok |-> ok]]
<1>1. TypeOK /\ ~lost /\ OneReply
  BY DEF IInv, RepliesArrive
<1>2. wire' = wire \o f /\ UNCHANGED <<rx, buf, queued, job>>
  BY DEF Answer
<1>3. CASE excused \/ flight # {}
  <2>1. excused' = TRUE /\ lost' = FALSE
    BY <1>3, Zenon DEF Answer, Excuse
  <2>2. QED
    BY <2>1, ExcusedReply
<1>4. CASE ~(excused \/ flight # {})
  <2>1. flight' = {q.tag} /\ UNCHANGED <<excused, lost>>
    BY <1>4, Zenon DEF Answer
  <2>2. Quiet /\ rx.len = 0 /\ ~rx.hdr /\ ~rx.processing
    BY <1>1, <1>4 DEF OneReply
  <2>3. q.tag \in Tag /\ ok \in BOOLEAN
    BY <1>1, TypeParts DEF SessionTypes, ServerState
  <2>4. PICK r \in BOOLEAN : r = ok
    BY <2>3
  <2> HIDE DEF ok
  <2>5. Len(f) = Frame /\ f \in Seq([tag : Tag, pos : 1 .. Frame, ok : BOOLEAN])
        /\ \A i \in 1 .. Frame : f[i] = Part(q.tag, r, i)
    <3>1. f \in [1 .. Frame -> [tag : Tag, pos : 1 .. Frame, ok : BOOLEAN]]
      BY <2>3
    <3>2. \A i \in 1 .. Frame : f[i] = Part(q.tag, r, i)
      BY <2>4 DEF Part
    <3> HIDE DEF f
    <3>3. QED
      BY <3>1, <3>2, FunctionSeq, Bounds
  <2> HIDE DEF f
  <2>6. wire' = f
    BY <1>2, <2>2, <2>5 DEF Quiet
  <2>7. Begins(buf', rx'.len, q.tag, r)
    BY <1>2, <2>2 DEF Begins
  <2>8. \A i \in 1 .. Len(wire') : wire'[i] = Part(q.tag, r, rx'.len + i)
    BY <1>2, <2>2, <2>5, <2>6, Bounds
  <2>9. rx'.len < Frame /\ Len(wire') = Frame - rx'.len /\ (rx'.hdr <=> rx'.len > 0)
    BY <1>2, <2>2, <2>5, <2>6, Bounds
  <2>10. ~queued' /\ job'.at = "idle" /\ ~rx'.processing /\ ~rx'.hdr
    BY <1>2, <2>2 DEF Quiet
  <2>11. OnLine(q.tag, r)'
    BY <2>7, <2>8, <2>9, <2>10 DEF OnLine, Begins, Part
  <2>12. QED
    BY <1>1, <2>1, <2>3, <2>11, Zenon DEF OneReply, RepliesArrive
<1>5. QED
  BY <1>3, <1>4

LEMMA NextKeepsReply ==
  ASSUME IInv, [Next]_vars
  PROVE  RepliesArrive' /\ OneReply'
<1>1. ASSUME Restart PROVE RepliesArrive' /\ OneReply'
  <2>1. excused' = TRUE /\ lost' = FALSE
    BY <1>1 DEF Restart, Excuse
  <2>2. QED
    BY <2>1, ExcusedReply
<1>2. ASSUME NEW h \in Thread, GoesOn(h) PROVE RepliesArrive' /\ OneReply'
  <2>1. UNCHANGED <<rx, buf, queued, job, wire, history>>
    BY <1>2 DEF GoesOn, Down, Timeout
  <2>2. QED
    BY <2>1, ReplyFrame
<1>3. ASSUME UNCHANGED vars PROVE RepliesArrive' /\ OneReply'
  <2>1. UNCHANGED <<rx, buf, queued, job, wire, history>>
    BY <1>3 DEF vars
  <2>2. QED
    BY <2>1, ReplyFrame
<1>4. QED
  BY <1>1, <1>2, <1>3, IsrKeepsReply, TakeKeepsReply, CopyKeepsReply, ClearKeepsReply,
     DeliverKeepsReply, BeginKeepsReply, AnswerKeepsReply, Zenon DEF Next, Handler

-----------------------------------------------------------------------------
LEMMA InitInv ==
  ASSUME Init
  PROVE  IInv
<1>1. Quiet /\ rx.len = 0 /\ ~rx.hdr /\ ~rx.processing
  BY DEF Init, Quiet, NewRx, NoJob
<1>2. QED
  BY <1>1, InitTypes DEF Init, IInv, RepliesArrive, OneReply

LEMMA NextInv ==
  ASSUME IInv, [Next]_vars
  PROVE  IInv'
<1>1. TypeOK'
  BY NextTypes DEF IInv
<1>2. QED
  BY <1>1, NextKeepsReply DEF IInv

LEMMA InvHolds == Spec => []IInv
<1>1. Init => IInv
  BY InitInv
<1>2. IInv /\ [Next]_vars => IInv'
  BY NextInv
<1>3. QED
  BY <1>1, <1>2, PTL DEF Spec

(* The interrupt never writes behind the accumulator, whatever bytes the line  *)
(* brings and wherever in a message or in the work item's handler they come   *)
(* (mesh_uart_isr), and what is handed over fits it.                          *)
THEOREM TypeCorrect == Spec => []TypeOK
<1>1. IInv => TypeOK
  BY DEF IInv
<1>2. QED
  BY InvHolds, <1>1, PTL

(* Once mesh_ensure_attached has cleared the accumulator of a quiet line, no   *)
(* reply that is alone is dropped or torn: the work item has freed the        *)
(* accumulator (mesh_rx_work_handler) before it hands the reply to the client *)
(* whose next request may bring another.                                     *)
THEOREM AloneRepliesArrive == Spec => []RepliesArrive
<1>1. IInv => RepliesArrive
  BY DEF IInv
<1>2. QED
  BY InvHolds, <1>1, PTL

=============================================================================

---------------------------- MODULE MeshDrain_proofs ----------------------------
(* Collecting chunks over the mesh, for every number of gateways, clients,    *)
(* neighbours and chunks, every size of batch and buffer, whatever is lost,  *)
(* late or sent again: no chunk is told twice, each client tells a            *)
(* neighbour's chunks in their order, and each that is lost is owed to        *)
(* something that went wrong, which costs one batch at most.                 *)
EXTENDS MeshDrain, Integers, FiniteSetTheorems, TLAPS

LEMMA Bounds ==
  /\ Peers \in Nat /\ Peers > 0 /\ Batch \in Nat /\ Batch > 0 /\ Cap \in Nat /\ Cap > 0
  /\ MaxDrained \in Nat /\ MaxDrained > 0 /\ MaxIter \in Nat /\ MaxIter > 0
  /\ Attempts \in Nat /\ Attempts > 0 /\ Reads \in Nat /\ Reads > 0
  /\ Chunks \in Nat /\ MaxFaults \in Nat /\ MaxCrowded \in Nat
  /\ Modes \subseteq {"drain", "probe"}
BY DrainAssumption

(* Sequences                                                                 *)
LEMMA AppendedSeq ==
  ASSUME NEW S, NEW s \in Seq(S), NEW e \in S
  PROVE  /\ Append(s, e) \in Seq(S) /\ Len(Append(s, e)) = Len(s) + 1 /\ Len(s) \in Nat
         /\ \A i \in 1 .. Len(s) : Append(s, e)[i] = s[i]
         /\ Append(s, e)[Len(s) + 1] = e
OBVIOUS

LEMMA TailSeq ==
  ASSUME NEW S, NEW s \in Seq(S), s # <<>>
  PROVE  /\ Tail(s) \in Seq(S) /\ Len(Tail(s)) = Len(s) - 1 /\ Len(s) > 0 /\ Len(s) \in Nat
         /\ \A i \in 1 .. Len(s) - 1 : Tail(s)[i] = s[i + 1]
         /\ Head(s) = s[1] /\ Head(s) \in S
OBVIOUS

LEMMA ElementOfSeq ==
  ASSUME NEW S, NEW s \in Seq(S), NEW i \in 1 .. Len(s)
  PROVE  s[i] \in S
OBVIOUS

LEMMA ConcatSeq ==
  ASSUME NEW S, NEW s \in Seq(S), NEW t \in Seq(S)
  PROVE  /\ s \o t \in Seq(S) /\ Len(s \o t) = Len(s) + Len(t)
         /\ Len(s) \in Nat /\ Len(t) \in Nat
         /\ \A i \in 1 .. Len(s) : (s \o t)[i] = s[i]
         /\ \A i \in 1 .. Len(t) : (s \o t)[Len(s) + i] = t[i]
OBVIOUS

LEMMA FunctionSeq ==
  ASSUME NEW S, NEW n \in Nat, NEW f \in [1 .. n -> S]
  PROVE  f \in Seq(S) /\ Len(f) = n
OBVIOUS

-----------------------------------------------------------------------------
(* Types                                                                     *)

Datagram == [to : {home[c] : c \in Client}, msg : Msg]

LEMMA MsgTypes ==
  /\ Eof \in Msg /\ Eof.op = "eof"
  /\ \A m \in Msg : m.from \in Nat /\ m.n \in Nat /\ m.ok \in BOOLEAN
  /\ \A m \in Msg : Brings(m) \in BOOLEAN
BY DEF Msg, Eof, Op, Brings

LEMMA QueueTypes ==
  ASSUME TypeOK
  PROVE  /\ \A c \in Client : rxq[c] \in Seq(Msg) /\ Len(rxq[c]) \in Nat
         /\ \A c \in Client : \A i \in 1 .. Len(rxq[c]) : rxq[c][i] \in Msg
         /\ \A p \in Peer : air[p] \in Seq(Datagram) /\ Len(air[p]) \in Nat
         /\ \A p \in Peer : \A i \in 1 .. Len(air[p]) : air[p][i].msg \in Msg
         /\ \A p \in Peer : next[p] \in 0 .. Chunks
<1>1. ASSUME NEW c \in Client
      PROVE  /\ rxq[c] \in Seq(Msg) /\ Len(rxq[c]) \in Nat
             /\ \A i \in 1 .. Len(rxq[c]) : rxq[c][i] \in Msg
  <2>1. rxq[c] \in Seq(Msg)
    BY DEF TypeOK
  <2>2. QED
    BY <2>1, ElementOfSeq
<1>2. ASSUME NEW p \in Peer
      PROVE  /\ air[p] \in Seq(Datagram) /\ Len(air[p]) \in Nat
             /\ \A i \in 1 .. Len(air[p]) : air[p][i].msg \in Msg
  <2>1. air[p] \in Seq(Datagram)
    BY DEF TypeOK, Datagram
  <2>2. \A i \in 1 .. Len(air[p]) : air[p][i] \in Datagram
    BY <2>1, ElementOfSeq
  <2>3. QED
    BY <2>1, <2>2 DEF Datagram
<1>3. QED
  BY <1>1, <1>2 DEF TypeOK

LEMMA OutTypes ==
  ASSUME TypeOK, NEW c \in Client
  PROVE  /\ out[c] \in Seq(Peer \X Nat) /\ Len(out[c]) \in Nat
         /\ \A i \in 1 .. Len(out[c]) : out[c][i][1] \in Peer /\ out[c][i][2] \in Nat
<1>1. out[c] \in Seq(Peer \X Nat)
  BY DEF TypeOK
<1>2. \A i \in 1 .. Len(out[c]) : out[c][i] \in Peer \X Nat
  BY <1>1, ElementOfSeq
<1>3. QED
  BY <1>1, <1>2

LEMMA ClientTypes ==
  ASSUME TypeOK, NEW c \in Client
  PROVE  /\ cl[c] \in ClientState
         /\ cl[c].at \in {"idle", "next", "send", "wait"} /\ cl[c].mode \in {"drain", "probe"}
         /\ cl[c].peer \in 0 .. Peers /\ cl[c].drained \in 0 .. MaxDrained
         /\ cl[c].room \in 0 .. Cap /\ cl[c].step \in Op /\ cl[c].tag \in Nat
         /\ cl[c].try \in 0 .. Attempts - 1 /\ cl[c].reads \in 0 .. Reads - 1
         /\ cl[c].iter \in 0 .. MaxIter - 1 /\ cl[c].got \in Nat /\ cl[c].pass \in Nat
BY DEF TypeOK, ClientState

LEMMA IdleType ==
  Idle \in ClientState
<1>1. 0 \in 0 .. Peers /\ 0 \in 0 .. MaxDrained /\ 0 \in 0 .. Cap /\ 0 \in 0 .. Attempts - 1
      /\ 0 \in 0 .. Reads - 1 /\ 0 \in 0 .. MaxIter - 1 /\ 0 \in Nat
  BY Bounds
<1>2. "idle" \in {"idle", "next", "send", "wait"} /\ "drain" \in {"drain", "probe"} /\ "version" \in Op
  BY DEF Op
<1>3. QED
  BY <1>1, <1>2, Zenon DEF Idle, ClientState

(* A client's next state.                                                    *)
LEMMA OneClient ==
  ASSUME TypeOK, NEW c \in Client, NEW k \in ClientState, cl' = [cl EXCEPT ![c] = k]
  PROVE  /\ cl' \in [Client -> ClientState] /\ cl'[c] = k
         /\ \A d \in Client \ {c} : cl'[d] = cl[d]
BY DEF TypeOK

(* The end of a session.                                                     *)
LEMMA DoneType ==
  ASSUME TypeOK, NEW c \in Client, cl[c].drained < MaxDrained, NEW got, NEW room \in 0 .. Cap
  PROVE  /\ Done(c, got) \in ClientState /\ Done(c, got).at = "next"
         /\ [Done(c, got) EXCEPT !.room = room] \in ClientState
         /\ [Done(c, got) EXCEPT !.room = room].at = "next"
<1> DEFINE k == cl[c]
           n == IF k.mode = "probe" \/ got > 0 THEN k.drained + 1 ELSE k.drained
<1>1. n \in 0 .. MaxDrained
  BY ClientTypes, Bounds
<1>2. Done(c, got) = [Idle EXCEPT !.at = "next", !.mode = k.mode, !.peer = k.peer, !.pass = k.pass,
                                  !.room = k.room, !.drained = n]
  BY Zenon DEF Done
<1>3. k.mode \in {"drain", "probe"} /\ k.peer \in 0 .. Peers /\ k.pass \in Nat /\ k.room \in 0 .. Cap
      /\ "next" \in {"idle", "next", "send", "wait"}
  BY ClientTypes
<1> HIDE DEF n, k
<1>4. Done(c, got) \in ClientState
  BY <1>1, <1>2, <1>3, IdleType, Zenon DEF ClientState
<1>5. Done(c, got).at = "next"
  BY <1>2, IdleType DEF ClientState
<1>6. [Done(c, got) EXCEPT !.room = room] \in ClientState
  BY <1>4, Zenon DEF ClientState
<1>7. QED
  BY <1>4, <1>5, <1>6 DEF ClientState

LEMMA AgainType ==
  ASSUME TypeOK, NEW c \in Client, cl[c].drained < MaxDrained
  PROVE  /\ Again(c) \in ClientState
         /\ Again(c).at \in {"next", "send"}
         /\ Again(c).at = "send" => /\ Again(c).peer = cl[c].peer
                                    /\ Again(c).drained = cl[c].drained
                                    /\ Again(c).room = cl[c].room
<1>1. CASE cl[c].try + 1 = Attempts
  <2>1. Again(c) = Done(c, cl[c].got)
    BY <1>1 DEF Again
  <2>2. Done(c, cl[c].got) \in ClientState /\ Done(c, cl[c].got).at = "next"
    BY DoneType, ClientTypes
  <2>3. QED
    BY <2>1, <2>2
<1>2. CASE cl[c].try + 1 # Attempts
  <2> DEFINE n == cl[c].try + 1
  <2>1. Again(c) = [cl[c] EXCEPT !.at = "send", !.try = n, !.reads = 0]
    BY <1>2 DEF Again
  <2>2. n \in 0 .. Attempts - 1 /\ 0 \in 0 .. Reads - 1
    BY <1>2, ClientTypes, Bounds
  <2> HIDE DEF n
  <2>3. "send" \in {"idle", "next", "send", "wait"} /\ cl[c] \in ClientState
    BY ClientTypes
  <2>4. Again(c) \in ClientState
    BY <2>1, <2>2, <2>3, Zenon DEF ClientState
  <2>5. Again(c).at = "send" /\ Again(c).peer = cl[c].peer /\ Again(c).drained = cl[c].drained
        /\ Again(c).room = cl[c].room
    BY <2>1, <2>3 DEF ClientState
  <2>6. QED
    BY <2>4, <2>5
<1>3. QED
  BY <1>1, <1>2

-----------------------------------------------------------------------------
(* What steps do to a peer and its replies                                   *)

(* Peer p sends a reply, with chunks that are then gone.                     *)
Gives(p, g) ==
  /\ air' = [air EXCEPT ![p] = Append(@, g)]
  /\ next' \in [Peer -> 0 .. Chunks] /\ \A q \in Peer : next[q] <= next'[q]
  /\ Brings(g.msg) => g.msg.from = next[p] /\ g.msg.from + g.msg.n <= next'[p]

(* The reply is to client c's request and has the chunks that are then gone.  *)
Answers(p, c, g) ==
  /\ g.to = home[c] /\ g.msg.tag = cl[c].tag /\ AtMostBatch(g.msg)
  /\ \A q \in Peer : next'[q] = next[q] \/ (q = p /\ In(g.msg) = next[p] .. next'[p] - 1)

(* gen_mflt gives away what it tells, and no more.                           *)
LEMMA ServeGives ==
  ASSUME TypeOK, NEW p \in Peer, NEW c \in Client, Serve(p, c)
  PROVE  srv' \in [Peer -> BOOLEAN] /\ \E g \in Datagram : Gives(p, g) /\ Answers(p, c, g)
<1> DEFINE op == cl[c].step
           ok == op = "version" \/ srv[p] = (op = "read")
           n == IF Chunks - next[p] < Batch THEN Chunks - next[p] ELSE Batch
           b == IF ok /\ op = "read" THEN Served(p) ELSE <<0, 0, next>>
           m == Answer(op, cl[c].tag, ok, b[1], b[2])
           g == [to |-> home[c], msg |-> m]
<1>1. /\ srv' = [srv EXCEPT ![p] = op = "open" \/ (op = "read" /\ @)]
      /\ next' = b[3] /\ air' = [air EXCEPT ![p] = Append(@, g)]
  BY Zenon DEF Serve
<1>2. /\ next \in [Peer -> 0 .. Chunks] /\ next[p] \in 0 .. Chunks /\ srv \in [Peer -> BOOLEAN]
      /\ op \in Op /\ cl[c].tag \in Nat
  BY ClientTypes DEF TypeOK
<1>3. n \in Nat /\ next[p] + n \in 0 .. Chunks /\ n <= Batch
  BY <1>2, Bounds
<1>4. ok \in BOOLEAN
  BY <1>2
<1>5. srv' \in [Peer -> BOOLEAN]
  <2> DEFINE x == op = "open" \/ (op = "read" /\ srv[p])
  <2>1. srv' = [srv EXCEPT ![p] = x] /\ x \in BOOLEAN
    BY <1>1, <1>2, Zenon
  <2> HIDE DEF x
  <2>2. QED
    BY <1>2, <2>1
<1>6. CASE ok /\ op = "read"
  <2>1. b[1] = next[p] /\ b[2] = n /\ b[3] = [next EXCEPT ![p] = next[p] + n]
    BY <1>6 DEF Served, Consume
  <2> HIDE DEF n, b
  <2>2. m = [op |-> "read", tag |-> cl[c].tag, ok |-> ok, from |-> next[p], n |-> n]
    BY <1>6, <2>1 DEF Answer
  <2> HIDE DEF ok
  <2>3. m \in Msg /\ m.from = next[p] /\ m.n = n /\ m.op = "read" /\ m.tag = cl[c].tag
    BY <1>2, <1>3, <1>4, <2>2, Bounds DEF Msg, Op
  <2> HIDE DEF m
  <2>4. g \in Datagram /\ g.msg = m /\ g.to = home[c]
    BY <2>3 DEF Datagram
  <2>5. /\ next' \in [Peer -> 0 .. Chunks] /\ next'[p] = next[p] + n
        /\ \A q \in Peer : next[q] <= next'[q]
        /\ \A q \in Peer \ {p} : next'[q] = next[q]
    BY <1>1, <1>2, <1>3, <2>1, Bounds
  <2>6. g.msg.from = next[p] /\ g.msg.from + g.msg.n <= next'[p]
    BY <1>2, <1>3, <2>3, <2>4, <2>5
  <2>7. Gives(p, g)
    BY <1>1, <2>5, <2>6, Zenon DEF Gives
  <2>8. In(g.msg) = next[p] .. next'[p] - 1 /\ AtMostBatch(g.msg)
    <3>1. g.msg.op = "read" /\ g.msg.from = next[p] /\ g.msg.n = n
      BY <2>3, <2>4
    <3> HIDE DEF g
    <3>2. In(g.msg) = next[p] .. next[p] + n - 1
      BY <3>1 DEF In
    <3>3. AtMostBatch(g.msg)
      BY <1>3, <3>1 DEF AtMostBatch
    <3>4. next[p] + n - 1 = next'[p] - 1
      BY <1>2, <1>3, <2>5, Bounds
    <3>5. QED
      BY <3>2, <3>3, <3>4, Zenon
  <2>9. Answers(p, c, g)
    BY <2>3, <2>4, <2>5, <2>8 DEF Answers
  <2>10. QED
    BY <1>5, <2>4, <2>7, <2>9, Zenon
<1>7. CASE ~(ok /\ op = "read")
  <2>1. b = <<0, 0, next>>
    BY <1>7, Zenon
  <2>2. b[1] = 0 /\ b[2] = 0 /\ b[3] = next
    BY <2>1
  <2> HIDE DEF b
  <2>3. m = [op |-> op, tag |-> cl[c].tag, ok |-> ok, from |-> 0, n |-> 0]
    BY <2>2 DEF Answer
  <2> HIDE DEF ok, op
  <2>4. m \in Msg /\ m.n = 0 /\ m.tag = cl[c].tag
    BY <1>2, <1>4, <2>3 DEF Msg
  <2>5. ~Brings(m)
    <3>1. m.op = op /\ m.ok = ok
      BY <1>4, <2>3
    <3>2. QED
      BY <1>7, <3>1 DEF Brings
  <2> HIDE DEF m
  <2>6. g \in Datagram /\ g.msg = m /\ g.to = home[c]
    BY <2>4 DEF Datagram
  <2>7. next' = next /\ \A q \in Peer : next[q] <= next'[q]
    BY <1>1, <1>2, <2>2, Bounds
  <2>8. Gives(p, g)
    BY <1>1, <1>2, <2>5, <2>6, <2>7, Zenon DEF Gives
  <2>9. Answers(p, c, g)
    BY <2>4, <2>6, <2>7, Bounds DEF Answers, AtMostBatch
  <2>10. QED
    BY <1>5, <2>6, <2>8, <2>9, Zenon
<1>8. QED
  BY <1>6, <1>7

(* No session begins.                                                        *)
Stays == \A c \in Client : Connected(c)' => Connected(c) /\ cl'[c].peer = cl[c].peer

Orderly == ~crossed => QueueInOrder /\ QueuesApart /\ OutIsOver /\ ToldOnceInOrder

(* Sessions may end where nothing else happens.                              *)
LEMMA StaysOrderly ==
  ASSUME TypeOK, AirInOrder, Orderly, Stays,
         UNCHANGED <<home, rxq, out, next, air>>, crossed => crossed'
  PROVE  AirInOrder' /\ Orderly'
<1>1. AirInOrder'
  BY DEF AirInOrder, Brings, Before
<1>2. CASE ~crossed'
  <2>1. QueueInOrder /\ QueuesApart /\ OutIsOver /\ ToldOnceInOrder
    BY <1>2 DEF Orderly
  <2>2. QueueInOrder'
    BY <2>1 DEF QueueInOrder, Stays, Brings, Before
  <2>3. QueuesApart'
    BY <2>1 DEF QueuesApart, Stays, Brings, Before
  <2>4. OutIsOver'
    <3>1. SUFFICES ASSUME NEW c \in Client, NEW i \in 1 .. Len(out[c]), NEW p, NEW x,
                          p = out[c][i][1], x = out[c][i][2]
                   PROVE  ToldBefore(c, p, x)'
      BY DEF OutIsOver
    <3>2. ToldBefore(c, p, x)
      BY <2>1, <3>1 DEF OutIsOver
    <3>3. QED
      BY <3>2 DEF ToldBefore, Stays, Brings
  <2>5. ToldOnceInOrder'
    BY <1>2, <2>1 DEF ToldOnceInOrder
  <2>6. QED
    BY <1>1, <2>2, <2>3, <2>4, <2>5 DEF Orderly
<1>3. QED
  BY <1>1, <1>2 DEF Orderly

(* A session is with a neighbour.                                            *)
LEMMA SessionPeer ==
  ASSUME TypeOK, InSession, NEW c \in Client, Connected(c)
  PROVE  cl[c].peer \in Peer
BY ClientTypes, Bounds DEF InSession, Peer

LEMMA GivenAir ==
  ASSUME TypeOK, NEW p \in Peer, NEW g \in Datagram, Gives(p, g)
  PROVE  /\ air' \in [Peer -> Seq(Datagram)]
         /\ \A q \in Peer : \A j \in 1 .. Len(air'[q]) :
              \/ j \in 1 .. Len(air[q]) /\ air'[q][j] = air[q][j]
              \/ q = p /\ j = Len(air[p]) + 1 /\ air'[q][j] = g
<1>1. air \in [Peer -> Seq(Datagram)] /\ air' = [air EXCEPT ![p] = Append(air[p], g)]
  BY DEF TypeOK, Datagram, Gives
<1>2. /\ Append(air[p], g) \in Seq(Datagram) /\ Len(Append(air[p], g)) = Len(air[p]) + 1
      /\ Len(air[p]) \in Nat
      /\ \A i \in 1 .. Len(air[p]) : Append(air[p], g)[i] = air[p][i]
      /\ Append(air[p], g)[Len(air[p]) + 1] = g
  BY <1>1, AppendedSeq
<1>3. air'[p] = Append(air[p], g) /\ \A q \in Peer \ {p} : air'[q] = air[q]
  BY <1>1
<1>4. air' \in [Peer -> Seq(Datagram)]
  BY <1>1, <1>2
<1>5. ASSUME NEW q \in Peer, NEW j \in 1 .. Len(air'[q])
      PROVE  \/ j \in 1 .. Len(air[q]) /\ air'[q][j] = air[q][j]
             \/ q = p /\ j = Len(air[p]) + 1 /\ air'[q][j] = g
  <2>1. CASE q = p
    <3>1. j \in 1 .. Len(air[p]) \/ j = Len(air[p]) + 1
      BY <1>2, <1>3, <1>5, <2>1
    <3>2. QED
      BY <1>2, <1>3, <2>1, <3>1
  <2>2. CASE q # p
    BY <1>3, <1>5, <2>2
  <2>3. QED
    BY <2>1, <2>2
<1>6. QED
  BY <1>4, <1>5

(* What is given is given after all that was before.                         *)
LEMMA GivesOrderly ==
  ASSUME TypeOK, InSession, AirInOrder, Orderly, Stays, NEW p \in Peer, NEW g \in Datagram, Gives(p, g),
         UNCHANGED <<home, rxq, out>>, crossed => crossed'
  PROVE  AirInOrder' /\ Orderly'
<1>1. \A q \in Peer : \A j \in 1 .. Len(air'[q]) :
        \/ j \in 1 .. Len(air[q]) /\ air'[q][j] = air[q][j]
        \/ q = p /\ j = Len(air[p]) + 1 /\ air'[q][j] = g
  BY GivenAir
<1>2. \A q \in Peer : next[q] \in Nat /\ next'[q] \in Nat /\ next[q] <= next'[q]
  BY Bounds DEF Gives, TypeOK
<1>3. g.msg \in Msg /\ (Brings(g.msg) => g.msg.from = next[p] /\ g.msg.from + g.msg.n <= next'[p])
  BY DEF Gives, Datagram
<1>4. AirInOrder'
  <2>1. SUFFICES ASSUME NEW q \in Peer, NEW i \in 1 .. Len(air'[q])
                 PROVE  /\ Brings(air'[q][i].msg) => air'[q][i].msg.from + air'[q][i].msg.n <= next'[q]
                        /\ \A j \in 1 .. Len(air'[q]) : i < j => Before(air'[q][i].msg, air'[q][j].msg)
    BY DEF AirInOrder, Brings, Before
  <2>2. CASE i \in 1 .. Len(air[q]) /\ air'[q][i] = air[q][i]
    <3>1. Brings(air[q][i].msg) => air[q][i].msg.from + air[q][i].msg.n <= next[q]
      BY <2>2 DEF AirInOrder
    <3>2. air[q][i].msg \in Msg
      BY <2>2, QueueTypes
    <3>3. ASSUME NEW j \in 1 .. Len(air'[q]), i < j
          PROVE  Before(air'[q][i].msg, air'[q][j].msg)
      <4>1. CASE j \in 1 .. Len(air[q]) /\ air'[q][j] = air[q][j]
        BY <2>2, <3>3, <4>1 DEF AirInOrder
      <4>2. CASE q = p /\ air'[q][j] = g
        BY <1>2, <1>3, <2>2, <3>1, <3>2, <4>2, MsgTypes DEF Before
      <4>3. QED
        BY <1>1, <3>3, <4>1, <4>2
    <3>4. Brings(air[q][i].msg) => air[q][i].msg.from + air[q][i].msg.n <= next'[q]
      <4>1. air[q][i].msg.from \in Nat /\ air[q][i].msg.n \in Nat
        BY <3>2, MsgTypes
      <4>2. QED
        BY <1>2, <3>1, <4>1
    <3>5. QED
      BY <2>2, <3>3, <3>4
  <2>3. CASE q = p /\ i = Len(air[p]) + 1 /\ air'[q][i] = g
    <3>1. \A j \in 1 .. Len(air'[q]) : ~(i < j)
      BY <1>1, <2>3, QueueTypes
    <3>2. QED
      BY <1>3, <2>3, <3>1
  <2>4. QED
    BY <1>1, <2>1, <2>2, <2>3
<1>5. CASE ~crossed'
  <2>1. QueueInOrder /\ QueuesApart /\ OutIsOver /\ ToldOnceInOrder
    BY <1>5 DEF Orderly
  <2>2. QueueInOrder'
    <3>1. SUFFICES ASSUME NEW c \in Client, Connected(c)', NEW i \in 1 .. Len(rxq[c])
                   PROVE  /\ Brings(rxq[c][i]) => rxq[c][i].from + rxq[c][i].n <= next'[cl[c].peer]
                          /\ \A j \in 1 .. Len(rxq[c]) : i < j => Before(rxq[c][i], rxq[c][j])
                          /\ \A j \in 1 .. Len(air'[cl[c].peer]) : Before(rxq[c][i], air'[cl[c].peer][j].msg)
      BY DEF QueueInOrder, Stays, Brings, Before
    <3>2. /\ Brings(rxq[c][i]) => rxq[c][i].from + rxq[c][i].n <= next[cl[c].peer]
          /\ \A j \in 1 .. Len(rxq[c]) : i < j => Before(rxq[c][i], rxq[c][j])
          /\ \A j \in 1 .. Len(air[cl[c].peer]) : Before(rxq[c][i], air[cl[c].peer][j].msg)
      BY <2>1, <3>1 DEF QueueInOrder, Stays
    <3>3. rxq[c][i] \in Msg /\ rxq[c][i].from \in Nat /\ rxq[c][i].n \in Nat
      BY QueueTypes, MsgTypes
    <3>4. PICK q : q = cl[c].peer
      OBVIOUS
    <3>5. q \in Peer
      <4>1. Connected(c) /\ cl[c].peer \in 0 .. Peers
        BY <3>1, ClientTypes DEF Stays
      <4>2. QED
        BY <3>4, <4>1, SessionPeer
    <3>6. Brings(rxq[c][i]) => rxq[c][i].from + rxq[c][i].n <= next'[q]
      BY <1>2, <3>2, <3>3, <3>4, <3>5
    <3>7. ASSUME NEW j \in 1 .. Len(air'[q]) PROVE Before(rxq[c][i], air'[q][j].msg)
      <4>1. CASE j \in 1 .. Len(air[q]) /\ air'[q][j] = air[q][j]
        BY <3>2, <3>4, <4>1
      <4>2. CASE q = p /\ air'[q][j] = g
        BY <1>3, <3>2, <3>4, <4>2 DEF Before
      <4>3. QED
        BY <1>1, <3>5, <3>7, <4>1, <4>2
    <3>8. QED
      BY <3>2, <3>4, <3>6, <3>7
  <2>3. QueuesApart'
    BY <2>1 DEF QueuesApart, Stays, Brings, Before
  <2>4. OutIsOver'
    <3>1. SUFFICES ASSUME NEW c \in Client, NEW i \in 1 .. Len(out[c]), NEW q, NEW x,
                          q = out[c][i][1], x = out[c][i][2]
                   PROVE  ToldBefore(c, q, x)'
      BY DEF OutIsOver
    <3>2. ToldBefore(c, q, x) /\ q \in Peer /\ x \in Nat
      BY <2>1, <3>1, OutTypes DEF OutIsOver
    <3>3. x < next'[q]
      BY <1>2, <3>2 DEF ToldBefore
    <3>4. ASSUME NEW j \in 1 .. Len(air'[q]), Brings(air'[q][j].msg)
          PROVE  x < air'[q][j].msg.from
      <4>1. CASE j \in 1 .. Len(air[q]) /\ air'[q][j] = air[q][j]
        BY <3>2, <3>4, <4>1 DEF ToldBefore
      <4>2. CASE q = p /\ air'[q][j] = g
        BY <1>3, <3>2, <3>4, <4>2 DEF ToldBefore
      <4>3. QED
        BY <1>1, <3>2, <3>4, <4>1, <4>2
    <3>5. QED
      BY <3>2, <3>3, <3>4 DEF ToldBefore, Stays, Brings
  <2>5. ToldOnceInOrder'
    BY <1>5, <2>1 DEF ToldOnceInOrder
  <2>6. QED
    BY <1>4, <2>2, <2>3, <2>4, <2>5 DEF Orderly
<1>6. QED
  BY <1>4, <1>5 DEF Orderly

(* The first reply on its way from p is gone.                                *)
LeavesAir(p) == air[p] # <<>> /\ air' = [air EXCEPT ![p] = Tail(@)]

(* Where the j-th reply of q was before.                                     *)
Was(p, q, j) == IF q = p THEN j + 1 ELSE j

LEMMA LeftAir ==
  ASSUME TypeOK, NEW p \in Peer, LeavesAir(p)
  PROVE  /\ air' \in [Peer -> Seq(Datagram)]
         /\ Head(air[p]) = air[p][1] /\ Head(air[p]) \in Datagram /\ 1 \in 1 .. Len(air[p])
         /\ \A q \in Peer : \A j \in 1 .. Len(air'[q]) :
              /\ Was(p, q, j) \in 1 .. Len(air[q]) /\ air'[q][j] = air[q][Was(p, q, j)]
              /\ q = p => 1 < Was(p, q, j)
<1>1. air \in [Peer -> Seq(Datagram)] /\ air[p] # <<>> /\ air' = [air EXCEPT ![p] = Tail(air[p])]
  BY DEF TypeOK, Datagram, LeavesAir
<1>2. /\ Tail(air[p]) \in Seq(Datagram) /\ Len(Tail(air[p])) = Len(air[p]) - 1
      /\ Len(air[p]) > 0 /\ Len(air[p]) \in Nat
      /\ \A i \in 1 .. Len(air[p]) - 1 : Tail(air[p])[i] = air[p][i + 1]
      /\ Head(air[p]) = air[p][1] /\ Head(air[p]) \in Datagram
  BY <1>1, TailSeq
<1>3. air'[p] = Tail(air[p]) /\ \A q \in Peer \ {p} : air'[q] = air[q]
  BY <1>1
<1>4. air' \in [Peer -> Seq(Datagram)] /\ 1 \in 1 .. Len(air[p])
  BY <1>1, <1>2
<1>5. ASSUME NEW q \in Peer, NEW j \in 1 .. Len(air'[q])
      PROVE  /\ Was(p, q, j) \in 1 .. Len(air[q]) /\ air'[q][j] = air[q][Was(p, q, j)]
             /\ q = p => 1 < Was(p, q, j)
  <2>1. CASE q = p
    <3>1. Len(air'[q]) = Len(air[p]) - 1
      BY <1>2, <1>3, <2>1
    <3>2. j \in 1 .. Len(air[p]) - 1 /\ j + 1 \in 1 .. Len(air[p]) /\ 1 < j + 1
      BY <1>2, <1>5, <3>1
    <3>3. QED
      BY <1>2, <1>3, <2>1, <3>2 DEF Was
  <2>2. CASE q # p
    BY <1>3, <1>5, <2>2 DEF Was
  <2>3. QED
    BY <2>1, <2>2
<1>6. QED
  BY <1>2, <1>4, <1>5

LEMMA LeftInOrder ==
  ASSUME TypeOK, AirInOrder, NEW p \in Peer, LeavesAir(p), UNCHANGED next
  PROVE  AirInOrder'
<1>1. SUFFICES ASSUME NEW q \in Peer, NEW i \in 1 .. Len(air'[q])
               PROVE  /\ Brings(air'[q][i].msg) => air'[q][i].msg.from + air'[q][i].msg.n <= next[q]
                      /\ \A j \in 1 .. Len(air'[q]) : i < j => Before(air'[q][i].msg, air'[q][j].msg)
  BY DEF AirInOrder, Brings, Before
<1>2. PICK k \in 1 .. Len(air[q]) : k = Was(p, q, i) /\ air'[q][i] = air[q][k]
  BY LeftAir
<1>3. ASSUME NEW j \in 1 .. Len(air'[q]), i < j PROVE Before(air'[q][i].msg, air'[q][j].msg)
  <2>1. PICK l \in 1 .. Len(air[q]) : l = Was(p, q, j) /\ air'[q][j] = air[q][l]
    BY LeftAir
  <2>2. k < l
    BY <1>2, <1>3, <2>1 DEF Was
  <2>3. QED
    BY <1>2, <2>1, <2>2 DEF AirInOrder
<1>4. QED
  BY <1>2, <1>3 DEF AirInOrder

(* A reply that is lost.                                                     *)
LEMMA LoseOrderly ==
  ASSUME TypeOK, InSession, AirInOrder, Orderly, NEW p \in Peer, LeavesAir(p),
         UNCHANGED <<home, cl, rxq, out, next, crossed>>
  PROVE  AirInOrder' /\ Orderly'
<1>1. AirInOrder'
  BY LeftInOrder
<1>2. CASE ~crossed'
  <2>1. QueueInOrder /\ QueuesApart /\ OutIsOver /\ ToldOnceInOrder
    BY <1>2 DEF Orderly
  <2>2. QueueInOrder'
    <3>1. SUFFICES ASSUME NEW c \in Client, Connected(c), NEW i \in 1 .. Len(rxq[c]), NEW q, q = cl[c].peer
                   PROVE  /\ Brings(rxq[c][i]) => rxq[c][i].from + rxq[c][i].n <= next[q]
                          /\ \A j \in 1 .. Len(rxq[c]) : i < j => Before(rxq[c][i], rxq[c][j])
                          /\ \A j \in 1 .. Len(air'[q]) : Before(rxq[c][i], air'[q][j].msg)
      BY DEF QueueInOrder, Connected, Brings, Before
    <3>2. q \in Peer
      BY <3>1, SessionPeer
    <3>3. QED
      BY <2>1, <3>1, <3>2, LeftAir DEF QueueInOrder
  <2>3. QueuesApart'
    BY <2>1 DEF QueuesApart, Connected, Brings, Before
  <2>4. OutIsOver'
    <3>1. SUFFICES ASSUME NEW c \in Client, NEW i \in 1 .. Len(out[c]), NEW q, NEW x,
                          q = out[c][i][1], x = out[c][i][2]
                   PROVE  ToldBefore(c, q, x)'
      BY DEF OutIsOver
    <3>2. ToldBefore(c, q, x) /\ q \in Peer
      BY <2>1, <3>1, OutTypes DEF OutIsOver
    <3>3. \A j \in 1 .. Len(air'[q]) : Brings(air'[q][j].msg) => x < air'[q][j].msg.from
      BY <3>2, LeftAir DEF ToldBefore
    <3>4. QED
      BY <3>2, <3>3 DEF ToldBefore, Connected, Brings
  <2>5. ToldOnceInOrder'
    BY <1>2, <2>1 DEF ToldOnceInOrder
  <2>6. QED
    BY <1>1, <2>2, <2>3, <2>4, <2>5 DEF Orderly
<1>3. QED
  BY <1>1, <1>2 DEF Orderly

(* Who is connected to p for the gateway that asked takes the reply.         *)
Hears(c, p) == Connected(c) /\ cl[c].peer = p /\ home[c] = air[p][1].to

LEMMA HeardQueue ==
  ASSUME TypeOK, NEW p \in Peer, Arrive(p)
  PROVE  /\ LeavesAir(p) /\ UNCHANGED <<home, cl, out, next, crossed>>
         /\ rxq' \in [Client -> Seq(Msg)]
         /\ rxq' = [c \in Client |-> IF Hears(c, p) THEN Append(rxq[c], air[p][1].msg) ELSE rxq[c]]
         /\ \A c \in Client : \A i \in 1 .. Len(rxq'[c]) :
              \/ i \in 1 .. Len(rxq[c]) /\ rxq'[c][i] = rxq[c][i]
              \/ Hears(c, p) /\ i = Len(rxq[c]) + 1 /\ rxq'[c][i] = air[p][1].msg
<1>1. LeavesAir(p) /\ UNCHANGED <<home, cl, out, next, crossed>>
  BY DEF Arrive, LeavesAir, history
<1>2. Head(air[p]) = air[p][1] /\ Head(air[p]) \in Datagram /\ air[p][1].msg \in Msg
  BY <1>1, LeftAir DEF Datagram
<1>3. rxq' = [c \in Client |-> IF Hears(c, p) THEN Append(rxq[c], air[p][1].msg) ELSE rxq[c]]
  BY <1>2 DEF Arrive, Hears
<1>4. ASSUME NEW c \in Client
      PROVE  /\ rxq'[c] \in Seq(Msg)
             /\ \A i \in 1 .. Len(rxq'[c]) :
                  \/ i \in 1 .. Len(rxq[c]) /\ rxq'[c][i] = rxq[c][i]
                  \/ Hears(c, p) /\ i = Len(rxq[c]) + 1 /\ rxq'[c][i] = air[p][1].msg
  <2>1. rxq[c] \in Seq(Msg)
    BY QueueTypes
  <2>2. CASE ~Hears(c, p)
    BY <1>3, <2>1, <2>2
  <2>3. CASE Hears(c, p)
    <3>1. rxq'[c] = Append(rxq[c], air[p][1].msg)
      BY <1>3, <2>3
    <3>2. /\ Append(rxq[c], air[p][1].msg) \in Seq(Msg)
          /\ Len(Append(rxq[c], air[p][1].msg)) = Len(rxq[c]) + 1 /\ Len(rxq[c]) \in Nat
          /\ \A i \in 1 .. Len(rxq[c]) : Append(rxq[c], air[p][1].msg)[i] = rxq[c][i]
          /\ Append(rxq[c], air[p][1].msg)[Len(rxq[c]) + 1] = air[p][1].msg
      BY <1>2, <2>1, AppendedSeq
    <3>3. ASSUME NEW i \in 1 .. Len(rxq'[c])
          PROVE  i \in 1 .. Len(rxq[c]) \/ i = Len(rxq[c]) + 1
      BY <3>1, <3>2, <3>3
    <3>4. QED
      BY <2>3, <3>1, <3>2, <3>3
  <2>4. QED
    BY <2>2, <2>3
<1>5. rxq' \in [Client -> Seq(Msg)]
  BY <1>3, <1>4
<1>6. QED
  BY <1>1, <1>3, <1>4, <1>5

LEMMA ArriveOrderly ==
  ASSUME TypeOK, InSession, AirInOrder, Orderly, NEW p \in Peer, Arrive(p)
  PROVE  AirInOrder' /\ Orderly'
<1>1. /\ LeavesAir(p) /\ UNCHANGED <<home, cl, out, next, crossed>>
      /\ \A c \in Client : \A i \in 1 .. Len(rxq'[c]) :
           \/ i \in 1 .. Len(rxq[c]) /\ rxq'[c][i] = rxq[c][i]
           \/ Hears(c, p) /\ i = Len(rxq[c]) + 1 /\ rxq'[c][i] = air[p][1].msg
  BY HeardQueue
<1>2. AirInOrder' /\ 1 \in 1 .. Len(air[p])
  BY <1>1, LeftInOrder, LeftAir
<1>3. \A q \in Peer : \A j \in 1 .. Len(air'[q]) :
        Was(p, q, j) \in 1 .. Len(air[q]) /\ air'[q][j] = air[q][Was(p, q, j)]
  BY <1>1, LeftAir
<1>4. CASE ~crossed'
  <2>1. QueueInOrder /\ QueuesApart /\ OutIsOver /\ ToldOnceInOrder
    BY <1>1, <1>4 DEF Orderly
  <2>2. QueueInOrder'
    <3>1. SUFFICES ASSUME NEW c \in Client, Connected(c), NEW i \in 1 .. Len(rxq'[c]), NEW q, q = cl[c].peer
                   PROVE  /\ Brings(rxq'[c][i]) => rxq'[c][i].from + rxq'[c][i].n <= next[q]
                          /\ \A j \in 1 .. Len(rxq'[c]) : i < j => Before(rxq'[c][i], rxq'[c][j])
                          /\ \A j \in 1 .. Len(air'[q]) : Before(rxq'[c][i], air'[q][j].msg)
      BY <1>1 DEF QueueInOrder, Connected, Brings, Before
    <3>2. q \in Peer
      BY <3>1, SessionPeer
    <3>3. CASE i \in 1 .. Len(rxq[c]) /\ rxq'[c][i] = rxq[c][i]
      <4>1. /\ Brings(rxq[c][i]) => rxq[c][i].from + rxq[c][i].n <= next[q]
            /\ \A j \in 1 .. Len(rxq[c]) : i < j => Before(rxq[c][i], rxq[c][j])
            /\ \A j \in 1 .. Len(air[q]) : Before(rxq[c][i], air[q][j].msg)
        BY <2>1, <3>1, <3>3 DEF QueueInOrder
      <4>2. ASSUME NEW j \in 1 .. Len(rxq'[c]), i < j PROVE Before(rxq[c][i], rxq'[c][j])
        <5>1. CASE j \in 1 .. Len(rxq[c]) /\ rxq'[c][j] = rxq[c][j]
          BY <4>1, <4>2, <5>1
        <5>2. CASE Hears(c, p) /\ rxq'[c][j] = air[p][1].msg
          BY <1>2, <3>1, <4>1, <5>2 DEF Hears
        <5>3. QED
          BY <1>1, <5>1, <5>2
      <4>3. ASSUME NEW j \in 1 .. Len(air'[q]) PROVE Before(rxq[c][i], air'[q][j].msg)
        <5>1. Was(p, q, j) \in 1 .. Len(air[q]) /\ air'[q][j] = air[q][Was(p, q, j)]
          BY <1>3, <3>2, <4>3
        <5>2. QED
          BY <4>1, <5>1
      <4>4. QED
        BY <3>3, <4>1, <4>2, <4>3
    <3>4. CASE Hears(c, p) /\ i = Len(rxq[c]) + 1 /\ rxq'[c][i] = air[p][1].msg
      <4>1. q = p
        BY <3>1, <3>4 DEF Hears
      <4>2. /\ Brings(air[p][1].msg) => air[p][1].msg.from + air[p][1].msg.n <= next[p]
            /\ \A k \in 1 .. Len(air[p]) : 1 < k => Before(air[p][1].msg, air[p][k].msg)
        BY <1>2 DEF AirInOrder
      <4>3. \A j \in 1 .. Len(rxq'[c]) : ~(i < j)
        BY <1>1, <3>4, QueueTypes
      <4>4. \A j \in 1 .. Len(air'[p]) : Before(air[p][1].msg, air'[p][j].msg)
        BY <1>1, <4>2, LeftAir
      <4>5. QED
        BY <3>4, <4>1, <4>2, <4>3, <4>4
    <3>5. QED
      BY <1>1, <3>3, <3>4
  <2>3. QueuesApart'
    <3>1. SUFFICES ASSUME NEW c \in Client, NEW d \in Client, c # d, Connected(c), Connected(d),
                          cl[c].peer = cl[d].peer,
                          NEW i \in 1 .. Len(rxq'[c]), NEW j \in 1 .. Len(rxq'[d])
                   PROVE  Before(rxq'[c][i], rxq'[d][j]) \/ Before(rxq'[d][j], rxq'[c][i])
      BY <1>1, <2>1 DEF QueuesApart, Connected, Brings, Before
    <3>2. /\ home[c] # home[d]
          /\ \A k \in 1 .. Len(rxq[c]), l \in 1 .. Len(rxq[d]) :
               Before(rxq[c][k], rxq[d][l]) \/ Before(rxq[d][l], rxq[c][k])
      BY <2>1, <3>1 DEF QueuesApart
    <3>3. ~(Hears(c, p) /\ Hears(d, p))
      BY <3>2 DEF Hears
    <3>4. CASE Hears(c, p) /\ rxq'[c][i] = air[p][1].msg
      <4>1. j \in 1 .. Len(rxq[d]) /\ rxq'[d][j] = rxq[d][j] /\ cl[d].peer = p
        BY <1>1, <3>1, <3>3, <3>4 DEF Hears
      <4>2. Before(rxq[d][j], air[p][1].msg)
        BY <1>2, <2>1, <3>1, <4>1 DEF QueueInOrder
      <4>3. QED
        BY <3>4, <4>1, <4>2
    <3>5. CASE Hears(d, p) /\ rxq'[d][j] = air[p][1].msg
      <4>1. i \in 1 .. Len(rxq[c]) /\ rxq'[c][i] = rxq[c][i] /\ cl[c].peer = p
        BY <1>1, <3>1, <3>3, <3>5 DEF Hears
      <4>2. Before(rxq[c][i], air[p][1].msg)
        BY <1>2, <2>1, <3>1, <4>1 DEF QueueInOrder
      <4>3. QED
        BY <3>5, <4>1, <4>2
    <3>6. QED
      BY <1>1, <3>2, <3>4, <3>5
  <2>4. OutIsOver'
    <3>1. SUFFICES ASSUME NEW c \in Client, NEW i \in 1 .. Len(out[c]), NEW q, NEW x,
                          q = out[c][i][1], x = out[c][i][2]
                   PROVE  ToldBefore(c, q, x)'
      BY <1>1 DEF OutIsOver
    <3>2. ToldBefore(c, q, x) /\ q \in Peer
      BY <2>1, <3>1, OutTypes DEF OutIsOver
    <3>3. \A j \in 1 .. Len(air'[q]) : Brings(air'[q][j].msg) => x < air'[q][j].msg.from
      BY <1>1, <3>2, LeftAir DEF ToldBefore
    <3>4. ASSUME NEW d \in Client, Connected(d), cl[d].peer = q,
                 NEW j \in 1 .. Len(rxq'[d]), Brings(rxq'[d][j])
          PROVE  \/ x < rxq'[d][j].from
                 \/ d # c /\ rxq'[d][j].from + rxq'[d][j].n <= x
      <4>1. CASE j \in 1 .. Len(rxq[d]) /\ rxq'[d][j] = rxq[d][j]
        BY <3>2, <3>4, <4>1 DEF ToldBefore
      <4>2. CASE Hears(d, p) /\ rxq'[d][j] = air[p][1].msg
        BY <1>2, <3>2, <3>4, <4>2 DEF ToldBefore, Hears
      <4>3. QED
        BY <1>1, <4>1, <4>2
    <3>5. QED
      BY <1>1, <3>2, <3>3, <3>4 DEF ToldBefore, Connected, Brings
  <2>5. ToldOnceInOrder'
    BY <1>1, <1>4, <2>1 DEF ToldOnceInOrder
  <2>6. QED
    BY <1>2, <2>2, <2>3, <2>4, <2>5 DEF Orderly
<1>5. QED
  BY <1>2, <1>4 DEF Orderly

(* The queue of c is emptied of chunks: a hangup, or a new conversation.     *)
LEMMA EmptiedOrderly ==
  ASSUME TypeOK, AirInOrder, Orderly, NEW c \in Client,
         \A i \in 1 .. Len(rxq'[c]) : ~Brings(rxq'[c][i]),
         \A d \in Client \ {c} : rxq'[d] = rxq[d] /\ cl'[d] = cl[d],
         \A d \in Client \ {c} : ~crossed' /\ Connected(c)' /\ Connected(d) /\ cl'[c].peer = cl[d].peer
                                   => home[c] # home[d],
         UNCHANGED <<home, out, next, air>>, crossed => crossed'
  PROVE  AirInOrder' /\ Orderly'
<1>1. AirInOrder'
  BY DEF AirInOrder, Brings, Before
<1>2. \A d \in Client \ {c} : Connected(d)' <=> Connected(d)
  BY DEF Connected
<1>3. CASE ~crossed'
  <2>1. QueueInOrder /\ QueuesApart /\ OutIsOver /\ ToldOnceInOrder
    BY <1>3 DEF Orderly
  <2>2. QueueInOrder'
    <3>1. SUFFICES ASSUME NEW d \in Client, Connected(d)', NEW i \in 1 .. Len(rxq'[d]), NEW q, q = cl'[d].peer
                   PROVE  /\ Brings(rxq'[d][i]) => rxq'[d][i].from + rxq'[d][i].n <= next[q]
                          /\ \A j \in 1 .. Len(rxq'[d]) : i < j => Before(rxq'[d][i], rxq'[d][j])
                          /\ \A j \in 1 .. Len(air[q]) : Before(rxq'[d][i], air[q][j].msg)
      BY DEF QueueInOrder, Brings, Before
    <3>2. CASE d = c
      BY <3>1, <3>2 DEF Before
    <3>3. CASE d # c
      BY <1>2, <2>1, <3>1, <3>3 DEF QueueInOrder
    <3>4. QED
      BY <3>2, <3>3
  <2>3. QueuesApart'
    <3>1. SUFFICES ASSUME NEW a \in Client, NEW b \in Client, a # b, Connected(a)', Connected(b)',
                          cl'[a].peer = cl'[b].peer
                   PROVE  /\ home[a] # home[b]
                          /\ \A i \in 1 .. Len(rxq'[a]), j \in 1 .. Len(rxq'[b]) :
                               Before(rxq'[a][i], rxq'[b][j]) \/ Before(rxq'[b][j], rxq'[a][i])
      BY DEF QueuesApart, Brings, Before
    <3>2. CASE a = c
      BY <1>2, <1>3, <3>1, <3>2 DEF Before
    <3>3. CASE b = c
      BY <1>2, <1>3, <3>1, <3>3 DEF Before
    <3>4. CASE a # c /\ b # c
      BY <1>2, <2>1, <3>1, <3>4 DEF QueuesApart
    <3>5. QED
      BY <3>2, <3>3, <3>4
  <2>4. OutIsOver'
    <3>1. SUFFICES ASSUME NEW a \in Client, NEW i \in 1 .. Len(out[a]), NEW q, NEW x,
                          q = out[a][i][1], x = out[a][i][2]
                   PROVE  ToldBefore(a, q, x)'
      BY DEF OutIsOver
    <3>2. ToldBefore(a, q, x)
      BY <2>1, <3>1 DEF OutIsOver
    <3>3. ASSUME NEW d \in Client, Connected(d)', cl'[d].peer = q,
                 NEW j \in 1 .. Len(rxq'[d]), Brings(rxq'[d][j])
          PROVE  \/ x < rxq'[d][j].from
                 \/ d # a /\ rxq'[d][j].from + rxq'[d][j].n <= x
      <4>1. d # c
        BY <3>3
      <4>2. QED
        BY <1>2, <3>2, <3>3, <4>1 DEF ToldBefore
    <3>4. QED
      BY <3>2, <3>3 DEF ToldBefore, Brings
  <2>5. ToldOnceInOrder'
    BY <1>3, <2>1 DEF ToldOnceInOrder
  <2>6. QED
    BY <1>1, <2>2, <2>3, <2>4, <2>5 DEF Orderly
<1>4. QED
  BY <1>1, <1>3 DEF Orderly

LEMMA ElementsOfSeq ==
  ASSUME NEW S, NEW s \in Seq(S)
  PROVE  ToSet(s) = {s[i] : i \in 1 .. Len(s)}
BY DEF ToSet

(* Client c takes its first queued reply and tells its first n chunks.       *)
Tells(c, n) ==
  /\ Connected(c) /\ rxq[c] # <<>> /\ rxq' = [rxq EXCEPT ![c] = Tail(@)]
  /\ n = 0 \/ (Brings(rxq[c][1]) /\ n <= rxq[c][1].n)
  /\ out' = [out EXCEPT ![c] = @ \o [i \in 1 .. n |-> <<cl[c].peer, rxq[c][1].from + i - 1>>]]

LEMMA TakenQueue ==
  ASSUME TypeOK, NEW c \in Client, rxq[c] # <<>>, rxq' = [rxq EXCEPT ![c] = Tail(@)]
  PROVE  /\ rxq' \in [Client -> Seq(Msg)]
         /\ rxq[c][1] \in Msg /\ Head(rxq[c]) = rxq[c][1] /\ 1 \in 1 .. Len(rxq[c])
         /\ \A d \in Client : \A j \in 1 .. Len(rxq'[d]) :
              /\ Was(c, d, j) \in 1 .. Len(rxq[d]) /\ rxq'[d][j] = rxq[d][Was(c, d, j)]
              /\ d = c => 1 < Was(c, d, j)
<1>1. rxq \in [Client -> Seq(Msg)] /\ rxq' = [rxq EXCEPT ![c] = Tail(rxq[c])]
  BY DEF TypeOK
<1>2. /\ Tail(rxq[c]) \in Seq(Msg) /\ Len(Tail(rxq[c])) = Len(rxq[c]) - 1
      /\ Len(rxq[c]) > 0 /\ Len(rxq[c]) \in Nat
      /\ \A i \in 1 .. Len(rxq[c]) - 1 : Tail(rxq[c])[i] = rxq[c][i + 1]
      /\ Head(rxq[c]) = rxq[c][1] /\ Head(rxq[c]) \in Msg
  BY <1>1, TailSeq
<1>3. rxq'[c] = Tail(rxq[c]) /\ \A d \in Client \ {c} : rxq'[d] = rxq[d]
  BY <1>1
<1>4. rxq' \in [Client -> Seq(Msg)] /\ 1 \in 1 .. Len(rxq[c])
  BY <1>1, <1>2
<1>5. ASSUME NEW d \in Client, NEW j \in 1 .. Len(rxq'[d])
      PROVE  /\ Was(c, d, j) \in 1 .. Len(rxq[d]) /\ rxq'[d][j] = rxq[d][Was(c, d, j)]
             /\ d = c => 1 < Was(c, d, j)
  <2>1. CASE d = c
    <3>1. Len(rxq'[d]) = Len(rxq[c]) - 1
      BY <1>2, <1>3, <2>1
    <3>2. j \in 1 .. Len(rxq[c]) - 1 /\ j + 1 \in 1 .. Len(rxq[c]) /\ 1 < j + 1
      BY <1>2, <1>5, <3>1
    <3>3. QED
      BY <1>2, <1>3, <2>1, <3>2 DEF Was
  <2>2. CASE d # c
    BY <1>3, <1>5, <2>2 DEF Was
  <2>3. QED
    BY <2>1, <2>2
<1>6. QED
  BY <1>2, <1>4, <1>5

LEMMA ToldOut ==
  ASSUME TypeOK, InSession, NEW c \in Client, NEW n \in Nat, Tells(c, n)
  PROVE  /\ out' \in [Client -> Seq(Peer \X Nat)]
         /\ \A d \in Client : \A i \in 1 .. Len(out'[d]) :
              \/ i \in 1 .. Len(out[d]) /\ out'[d][i] = out[d][i]
              \/ /\ d = c /\ i > Len(out[c])
                 /\ out'[d][i][1] = cl[c].peer
                 /\ out'[d][i][2] = rxq[c][1].from + (i - Len(out[c])) - 1
                 /\ Brings(rxq[c][1])
                 /\ rxq[c][1].from <= out'[d][i][2]
                 /\ out'[d][i][2] < rxq[c][1].from + rxq[c][1].n
<1> DEFINE p == cl[c].peer
           m == rxq[c][1]
           f == [i \in 1 .. n |-> <<p, m.from + i - 1>>]
<1>1. p \in Peer /\ m.from \in Nat /\ m.n \in Nat
  BY SessionPeer, TakenQueue, MsgTypes DEF Tells
<1>2. out' = [out EXCEPT ![c] = out[c] \o f] /\ (n = 0 \/ (Brings(m) /\ n <= m.n))
  BY DEF Tells
<1> HIDE DEF p, m
<1>3. f \in [1 .. n -> Peer \X Nat] /\ \A i \in 1 .. n : f[i][1] = p /\ f[i][2] = m.from + i - 1
  BY <1>1
<1> HIDE DEF f
<1>4. f \in Seq(Peer \X Nat) /\ Len(f) = n
  BY <1>3, FunctionSeq
<1>5. out \in [Client -> Seq(Peer \X Nat)]
  BY DEF TypeOK
<1>6. /\ out[c] \o f \in Seq(Peer \X Nat) /\ Len(out[c] \o f) = Len(out[c]) + n
      /\ Len(out[c]) \in Nat
      /\ \A i \in 1 .. Len(out[c]) : (out[c] \o f)[i] = out[c][i]
      /\ \A i \in 1 .. n : (out[c] \o f)[Len(out[c]) + i] = f[i]
  <2> DEFINE S == Peer \X Nat
             s == out[c]
  <2>1. s \in Seq(S) /\ f \in Seq(S) /\ Len(f) = n
    BY <1>4, <1>5
  <2> HIDE DEF S, s
  <2>2. s \o f \in Seq(S) /\ Len(s \o f) = Len(s) + Len(f) /\ Len(s) \in Nat
    BY <2>1, ConcatSeq
  <2>3. \A i \in 1 .. Len(s) : (s \o f)[i] = s[i]
    BY <2>1, ConcatSeq
  <2>4. \A i \in 1 .. Len(f) : (s \o f)[Len(s) + i] = f[i]
    BY <2>1, ConcatSeq
  <2>5. QED
    BY <2>1, <2>2, <2>3, <2>4 DEF S, s
<1>7. out'[c] = out[c] \o f /\ \A d \in Client \ {c} : out'[d] = out[d]
  BY <1>2, <1>5
<1>8. out' \in [Client -> Seq(Peer \X Nat)]
  BY <1>2, <1>5, <1>6
<1>9. ASSUME NEW d \in Client, NEW i \in 1 .. Len(out'[d])
      PROVE  \/ i \in 1 .. Len(out[d]) /\ out'[d][i] = out[d][i]
             \/ /\ d = c /\ i > Len(out[c])
                /\ out'[d][i][1] = p
                /\ out'[d][i][2] = m.from + (i - Len(out[c])) - 1
                /\ Brings(m)
                /\ m.from <= out'[d][i][2]
                /\ out'[d][i][2] < m.from + m.n
  <2>1. CASE d # c
    BY <1>7, <1>9, <2>1
  <2>2. CASE d = c
    <3>1. i \in 1 .. Len(out[c]) + n
      BY <1>6, <1>7, <1>9, <2>2
    <3>2. CASE i <= Len(out[c])
      <4>1. i \in 1 .. Len(out[c])
        BY <1>6, <3>1, <3>2
      <4>2. out'[c][i] = out[c][i]
        BY <1>6, <1>7, <4>1
      <4>3. QED
        BY <2>2, <4>1, <4>2
    <3>3. CASE i > Len(out[c])
      <4> DEFINE k == i - Len(out[c])
      <4>1. k \in 1 .. n /\ i = Len(out[c]) + k
        BY <1>6, <3>1, <3>3
      <4> HIDE DEF k
      <4>2. out'[d][i] = f[k] /\ f[k][1] = p /\ f[k][2] = m.from + k - 1
        BY <1>3, <1>6, <1>7, <2>2, <4>1
      <4>3. Brings(m) /\ k <= m.n /\ 1 <= k /\ k \in Nat
        BY <1>1, <1>2, <4>1
      <4>4. m.from <= m.from + k - 1 /\ m.from + k - 1 < m.from + m.n
        BY <1>1, <4>3
      <4>5. QED
        BY <2>2, <3>3, <4>2, <4>3, <4>4 DEF k
    <3>4. QED
      BY <1>6, <3>1, <3>2, <3>3
  <2>3. QED
    BY <2>1, <2>2
<1>10. QED
  BY <1>8, <1>9 DEF p, m

LEMMA OutPrimed ==
  ASSUME out' \in [Client -> Seq(Peer \X Nat)], NEW c \in Client, NEW i \in 1 .. Len(out'[c])
  PROVE  out'[c][i][2] \in Nat
<1>1. out'[c] \in Seq(Peer \X Nat)
  OBVIOUS
<1>2. out'[c][i] \in Peer \X Nat
  BY <1>1, ElementOfSeq
<1>3. QED
  BY <1>2

(* What is told is told once, and after what c told of that neighbour before. *)
LEMMA TellsInOrder ==
  ASSUME TypeOK, InSession, QueueInOrder, OutIsOver, ToldOnceInOrder, ~crossed,
         NEW c \in Client, NEW n \in Nat, Tells(c, n)
  PROVE  ToldOnceInOrder'
<1> DEFINE p == cl[c].peer
           m == rxq[c][1]
           New(d, i) ==
             /\ d = c /\ i > Len(out[c]) /\ out'[d][i][1] = p
             /\ out'[d][i][2] = m.from + (i - Len(out[c])) - 1
             /\ Brings(m) /\ m.from <= out'[d][i][2] /\ out'[d][i][2] < m.from + m.n
           Old(d, i) == i \in 1 .. Len(out[d]) /\ out'[d][i] = out[d][i]
<1>1. /\ out' \in [Client -> Seq(Peer \X Nat)]
      /\ \A d \in Client : \A i \in 1 .. Len(out'[d]) : Old(d, i) \/ New(d, i)
  BY ToldOut
<1>2. /\ m \in Msg /\ m.from \in Nat /\ m.n \in Nat /\ 1 \in 1 .. Len(rxq[c]) /\ Connected(c)
      /\ Len(out[c]) \in Nat
  BY TakenQueue, MsgTypes, OutTypes DEF Tells
(* Old chunks of the neighbour are before those of c, and not those of others. *)
<1>3. ASSUME NEW d \in Client, NEW i \in 1 .. Len(out[d]), out[d][i][1] = p, Brings(m)
      PROVE  \/ out[d][i][2] < m.from
             \/ d # c /\ m.from + m.n <= out[d][i][2]
  <2>1. ToldBefore(d, p, out[d][i][2])
    BY <1>3 DEF OutIsOver
  <2>2. QED
    BY <1>2, <1>3, <2>1 DEF ToldBefore
<1> HIDE DEF p, m
<1>4. ASSUME NEW d \in Client, NEW i \in 1 .. Len(out'[d]), NEW j \in 1 .. Len(out'[d]),
             i < j, out'[d][i][1] = out'[d][j][1]
      PROVE  out'[d][i][2] < out'[d][j][2]
  <2>1. CASE Old(d, i) /\ Old(d, j)
    BY <1>4, <2>1 DEF ToldOnceInOrder
  <2>2. CASE Old(d, i) /\ New(d, j)
    <3>1. out[d][i][2] < m.from /\ out[d][i][2] \in Nat
      BY <1>3, <1>4, <2>2, OutTypes
    <3>2. m.from <= out'[d][j][2] /\ out'[d][i] = out[d][i]
      BY <2>2
    <3>3. out'[d][j][2] \in Int
      BY <1>2, <1>4, <2>2
    <3>4. QED
      BY <1>2, <3>1, <3>2, <3>3, SMTT(30)
  <2>3. CASE New(d, i) /\ New(d, j)
    <3>1. out'[d][i][2] = m.from + (i - Len(out[c])) - 1 /\ out'[d][j][2] = m.from + (j - Len(out[c])) - 1
      BY <2>3
    <3>2. i \in Int /\ j \in Int
      OBVIOUS
    <3>3. QED
      BY <1>2, <1>4, <3>1, <3>2
  <2>4. CASE New(d, i) /\ Old(d, j)
    BY <1>2, <1>4, <2>4
  <2>5. QED
    BY <1>1, <2>1, <2>2, <2>3, <2>4
<1>5. ASSUME NEW a \in Client, NEW b \in Client, a # b,
             NEW i \in 1 .. Len(out'[a]), NEW j \in 1 .. Len(out'[b]), out'[a][i] = out'[b][j]
      PROVE  FALSE
  <2>1. CASE Old(a, i) /\ Old(b, j)
    <3>1. ToSet(out[a]) = {out[a][k] : k \in 1 .. Len(out[a])}
          /\ ToSet(out[b]) = {out[b][k] : k \in 1 .. Len(out[b])}
      BY OutTypes, ElementsOfSeq
    <3>2. ToSet(out[a]) \cap ToSet(out[b]) = {}
      BY <1>5 DEF ToldOnceInOrder
    <3>3. QED
      BY <1>5, <2>1, <3>1, <3>2
  <2>2. ASSUME NEW d \in Client, d # c, NEW k \in 1 .. Len(out[d]), NEW l \in 1 .. Len(out'[c]),
               New(c, l), out[d][k] = out'[c][l]
        PROVE  FALSE
    <3>1. out[d][k][1] = p /\ Brings(m) /\ m.from <= out[d][k][2] /\ out[d][k][2] < m.from + m.n
      BY <2>2
    <3>2. out[d][k][2] \in Nat
      BY OutTypes
    <3>3. out[d][k][2] < m.from \/ m.from + m.n <= out[d][k][2]
      BY <1>3, <2>2, <3>1
    <3>4. QED
      BY <1>2, <3>1, <3>2, <3>3, SMTT(30)
  <2>3. CASE Old(a, i) /\ New(b, j)
    BY <1>5, <2>2, <2>3
  <2>4. CASE New(a, i) /\ Old(b, j)
    BY <1>5, <2>2, <2>4
  <2>5. CASE New(a, i) /\ New(b, j)
    BY <1>5, <2>5
  <2>6. QED
    BY <1>1, <2>1, <2>3, <2>4, <2>5
<1>6. ASSUME NEW a \in Client, NEW b \in Client, a # b
      PROVE  ToSet(out'[a]) \cap ToSet(out'[b]) = {}
  <2>1. ToSet(out'[a]) = {out'[a][k] : k \in 1 .. Len(out'[a])}
        /\ ToSet(out'[b]) = {out'[b][k] : k \in 1 .. Len(out'[b])}
    BY <1>1, ElementsOfSeq
  <2>2. QED
    BY <1>5, <1>6, <2>1
<1>7. QED
  BY <1>4, <1>6 DEF ToldOnceInOrder

LEMMA TellsOrderly ==
  ASSUME TypeOK, InSession, AirInOrder, Orderly, Stays, NEW c \in Client, NEW n \in Nat, Tells(c, n),
         UNCHANGED <<home, next, air, crossed>>
  PROVE  AirInOrder' /\ Orderly'
<1> DEFINE m == rxq[c][1]
<1>1. AirInOrder'
  BY DEF AirInOrder, Brings, Before
<1>2. /\ rxq[c] # <<>> /\ rxq' = [rxq EXCEPT ![c] = Tail(@)] /\ Connected(c)
  BY DEF Tells
<1>3. /\ m \in Msg /\ 1 \in 1 .. Len(rxq[c])
      /\ \A d \in Client : \A j \in 1 .. Len(rxq'[d]) :
           /\ Was(c, d, j) \in 1 .. Len(rxq[d]) /\ rxq'[d][j] = rxq[d][Was(c, d, j)]
           /\ d = c => 1 < Was(c, d, j)
  BY <1>2, TakenQueue
<1>4. CASE ~crossed'
  <2>1. ~crossed /\ QueueInOrder /\ QueuesApart /\ OutIsOver /\ ToldOnceInOrder
    BY <1>4 DEF Orderly
  <2>2. QueueInOrder'
    <3>1. SUFFICES ASSUME NEW d \in Client, Connected(d)', NEW i \in 1 .. Len(rxq'[d]), NEW q, q = cl'[d].peer
                   PROVE  /\ Brings(rxq'[d][i]) => rxq'[d][i].from + rxq'[d][i].n <= next[q]
                          /\ \A j \in 1 .. Len(rxq'[d]) : i < j => Before(rxq'[d][i], rxq'[d][j])
                          /\ \A j \in 1 .. Len(air[q]) : Before(rxq'[d][i], air[q][j].msg)
      BY DEF QueueInOrder, Brings, Before
    <3>2. PICK k \in 1 .. Len(rxq[d]) : k = Was(c, d, i) /\ rxq'[d][i] = rxq[d][k]
      BY <1>3, <3>1
    <3>3. /\ Brings(rxq[d][k]) => rxq[d][k].from + rxq[d][k].n <= next[q]
          /\ \A j \in 1 .. Len(rxq[d]) : k < j => Before(rxq[d][k], rxq[d][j])
          /\ \A j \in 1 .. Len(air[q]) : Before(rxq[d][k], air[q][j].msg)
      BY <2>1, <3>1 DEF QueueInOrder, Stays
    <3>4. ASSUME NEW j \in 1 .. Len(rxq'[d]), i < j PROVE Before(rxq'[d][i], rxq'[d][j])
      <4>1. PICK l \in 1 .. Len(rxq[d]) : l = Was(c, d, j) /\ rxq'[d][j] = rxq[d][l]
        BY <1>3, <3>4
      <4>2. k < l
        BY <3>2, <3>4, <4>1 DEF Was
      <4>3. QED
        BY <3>2, <3>3, <4>1, <4>2
    <3>5. QED
      BY <3>2, <3>3, <3>4
  <2>3. QueuesApart'
    <3>1. SUFFICES ASSUME NEW a \in Client, NEW b \in Client, a # b, Connected(a)', Connected(b)',
                          cl'[a].peer = cl'[b].peer
                   PROVE  /\ home[a] # home[b]
                          /\ \A i \in 1 .. Len(rxq'[a]), j \in 1 .. Len(rxq'[b]) :
                               Before(rxq'[a][i], rxq'[b][j]) \/ Before(rxq'[b][j], rxq'[a][i])
      BY DEF QueuesApart, Brings, Before
    <3>2. /\ home[a] # home[b]
          /\ \A i \in 1 .. Len(rxq[a]), j \in 1 .. Len(rxq[b]) :
               Before(rxq[a][i], rxq[b][j]) \/ Before(rxq[b][j], rxq[a][i])
      BY <2>1, <3>1 DEF QueuesApart, Stays
    <3>3. ASSUME NEW i \in 1 .. Len(rxq'[a]), NEW j \in 1 .. Len(rxq'[b])
          PROVE  Before(rxq'[a][i], rxq'[b][j]) \/ Before(rxq'[b][j], rxq'[a][i])
      <4>1. PICK k \in 1 .. Len(rxq[a]) : rxq'[a][i] = rxq[a][k]
        BY <1>3, <3>3
      <4>2. PICK l \in 1 .. Len(rxq[b]) : rxq'[b][j] = rxq[b][l]
        BY <1>3, <3>3
      <4>3. QED
        BY <3>2, <4>1, <4>2
    <3>4. QED
      BY <3>2, <3>3
  <2>4. OutIsOver'
    <3>1. SUFFICES ASSUME NEW a \in Client, NEW i \in 1 .. Len(out'[a]), NEW q, NEW x,
                          q = out'[a][i][1], x = out'[a][i][2]
                   PROVE  ToldBefore(a, q, x)'
      BY DEF OutIsOver
    <3>2. CASE i \in 1 .. Len(out[a]) /\ out'[a][i] = out[a][i]
      <4>1. ToldBefore(a, q, x)
        BY <2>1, <3>1, <3>2 DEF OutIsOver
      <4>2. ASSUME NEW d \in Client, Connected(d)', cl'[d].peer = q,
                   NEW j \in 1 .. Len(rxq'[d]), Brings(rxq'[d][j])
            PROVE  \/ x < rxq'[d][j].from
                   \/ d # a /\ rxq'[d][j].from + rxq'[d][j].n <= x
        <5>1. PICK l \in 1 .. Len(rxq[d]) : rxq'[d][j] = rxq[d][l]
          BY <1>3, <4>2
        <5>2. QED
          BY <4>1, <4>2, <5>1 DEF ToldBefore, Stays
      <4>3. QED
        BY <4>1, <4>2 DEF ToldBefore, Brings
    <3>3. CASE /\ a = c /\ q = cl[c].peer /\ Brings(m)
               /\ m.from <= x /\ x < m.from + m.n
      <4>1. /\ m.from + m.n <= next[q]
            /\ \A j \in 1 .. Len(rxq[c]) : 1 < j => Before(m, rxq[c][j])
            /\ \A j \in 1 .. Len(air[q]) : Before(m, air[q][j].msg)
        BY <1>2, <1>3, <2>1, <3>3 DEF QueueInOrder
      <4>2. q \in Peer /\ next[q] \in Nat /\ m.from \in Nat /\ m.n \in Nat
        BY <1>2, <1>3, <3>3, SessionPeer, MsgTypes, QueueTypes
      <4>3. x \in Int
        BY <3>1, <4>2, ToldOut, OutPrimed
      <4>4. x < next[q]
        BY <3>3, <4>1, <4>2, <4>3
      <4>5. PICK lo \in Nat, n1 \in Nat : lo = m.from /\ n1 = m.n /\ lo <= x /\ x < lo + n1
        BY <3>3, <4>2
      <4>6. ASSUME NEW j \in 1 .. Len(air[q]), Brings(air[q][j].msg) PROVE x < air[q][j].msg.from
        <5>1. m.from + m.n <= air[q][j].msg.from /\ air[q][j].msg.from \in Nat
          BY <3>3, <4>1, <4>2, <4>6, QueueTypes, MsgTypes DEF Before
        <5>2. PICK w \in Nat : w = air[q][j].msg.from
          BY <5>1
        <5>3. lo + n1 <= w
          BY <4>5, <5>1, <5>2
        <5>4. x < w
          BY <4>3, <4>5, <5>3
        <5>5. QED
          BY <5>2, <5>4
      <4>7. ASSUME NEW d \in Client, Connected(d)', cl'[d].peer = q,
                   NEW j \in 1 .. Len(rxq'[d]), Brings(rxq'[d][j])
            PROVE  \/ x < rxq'[d][j].from
                   \/ d # c /\ rxq'[d][j].from + rxq'[d][j].n <= x
        <5>1. PICK l \in 1 .. Len(rxq[d]) : rxq'[d][j] = rxq[d][l] /\ (d = c => 1 < l)
          BY <1>3, <4>7
        <5>2. PICK w \in Nat, k \in Nat : w = rxq[d][l].from /\ k = rxq[d][l].n
          BY QueueTypes, MsgTypes
        <5>3. CASE d = c
          <6>1. m.from + m.n <= rxq[d][l].from
            BY <3>3, <4>1, <4>7, <5>1, <5>3 DEF Before
          <6>2. lo + n1 <= w
            BY <4>5, <5>2, <6>1
          <6>3. x < w
            BY <4>3, <4>5, <6>2
          <6>4. QED
            BY <5>1, <5>2, <6>3
        <5>4. CASE d # c
          <6>1. Before(m, rxq[d][l]) \/ Before(rxq[d][l], m)
            BY <1>2, <1>3, <2>1, <3>3, <4>7, <5>4 DEF QueuesApart, Stays
          <6>2. m.from + m.n <= rxq[d][l].from \/ rxq[d][l].from + rxq[d][l].n <= m.from
            BY <3>3, <4>7, <5>1, <6>1 DEF Before
          <6>3. lo + n1 <= w \/ w + k <= lo
            BY <4>5, <5>2, <6>2
          <6>4. ASSUME lo + n1 <= w PROVE x < w
            BY <4>3, <4>5, <6>4, SMTT(30)
          <6>5. ASSUME w + k <= lo PROVE w + k <= x
            BY <4>3, <4>5, <6>5, SMTT(30)
          <6>6. x < w \/ w + k <= x
            BY <6>3, <6>4, <6>5
          <6>7. QED
            BY <5>1, <5>2, <5>4, <6>6
        <5>5. QED
          BY <5>3, <5>4
      <4>8. QED
        BY <3>3, <4>4, <4>6, <4>7 DEF ToldBefore, Brings
    <3>4. QED
      BY <3>1, <3>2, <3>3, ToldOut
  <2>5. ToldOnceInOrder'
    BY <2>1, TellsInOrder
  <2>6. QED
    BY <1>1, <2>2, <2>3, <2>4, <2>5 DEF Orderly
<1>5. QED
  BY <1>1, <1>4 DEF Orderly


-----------------------------------------------------------------------------
(* The operations                                                            *)

LEMMA Parts ==
  IInv <=> TypeOK /\ InSession /\ AirInOrder /\ Orderly
BY DEF IInv, Orderly, ToldOnceInOrder

(* What a client may become.                                                 *)
Fits(k) == k.at \in {"send", "wait"} => k.peer > 0 /\ k.drained < MaxDrained /\ k.room > 0

LEMMA ClientMoves ==
  ASSUME TypeOK, InSession, NEW c \in Client, NEW k \in ClientState, Fits(k), cl' = [cl EXCEPT ![c] = k]
  PROVE  /\ cl' \in [Client -> ClientState] /\ InSession'
         /\ cl'[c] = k /\ \A d \in Client \ {c} : cl'[d] = cl[d]
         /\ (k.at \in {"send", "wait"} => Connected(c) /\ k.peer = cl[c].peer) => Stays
<1>1. cl' \in [Client -> ClientState] /\ cl'[c] = k /\ \A d \in Client \ {c} : cl'[d] = cl[d]
  BY OneClient
<1>2. InSession'
  <2>1. SUFFICES ASSUME NEW d \in Client, Connected(d)'
                 PROVE  cl'[d].peer > 0 /\ cl'[d].drained < MaxDrained /\ cl'[d].room > 0
    BY DEF InSession
  <2>2. CASE d = c
    BY <1>1, <2>1, <2>2 DEF Fits, Connected
  <2>3. CASE d # c
    BY <1>1, <2>1, <2>3 DEF InSession, Connected
  <2>4. QED
    BY <2>2, <2>3
<1>3. ASSUME k.at \in {"send", "wait"} => Connected(c) /\ k.peer = cl[c].peer PROVE Stays
  <2>1. SUFFICES ASSUME NEW d \in Client, Connected(d)'
                 PROVE  Connected(d) /\ cl'[d].peer = cl[d].peer
    BY DEF Stays
  <2>2. CASE d = c
    BY <1>1, <1>3, <2>1, <2>2 DEF Connected
  <2>3. CASE d # c
    BY <1>1, <2>1, <2>3 DEF Connected
  <2>4. QED
    BY <2>2, <2>3
<1>4. QED
  BY <1>1, <1>2, <1>3

LEMMA Keeps ==
  ASSUME TypeOK, UNCHANGED home, cl' \in [Client -> ClientState], rxq' \in [Client -> Seq(Msg)],
         out' \in [Client -> Seq(Peer \X Nat)], srv' \in [Peer -> BOOLEAN], next' \in [Peer -> 0 .. Chunks],
         air' \in [Peer -> Seq(Datagram)], faults' \in Nat, excuse' \in Nat, crossed' \in BOOLEAN,
         InSession', AirInOrder', Orderly'
  PROVE  IInv'
<1>1. TypeOK'
  <2>1. home' \in Homes
    BY DEF TypeOK
  <2>2. air' \in [Peer -> Seq([to : {home'[c] : c \in Client}, msg : Msg])]
    BY DEF Datagram
  <2>3. QED
    BY <2>1, <2>2, Zenon DEF TypeOK
<1>2. QED
  BY <1>1 DEF IInv, Orderly, ToldOnceInOrder

(* The state before a step, in parts.                                        *)
LEMMA Given ==
  ASSUME IInv
  PROVE  /\ TypeOK /\ InSession /\ AirInOrder /\ Orderly
         /\ cl \in [Client -> ClientState] /\ rxq \in [Client -> Seq(Msg)]
         /\ out \in [Client -> Seq(Peer \X Nat)] /\ srv \in [Peer -> BOOLEAN]
         /\ next \in [Peer -> 0 .. Chunks] /\ air \in [Peer -> Seq(Datagram)]
         /\ faults \in Nat /\ excuse \in Nat /\ crossed \in BOOLEAN
<1>1. TypeOK /\ InSession /\ AirInOrder /\ Orderly
  BY Parts
<1>2. QED
  BY <1>1 DEF TypeOK, Datagram

LEMMA ReadKeeps ==
  ASSUME IInv, NEW c \in Client, NEW mode \in Modes, MeshRead(c, mode)
  PROVE  IInv'
<1> DEFINE k == [Idle EXCEPT !.at = "next", !.mode = mode, !.room = Cap, !.pass = cl[c].pass + 1]
<1>1. TypeOK /\ InSession /\ AirInOrder /\ Orderly
  BY Given
<1>2. cl' = [cl EXCEPT ![c] = k] /\ UNCHANGED <<home, rxq, out, srv, next, air, faults, excuse, crossed>>
  BY DEF MeshRead, history
<1>3. Cap \in 0 .. Cap /\ cl[c].pass + 1 \in Nat /\ mode \in {"drain", "probe"}
      /\ "next" \in {"idle", "next", "send", "wait"}
  BY <1>1, Bounds, ClientTypes
<1>4. k \in ClientState
  BY <1>3, IdleType, Zenon DEF ClientState
<1>5. k.at = "next"
  BY DEF Idle
<1>6. Fits(k)
  BY <1>5 DEF Fits
<1> HIDE DEF k
<1>7. cl' \in [Client -> ClientState] /\ InSession' /\ Stays
  BY <1>1, <1>2, <1>4, <1>5, <1>6, ClientMoves
<1>8. AirInOrder' /\ Orderly'
  BY <1>1, <1>2, <1>7, StaysOrderly
<1>9. QED
  BY <1>1, <1>2, <1>7, <1>8, Given, Keeps


LEMMA ReturnKeeps ==
  ASSUME IInv, NEW c \in Client, MeshReturn(c)
  PROVE  IInv'
<1> DEFINE k == [Idle EXCEPT !.pass = cl[c].pass]
<1>1. TypeOK /\ InSession /\ AirInOrder /\ Orderly
  BY Given
<1>2. cl' = [cl EXCEPT ![c] = k] /\ UNCHANGED <<home, rxq, out, srv, next, air, faults, excuse, crossed>>
  BY DEF MeshReturn, history
<1>3. cl[c].pass \in Nat
  BY <1>1, ClientTypes
<1>4. k \in ClientState
  BY <1>3, IdleType, Zenon DEF ClientState
<1>5. k.at = "idle"
  BY DEF Idle
<1>6. Fits(k)
  BY <1>5 DEF Fits
<1> HIDE DEF k
<1>7. cl' \in [Client -> ClientState] /\ InSession' /\ Stays
  BY <1>1, <1>2, <1>4, <1>5, <1>6, ClientMoves
<1>8. AirInOrder' /\ Orderly'
  BY <1>1, <1>2, <1>7, StaysOrderly
<1>9. QED
  BY <1>1, <1>2, <1>7, <1>8, Given, Keeps

(* The next neighbour, skipped or connected to.                              *)
LEMMA NextPeerKeeps ==
  ASSUME IInv, NEW c \in Client, NextPeer(c)
  PROVE  IInv'
<1> DEFINE p == cl[c].peer + 1
<1>1. TypeOK /\ InSession /\ AirInOrder /\ Orderly
  BY Given
<1>2. /\ cl[c].at = "next" /\ cl[c].peer < Peers /\ cl[c].drained < MaxDrained /\ cl[c].room > 0
      /\ UNCHANGED <<home, out, srv, next, air, faults, excuse>>
      /\ \/ cl' = [cl EXCEPT ![c].peer = p] /\ UNCHANGED <<rxq, crossed>>
         \/ /\ cl' = [cl EXCEPT ![c].at = "send", ![c].peer = p]
            /\ rxq' = [rxq EXCEPT ![c] = <<>>]
            /\ crossed' = (crossed \/ \E d \in Client \ {c} :
                             home[d] = home[c] /\ Connected(d) /\ cl[d].peer = p)
  BY DEF NextPeer
<1>3. cl[c] \in ClientState /\ p \in 0 .. Peers /\ p > 0 /\ cl \in [Client -> ClientState]
      /\ "send" \in {"idle", "next", "send", "wait"}
  <2>1. cl[c] \in ClientState /\ cl[c].peer \in 0 .. Peers
    BY <1>1, ClientTypes
  <2>2. p \in 0 .. Peers /\ p > 0
    <3>1. PICK n \in Nat : n = cl[c].peer /\ n < Peers
      BY <1>2, <2>1, Bounds
    <3>2. QED
      BY <3>1, Bounds
  <2>3. QED
    BY <2>1, <2>2, Given
<1>4. CASE cl' = [cl EXCEPT ![c].peer = p] /\ UNCHANGED <<rxq, crossed>>
  <2> DEFINE k == [cl[c] EXCEPT !.peer = p]
  <2>1. k \in ClientState
    BY <1>3, Zenon DEF ClientState
  <2>2. k.at = "next"
    BY <1>2, <1>3 DEF ClientState
  <2>3. cl' = [cl EXCEPT ![c] = k]
    BY <1>3, <1>4
  <2>4. Fits(k)
    BY <2>2 DEF Fits
  <2> HIDE DEF k
  <2>5. cl' \in [Client -> ClientState] /\ InSession' /\ Stays
    BY <1>1, <2>1, <2>2, <2>3, <2>4, ClientMoves
  <2>6. AirInOrder' /\ Orderly'
    BY <1>1, <1>2, <1>4, <2>5, StaysOrderly
  <2>7. QED
    BY <1>1, <1>2, <1>4, <2>5, <2>6, Given, Keeps
<1>5. CASE /\ cl' = [cl EXCEPT ![c].at = "send", ![c].peer = p]
           /\ rxq' = [rxq EXCEPT ![c] = <<>>]
           /\ crossed' = (crossed \/ \E d \in Client \ {c} :
                            home[d] = home[c] /\ Connected(d) /\ cl[d].peer = p)
  <2> DEFINE k == [cl[c] EXCEPT !.at = "send", !.peer = p]
  <2>1. k \in ClientState
    BY <1>3, Zenon DEF ClientState
  <2>2. k.at = "send" /\ k.peer = p /\ k.drained = cl[c].drained /\ k.room = cl[c].room
    BY <1>3 DEF ClientState
  <2>3. cl' = [cl EXCEPT ![c] = k]
    BY <1>3, <1>5
  <2>4. Fits(k)
    BY <1>2, <1>3, <2>2 DEF Fits
  <2> HIDE DEF k
  <2>5. cl' \in [Client -> ClientState] /\ InSession' /\ cl'[c] = k
        /\ \A d \in Client \ {c} : cl'[d] = cl[d]
    BY <1>1, <2>1, <2>3, <2>4, ClientMoves
  <2>6. /\ rxq' \in [Client -> Seq(Msg)] /\ rxq'[c] = <<>>
        /\ \A d \in Client \ {c} : rxq'[d] = rxq[d]
    BY <1>5, Given
  <2>7. \A i \in 1 .. Len(rxq'[c]) : ~Brings(rxq'[c][i])
    BY <2>6
  <2>8. crossed' \in BOOLEAN /\ (crossed => crossed')
    BY <1>5, Given
  <2>9. ASSUME NEW d \in Client \ {c}, ~crossed', Connected(d), cl'[c].peer = cl[d].peer
        PROVE  home[c] # home[d]
    BY <1>5, <2>2, <2>5, <2>9
  <2>10. AirInOrder' /\ Orderly'
    BY <1>1, <1>2, <2>5, <2>6, <2>7, <2>8, <2>9, EmptiedOrderly
  <2>11. QED
    BY <1>1, <1>2, <2>5, <2>6, <2>8, <2>10, Given, Keeps
<1>6. QED
  BY <1>2, <1>4, <1>5

(* The same request again, or the end of the session.                        *)
LEMMA AgainMoves ==
  ASSUME TypeOK, InSession, NEW c \in Client, Connected(c), cl' = [cl EXCEPT ![c] = Again(c)]
  PROVE  cl' \in [Client -> ClientState] /\ InSession' /\ Stays
<1>1. cl[c].peer > 0 /\ cl[c].drained < MaxDrained /\ cl[c].room > 0
  BY DEF InSession
<1>2. /\ Again(c) \in ClientState
      /\ Again(c).at \in {"next", "send"}
      /\ Again(c).at = "send" => /\ Again(c).peer = cl[c].peer
                                 /\ Again(c).drained = cl[c].drained
                                 /\ Again(c).room = cl[c].room
  BY <1>1, AgainType
<1>3. Fits(Again(c))
  BY <1>1, <1>2 DEF Fits
<1>4. Again(c).at \in {"send", "wait"} => Connected(c) /\ Again(c).peer = cl[c].peer
  BY <1>2
<1>5. QED
  BY <1>2, <1>3, <1>4, ClientMoves

LEMMA TimeoutKeeps ==
  ASSUME IInv, NEW c \in Client, Timeout(c)
  PROVE  IInv'
<1>1. TypeOK /\ InSession /\ AirInOrder /\ Orderly /\ Connected(c)
  BY Given DEF Timeout, Connected
<1>2. cl' = [cl EXCEPT ![c] = Again(c)] /\ UNCHANGED <<home, rxq, out, srv, next, air, crossed>>
  BY DEF Timeout
<1>3. faults' \in Nat /\ excuse' \in Nat
  BY Given DEF Timeout
<1>4. cl' \in [Client -> ClientState] /\ InSession' /\ Stays
  BY <1>1, <1>2, AgainMoves
<1>5. AirInOrder' /\ Orderly'
  BY <1>1, <1>2, <1>4, StaysOrderly
<1>6. QED
  BY <1>1, <1>2, <1>3, <1>4, <1>5, Given, Keeps


(* What a peer serves goes on its way, whether or not it was acknowledged.   *)
LEMMA ServeKeeps ==
  ASSUME IInv, NEW c \in Client, Connected(c), Serve(cl[c].peer, c), Stays, InSession',
         cl' \in [Client -> ClientState], UNCHANGED <<home, rxq, out, crossed>>,
         faults' \in Nat, excuse' \in Nat
  PROVE  IInv'
<1> DEFINE p == cl[c].peer
<1>1. TypeOK /\ InSession /\ AirInOrder /\ Orderly
  BY Given
<1>2. p \in Peer
  BY <1>1, SessionPeer
<1>3. srv' \in [Peer -> BOOLEAN] /\ \E g \in Datagram : Gives(p, g)
  BY <1>1, <1>2, ServeGives
<1>4. PICK g \in Datagram : Gives(p, g)
  BY <1>3
<1>5. air' \in [Peer -> Seq(Datagram)]
  BY <1>1, <1>2, <1>4, GivenAir
<1>6. next' \in [Peer -> 0 .. Chunks]
  BY <1>4 DEF Gives
<1>7. AirInOrder' /\ Orderly'
  BY <1>1, <1>2, <1>4, GivesOrderly
<1>8. QED
  BY <1>1, <1>3, <1>5, <1>6, <1>7, Given, Keeps

LEMMA SendKeeps ==
  ASSUME IInv, NEW c \in Client, Send(c)
  PROVE  IInv'
<1>1. TypeOK /\ InSession /\ AirInOrder /\ Orderly /\ Connected(c) /\ UNCHANGED <<home, rxq, out, crossed>>
  BY Given DEF Send, Connected
<1>2. CASE /\ Serve(cl[c].peer, c) /\ cl' = [cl EXCEPT ![c].at = "wait"]
           /\ UNCHANGED <<faults, excuse>>
  <2> DEFINE k == [cl[c] EXCEPT !.at = "wait"]
  <2>1. cl[c] \in ClientState /\ "wait" \in {"idle", "next", "send", "wait"}
    BY <1>1, ClientTypes
  <2>2. k \in ClientState
    BY <2>1, Zenon DEF ClientState
  <2>3. k.at = "wait" /\ k.peer = cl[c].peer /\ k.drained = cl[c].drained /\ k.room = cl[c].room
    BY <2>1 DEF ClientState
  <2>4. cl' = [cl EXCEPT ![c] = k]
    BY <1>2, Given
  <2>5. Fits(k)
    BY <1>1, <2>3 DEF Fits, InSession
  <2> HIDE DEF k
  <2>6. cl' \in [Client -> ClientState] /\ InSession' /\ Stays
    BY <1>1, <2>2, <2>3, <2>4, <2>5, ClientMoves
  <2>7. faults' \in Nat /\ excuse' \in Nat
    BY <1>2, Given
  <2>8. QED
    BY <1>1, <1>2, <2>6, <2>7, ServeKeeps
<1>3. CASE /\ Serve(cl[c].peer, c) \/ UNCHANGED <<srv, next, air>>
           /\ cl' = [cl EXCEPT ![c] = Again(c)]
           /\ faults' = faults + 1 /\ excuse' = excuse + 1
  <2>1. cl' \in [Client -> ClientState] /\ InSession' /\ Stays
    BY <1>1, <1>3, AgainMoves
  <2>2. faults' \in Nat /\ excuse' \in Nat
    BY <1>3, Given
  <2>3. CASE Serve(cl[c].peer, c)
    BY <1>1, <2>1, <2>2, <2>3, ServeKeeps
  <2>4. CASE UNCHANGED <<srv, next, air>>
    <3>1. AirInOrder' /\ Orderly'
      BY <1>1, <2>1, <2>4, StaysOrderly
    <3>2. QED
      BY <1>1, <2>1, <2>2, <2>4, <3>1, Given, Keeps
  <2>5. QED
    BY <1>3, <2>3, <2>4
<1>4. QED
  BY <1>2, <1>3 DEF Send

LEMMA HangupKeeps ==
  ASSUME IInv, NEW c \in Client, Hangup(c)
  PROVE  IInv'
<1>1. TypeOK /\ InSession /\ AirInOrder /\ Orderly
  BY Given
<1>2. Connected(c) /\ rxq' = [rxq EXCEPT ![c] = <<Eof>>] /\ UNCHANGED <<home, cl, out, srv, next, air, crossed>>
  BY DEF Hangup
<1>4. faults' \in Nat /\ excuse' \in Nat
  BY Given DEF Hangup
<1>5. <<Eof>> \in Seq(Msg)
  BY MsgTypes
<1>6. /\ rxq' \in [Client -> Seq(Msg)] /\ rxq'[c] = <<Eof>>
      /\ \A d \in Client \ {c} : rxq'[d] = rxq[d]
  BY <1>2, <1>5, Given
<1>7. \A i \in 1 .. Len(rxq'[c]) : ~Brings(rxq'[c][i])
  BY <1>6, MsgTypes DEF Brings
<1>8. InSession'
  BY <1>1, <1>2 DEF InSession, Connected
<1>9. CASE crossed
  <2>1. AirInOrder'
    BY <1>1, <1>2 DEF AirInOrder, Brings, Before
  <2>2. Orderly'
    BY <1>2, <1>9 DEF Orderly
  <2>3. QED
    BY <1>1, <1>2, <1>4, <1>6, <1>8, <2>1, <2>2, Given, Keeps
<1>10. CASE ~crossed
  <2>1. QueuesApart
    BY <1>1, <1>10 DEF Orderly
  <2>2. ASSUME NEW d \in Client \ {c}, Connected(d), cl'[c].peer = cl[d].peer
        PROVE  home[c] # home[d]
    BY <1>2, <2>1, <2>2 DEF QueuesApart
  <2>3. AirInOrder' /\ Orderly'
    BY <1>1, <1>2, <1>6, <1>7, <2>2, EmptiedOrderly
  <2>4. QED
    BY <1>1, <1>2, <1>4, <1>6, <1>8, <2>3, Given, Keeps
<1>11. QED
  BY <1>9, <1>10

LEMMA ArriveKeeps ==
  ASSUME IInv, NEW p \in Peer, Arrive(p)
  PROVE  IInv'
<1>1. TypeOK /\ InSession /\ AirInOrder /\ Orderly
  BY Given
<1>2. LeavesAir(p) /\ rxq' \in [Client -> Seq(Msg)] /\ UNCHANGED <<home, cl, out, srv, next, faults, excuse, crossed>>
  BY <1>1, HeardQueue DEF Arrive, history
<1>3. air' \in [Peer -> Seq(Datagram)]
  BY <1>1, <1>2, LeftAir
<1>4. AirInOrder' /\ Orderly'
  BY <1>1, ArriveOrderly
<1>5. InSession'
  BY <1>1, <1>2 DEF InSession, Connected
<1>6. QED
  BY <1>1, <1>2, <1>3, <1>4, <1>5, Given, Keeps

LEMMA LoseKeeps ==
  ASSUME IInv, NEW p \in Peer, Lose(p)
  PROVE  IInv'
<1>1. TypeOK /\ InSession /\ AirInOrder /\ Orderly
  BY Given
<1>2. LeavesAir(p) /\ UNCHANGED <<home, cl, rxq, out, srv, next, crossed>>
      /\ faults' = faults + 1 /\ excuse' = excuse + 1
  BY DEF Lose, LeavesAir
<1>3. air' \in [Peer -> Seq(Datagram)] /\ faults' \in Nat /\ excuse' \in Nat
  BY <1>1, <1>2, LeftAir, Given
<1>4. AirInOrder' /\ Orderly'
  BY <1>1, <1>2, LoseOrderly
<1>5. InSession'
  BY <1>1, <1>2 DEF InSession, Connected
<1>6. QED
  BY <1>1, <1>2, <1>3, <1>4, <1>5, Given, Keeps


LEMMA TellsKeeps ==
  ASSUME IInv, NEW c \in Client, NEW n \in Nat, Tells(c, n), Stays, InSession',
         cl' \in [Client -> ClientState], excuse' \in Nat, UNCHANGED <<home, srv, next, air, faults, crossed>>
  PROVE  IInv'
<1>1. TypeOK /\ InSession /\ AirInOrder /\ Orderly
  BY Given
<1>2. rxq' \in [Client -> Seq(Msg)]
  BY <1>1, TakenQueue DEF Tells
<1>3. out' \in [Client -> Seq(Peer \X Nat)]
  BY <1>1, ToldOut
<1>4. AirInOrder' /\ Orderly'
  BY <1>1, TellsOrderly
<1>5. QED
  BY <1>1, <1>2, <1>3, <1>4, Given, Keeps

(* A reply that tells nothing.                                               *)
LEMMA TellsNothing ==
  ASSUME TypeOK, NEW c \in Client, Connected(c), rxq[c] # <<>>, rxq' = [rxq EXCEPT ![c] = Tail(@)],
         UNCHANGED out
  PROVE  Tells(c, 0)
<1> DEFINE f == [i \in 1 .. 0 |-> <<cl[c].peer, rxq[c][1].from + i - 1>>]
           S == Peer \X Nat
<1>1. f = <<>>
  OBVIOUS
<1> HIDE DEF f
<1>2. out \in [Client -> Seq(S)]
  BY DEF TypeOK
<1> HIDE DEF S
<1>3. out[c] \o f = out[c]
  BY <1>1, <1>2
<1>4. out' = [out EXCEPT ![c] = @ \o f]
  BY <1>2, <1>3
<1>5. 0 = 0 \/ (Brings(rxq[c][1]) /\ 0 <= rxq[c][1].n)
  BY Zenon
<1>6. QED
  BY <1>4, <1>5, Zenon DEF Tells, f

(* An answer: what it tells is taken from its reply, and the buffer has room. *)
LEMMA AcceptMoves ==
  ASSUME TypeOK, InSession, NEW c \in Client, Connected(c), NEW m \in Msg, Accept(c, m)
  PROVE  /\ cl' \in [Client -> ClientState] /\ InSession' /\ Stays
         /\ excuse' \in Nat /\ \A d \in Client \ {c} : cl'[d] = cl[d]
         /\ \E n \in Nat : /\ n = 0 \/ (Brings(m) /\ n <= m.n)
                           /\ excuse' = IF m.op = "read" /\ m.n > n THEN excuse + 1 ELSE excuse
                           /\ out' = [out EXCEPT ![c] = @ \o [i \in 1 .. n |-> <<cl[c].peer, m.from + i - 1>>]]
<1> DEFINE kept == IF m.ok /\ m.op = "read" /\ cl[c].step = "read" THEN Kept(c, m) ELSE 0
           got == cl[c].got + kept
           room == cl[c].room - kept
           iter == IF cl[c].step = "read" THEN cl[c].iter + 1 ELSE cl[c].iter
           more == [cl[c] EXCEPT !.at = "send", !.step = After(cl[c].step), !.tag = cl[c].tag + 1, !.try = 0,
                                 !.reads = 0, !.room = room, !.got = got, !.iter = iter]
           end == \/ ~m.ok \/ m.op # cl[c].step
                  \/ /\ cl[c].step = "read"
                     /\ \/ kept = 0
                        \/ cl[c].iter + 1 = MaxIter
                        \/ room = 0
           over == [Done(c, got) EXCEPT !.room = room]
           k == IF end THEN over ELSE more
<1>1. /\ cl' = [cl EXCEPT ![c] = k]
      /\ out' = [out EXCEPT ![c] = @ \o [i \in 1 .. kept |-> <<cl[c].peer, m.from + i - 1>>]]
      /\ excuse' = IF m.op = "read" /\ m.n > kept THEN excuse + 1 ELSE excuse
  BY DEF Accept
<1>2. /\ cl[c] \in ClientState /\ cl[c].room \in 0 .. Cap /\ cl[c].step \in Op /\ cl[c].tag \in Nat
      /\ cl[c].iter \in 0 .. MaxIter - 1 /\ cl[c].got \in Nat
  BY ClientTypes
<1>3. cl[c].peer > 0 /\ cl[c].drained < MaxDrained /\ cl[c].room > 0
  BY DEF InSession
<1>4. m.n \in Nat /\ Kept(c, m) \in 0 .. cl[c].room /\ Kept(c, m) <= m.n
  BY <1>2, MsgTypes, Bounds DEF Kept
<1>5. kept \in 0 .. cl[c].room /\ kept \in Nat /\ (kept = 0 \/ (Brings(m) /\ kept <= m.n))
  BY <1>2, <1>4, Bounds DEF Brings
<1>6. room \in 0 .. Cap /\ got \in Nat
  BY <1>2, <1>5, Bounds
<1>7. excuse' \in Nat
  BY <1>1 DEF TypeOK
<1>8. over \in ClientState /\ over.at = "next"
  BY <1>3, <1>6, DoneType
<1>9. ASSUME ~end PROVE iter \in 0 .. MaxIter - 1 /\ room > 0
  <2>1. cl[c].step = "read" => kept # 0 /\ cl[c].iter + 1 # MaxIter /\ room # 0
    BY <1>9
  <2>2. cl[c].step # "read" => kept = 0
    OBVIOUS
  <2> HIDE DEF kept
  <2>3. CASE cl[c].step = "read"
    BY <1>2, <1>6, <2>1, <2>3, Bounds
  <2>4. CASE cl[c].step # "read"
    BY <1>2, <1>3, <2>2, <2>4
  <2>5. QED
    BY <2>3, <2>4
<1>10. After(cl[c].step) \in Op /\ cl[c].tag + 1 \in Nat /\ 0 \in 0 .. Attempts - 1 /\ 0 \in 0 .. Reads - 1
       /\ "send" \in {"idle", "next", "send", "wait"}
  BY <1>2, Bounds DEF After, Op
<1> HIDE DEF kept, got, room, iter, end, over
<1>11. ASSUME ~end PROVE more \in ClientState
  BY <1>2, <1>6, <1>9, <1>10, <1>11, Zenon DEF ClientState
<1>12. /\ more.at = "send" /\ more.peer = cl[c].peer /\ more.drained = cl[c].drained
       /\ more.room = room
  BY <1>2 DEF ClientState
<1> HIDE DEF more
<1>13. CASE end
  <2>1. k = over
    BY <1>13
  <2>2. Fits(over)
    BY <1>8 DEF Fits
  <2> HIDE DEF k
  <2>3. cl' \in [Client -> ClientState] /\ InSession' /\ Stays /\ \A d \in Client \ {c} : cl'[d] = cl[d]
    BY <1>1, <1>8, <2>1, <2>2, ClientMoves
  <2>4. QED
    BY <1>1, <1>5, <1>7, <2>3
<1>14. CASE ~end
  <2>1. k = more
    BY <1>14
  <2>2. Fits(more)
    BY <1>3, <1>9, <1>12, <1>14 DEF Fits
  <2> HIDE DEF k
  <2>3. more \in ClientState
    BY <1>11, <1>14
  <2>4. cl' \in [Client -> ClientState] /\ InSession' /\ Stays /\ \A d \in Client \ {c} : cl'[d] = cl[d]
    BY <1>1, <1>12, <2>1, <2>2, <2>3, ClientMoves
  <2>5. QED
    BY <1>1, <1>5, <1>7, <2>4
<1>15. QED
  BY <1>13, <1>14

(* A stale reply: one read of the attempt less.                              *)
LEMMA DiscardMoves ==
  ASSUME TypeOK, InSession, NEW c \in Client, cl[c].at = "wait", Discard(c)
  PROVE  cl' \in [Client -> ClientState] /\ InSession' /\ Stays /\ UNCHANGED out /\ excuse' \in Nat
<1> DEFINE n == cl[c].reads + 1
           k == [cl[c] EXCEPT !.reads = n]
<1>1. UNCHANGED out /\ excuse' \in Nat /\ Connected(c) /\ cl \in [Client -> ClientState]
  BY DEF Discard, Connected, TypeOK
<1>2. CASE n = Reads
  <2>1. cl' = [cl EXCEPT ![c] = Again(c)]
    BY <1>2 DEF Discard
  <2>2. QED
    BY <1>1, <2>1, AgainMoves
<1>3. CASE n # Reads
  <2>1. cl' = [cl EXCEPT ![c] = k]
    BY <1>3, Zenon DEF Discard
  <2>2. cl[c] \in ClientState /\ n \in 0 .. Reads - 1
    BY <1>3, ClientTypes, Bounds
  <2> HIDE DEF n
  <2>3. k \in ClientState
    BY <2>2, Zenon DEF ClientState
  <2>4. k.at = "wait" /\ k.peer = cl[c].peer /\ k.drained = cl[c].drained /\ k.room = cl[c].room
    BY <2>2 DEF ClientState
  <2>5. Fits(k)
    BY <1>1, <2>4 DEF Fits, InSession
  <2> HIDE DEF k
  <2>6. cl' \in [Client -> ClientState] /\ InSession' /\ Stays
    BY <1>1, <2>1, <2>3, <2>4, <2>5, ClientMoves
  <2>7. QED
    BY <1>1, <2>6
<1>4. QED
  BY <1>2, <1>3


LEMMA TakeKeeps ==
  ASSUME IInv, NEW c \in Client, Take(c)
  PROVE  IInv'
<1> DEFINE m == Head(rxq[c])
<1>1. TypeOK /\ InSession
  BY Given
<1>2. /\ cl[c].at = "wait" /\ Connected(c) /\ rxq[c] # <<>> /\ rxq' = [rxq EXCEPT ![c] = Tail(@)]
      /\ UNCHANGED <<home, srv, next, air, faults, crossed>>
  BY DEF Take, Connected
<1>3. m = rxq[c][1] /\ m \in Msg
  BY <1>1, <1>2, TakenQueue
<1>4. CASE m.op = "eof"
  <2>1. cl' = [cl EXCEPT ![c] = Done(c, cl[c].got)] /\ UNCHANGED <<out, excuse>>
    BY <1>4 DEF Take
  <2>2. Done(c, cl[c].got) \in ClientState /\ Done(c, cl[c].got).at = "next"
    BY <1>1, <1>2, DoneType, ClientTypes DEF InSession
  <2>3. Fits(Done(c, cl[c].got))
    BY <2>2 DEF Fits
  <2>4. cl' \in [Client -> ClientState] /\ InSession' /\ Stays
    BY <1>1, <2>1, <2>2, <2>3, ClientMoves
  <2>5. Tells(c, 0) /\ excuse' \in Nat
    BY <1>1, <1>2, <2>1, TellsNothing, Given
  <2>6. QED
    BY <1>2, <2>4, <2>5, TellsKeeps
<1>5. CASE m.op # "eof" /\ m.tag = cl[c].tag
  <2>1. Accept(c, m)
    BY <1>5 DEF Take
  <2>2. /\ cl' \in [Client -> ClientState] /\ InSession' /\ Stays /\ excuse' \in Nat
        /\ \E n \in Nat : /\ n = 0 \/ (Brings(m) /\ n <= m.n)
                          /\ out' = [out EXCEPT ![c] = @ \o [i \in 1 .. n |-> <<cl[c].peer, m.from + i - 1>>]]
    BY <1>1, <1>2, <1>3, <2>1, AcceptMoves
  <2>3. PICK n \in Nat : Tells(c, n)
    BY <1>2, <1>3, <2>2, Zenon DEF Tells
  <2>4. QED
    BY <1>2, <2>2, <2>3, TellsKeeps
<1>6. CASE m.op # "eof" /\ m.tag # cl[c].tag
  <2>1. Discard(c)
    BY <1>6 DEF Take
  <2>2. cl' \in [Client -> ClientState] /\ InSession' /\ Stays /\ UNCHANGED out /\ excuse' \in Nat
    BY <1>1, <1>2, <2>1, DiscardMoves
  <2>3. Tells(c, 0)
    BY <1>1, <1>2, <2>2, TellsNothing
  <2>4. QED
    BY <1>2, <2>2, <2>3, TellsKeeps
<1>7. QED
  BY <1>4, <1>5, <1>6

-----------------------------------------------------------------------------
(* The theorems                                                              *)

LEMMA InitInv ==
  Init => IInv
<1> SUFFICES ASSUME Init PROVE IInv
  OBVIOUS
<1>1. TypeOK
  <2>1. <<>> \in Seq(Msg) /\ <<>> \in Seq(Peer \X Nat) /\ <<>> \in Seq([to : {home[c] : c \in Client}, msg : Msg])
    OBVIOUS
  <2>2. 0 \in 0 .. Chunks /\ 0 \in Nat
    BY Bounds
  <2>3. QED
    BY <2>1, <2>2, IdleType DEF Init, TypeOK
<1>2. \A c \in Client : cl[c].at = "idle" /\ rxq[c] = <<>> /\ out[c] = <<>>
  BY DEF Init, Idle
<1>3. \A c \in Client : ~Connected(c)
  BY <1>2 DEF Connected
<1>4. InSession /\ QueueInOrder /\ QueuesApart
  BY <1>3 DEF InSession, QueueInOrder, QueuesApart
<1>5. AirInOrder
  BY DEF Init, AirInOrder
<1>6. \A c \in Client : 1 .. Len(out[c]) = {}
  BY <1>2
<1>7. OutIsOver
  BY <1>6 DEF OutIsOver
<1>8. ASSUME NEW c \in Client PROVE ToSet(out[c]) = {}
  <2>1. out[c] \in Seq(Peer \X Nat)
    BY <1>1 DEF TypeOK
  <2>2. ToSet(out[c]) = {out[c][i] : i \in 1 .. Len(out[c])}
    BY <2>1, ElementsOfSeq
  <2>3. QED
    BY <1>6, <2>2
<1>9. ToldOnceInOrder
  BY <1>6, <1>8 DEF ToldOnceInOrder
<1>10. QED
  BY <1>1, <1>4, <1>5, <1>7, <1>9 DEF IInv

LEMMA NextInv ==
  IInv /\ [Next]_vars => IInv'
<1> SUFFICES ASSUME IInv, [Next]_vars PROVE IInv'
  OBVIOUS
<1>1. ASSUME NEW c \in Client, NEW mode \in Modes, MeshRead(c, mode) PROVE IInv'
  BY <1>1, ReadKeeps
<1>2. ASSUME NEW c \in Client, MeshReturn(c) PROVE IInv'
  BY <1>2, ReturnKeeps
<1>3. ASSUME NEW c \in Client, NextPeer(c) PROVE IInv'
  BY <1>3, NextPeerKeeps
<1>4. ASSUME NEW c \in Client, Send(c) PROVE IInv'
  BY <1>4, SendKeeps
<1>5. ASSUME NEW c \in Client, Timeout(c) PROVE IInv'
  BY <1>5, TimeoutKeeps
<1>6. ASSUME NEW c \in Client, Take(c) PROVE IInv'
  BY <1>6, TakeKeeps
<1>7. ASSUME NEW c \in Client, Hangup(c) PROVE IInv'
  BY <1>7, HangupKeeps
<1>8. ASSUME NEW p \in Peer, Arrive(p) PROVE IInv'
  BY <1>8, ArriveKeeps
<1>9. ASSUME NEW p \in Peer, Lose(p) PROVE IInv'
  BY <1>9, LoseKeeps
<1>10. CASE UNCHANGED vars
  <2>1. TypeOK /\ InSession /\ AirInOrder /\ Orderly /\ UNCHANGED <<home, cl, rxq, out, srv, next, air, faults, excuse, crossed>>
    BY <1>10, Given DEF vars
  <2>2. Stays /\ InSession'
    BY <2>1 DEF Stays, Connected, InSession
  <2>3. AirInOrder' /\ Orderly'
    BY <2>1, <2>2, StaysOrderly
  <2>4. QED
    BY <2>1, <2>2, <2>3, Given, Keeps
<1>11. QED
  BY <1>1, <1>2, <1>3, <1>4, <1>5, <1>6, <1>7, <1>8, <1>9, <1>10 DEF Next, Progress

LEMMA InvHolds ==
  Spec => []IInv
BY InitInv, NextInv, PTL DEF Spec

(* Every variable stays in its type: in particular the fields of a session's  *)
(* state stay within the bounds of m9_rpc's attempts and reads and of the     *)
(* drain's buffer, neighbours and rounds (aether_net.c).                      *)
THEOREM TypeCorrect == Spec => []TypeOK
<1>1. IInv => TypeOK
  BY DEF IInv
<1>2. QED
  BY <1>1, InvHolds, PTL

(* While no two reads of one gateway were connected to one neighbour, no      *)
(* chunk of gen_mflt is returned twice by the reads of dev/mflt_mesh, and     *)
(* each client returns a neighbour's in their order, for every number of      *)
(* retransmissions of m9_rpc and every loss, delay and hangup.                *)
THEOREM NoneToldTwice == Spec => []ToldOnceInOrder
<1>1. IInv => ToldOnceInOrder
  BY DEF IInv
<1>2. QED
  BY <1>1, InvHolds, PTL

-----------------------------------------------------------------------------
(* What is lost is paid for                                                  *)

LEMMA Least1 ==
  ASSUME NEW S, IsFiniteSet(S), NEW T \in SUBSET S
  PROVE  IsFiniteSet(T) /\ Cardinality(T) \in Nat /\ Cardinality(T) <= Cardinality(S)
BY FS_Subset, FS_CardinalityType

LEMMA Places ==
  ASSUME NEW k, NEW n \in Nat
  PROVE  IsFiniteSet({k} \X (1 .. n)) /\ Cardinality({k} \X (1 .. n)) = n
<1>1. IsFiniteSet({k}) /\ Cardinality({k}) = 1
  BY FS_Singleton
<1>2. IsFiniteSet(1 .. n) /\ Cardinality(1 .. n) = n
  BY FS_Interval
<1>3. IsFiniteSet({k} \X (1 .. n)) /\ Cardinality({k} \X (1 .. n)) = Cardinality({k}) * Cardinality(1 .. n)
  BY <1>1, <1>2, FS_Product
<1>4. QED
  BY <1>1, <1>2, <1>3

LEMMA SpotsFinite ==
  ASSUME NEW K, IsFiniteSet(K), NEW n \in [K -> Nat]
  PROVE  IsFiniteSet(Spots(n)) /\ Cardinality(Spots(n)) \in Nat
<1> DEFINE f == [k \in K |-> {k} \X (1 .. n[k])]
           R == {f[k] : k \in K}
<1>1. f \in Surjection(K, R)
  BY DEF Surjection
<1>2. IsFiniteSet(R)
  BY <1>1, FS_Surjection
<1>3. ASSUME NEW T \in R PROVE IsFiniteSet(T)
  <2>1. PICK k \in K : T = {k} \X (1 .. n[k])
    OBVIOUS
  <2>2. n[k] \in Nat
    OBVIOUS
  <2>3. QED
    BY <2>1, <2>2, Places
<1>4. IsFiniteSet(UNION R)
  BY <1>2, <1>3, FS_UNION
<1>5. Spots(n) = UNION R
  BY DEF Spots
<1>6. QED
  BY <1>4, <1>5, FS_CardinalityType

(* The number of places changes with the one that changes.                   *)
LEMMA SpotsChange ==
  ASSUME NEW K, IsFiniteSet(K), NEW n \in [K -> Nat], NEW m \in [K -> Nat], NEW k \in K,
         \A j \in K \ {k} : m[j] = n[j]
  PROVE  Cardinality(Spots(m)) + n[k] = Cardinality(Spots(n)) + m[k]
<1> DEFINE B == UNION {{j} \X (1 .. n[j]) : j \in K \ {k}}
<1>1. Spots(n) = B \cup ({k} \X (1 .. n[k]))
  BY DEF Spots
<1>2. Spots(m) = B \cup ({k} \X (1 .. m[k]))
  BY DEF Spots
<1>3. B \cap ({k} \X (1 .. n[k])) = {} /\ B \cap ({k} \X (1 .. m[k])) = {}
  OBVIOUS
<1>4. IsFiniteSet(B) /\ Cardinality(B) \in Nat
  <2>1. B \subseteq Spots(n)
    BY <1>1
  <2>2. QED
    BY <2>1, SpotsFinite, FS_Subset, FS_CardinalityType
<1>5. n[k] \in Nat /\ m[k] \in Nat /\ Cardinality({}) = 0
  BY FS_EmptySet
<1> HIDE DEF B
<1>6. ASSUME NEW i \in Nat, B \cap ({k} \X (1 .. i)) = {}
      PROVE  Cardinality(B \cup ({k} \X (1 .. i))) = Cardinality(B) + i
  <2> DEFINE P == {k} \X (1 .. i)
  <2>1. IsFiniteSet(P) /\ Cardinality(P) = i
    BY Places
  <2> HIDE DEF P
  <2>2. Cardinality(B \cup P) = Cardinality(B) + Cardinality(P) - Cardinality(B \cap P)
    BY <1>4, <2>1, FS_Union
  <2>3. Cardinality(B \cap P) = 0
    BY <1>5, <1>6, Zenon DEF P
  <2>4. Cardinality(B \cup P) = Cardinality(B) + i
    BY <1>4, <1>5, <2>1, <2>2, <2>3
  <2>5. QED
    BY <2>4 DEF P
<1>7. Cardinality(Spots(n)) = Cardinality(B) + n[k] /\ Cardinality(Spots(m)) = Cardinality(B) + m[k]
  BY <1>1, <1>2, <1>3, <1>5, <1>6
<1>8. QED
  BY <1>4, <1>5, <1>7

(* The chunks that the replies lo .. hi of s have.                           *)
Chunked(p, s, lo, hi) == {w \in {p} \X Nat : \E i \in lo .. hi : w[2] \in In(s[i])}

LEMMA ChunkedSize ==
  ASSUME NEW p, NEW s, NEW lo \in Nat, NEW hi \in Nat, lo <= hi + 1,
         \A i \in lo .. hi : s[i] \in Msg /\ AtMostBatch(s[i])
  PROVE  /\ IsFiniteSet(Chunked(p, s, lo, hi)) /\ Cardinality(Chunked(p, s, lo, hi)) \in Nat
         /\ Cardinality(Chunked(p, s, lo, hi)) <= Batch * (hi - lo + 1)
<1> DEFINE T == (lo .. hi) \X (0 .. Batch - 1)
           g == [t \in T |-> <<p, s[t[1]].from + t[2]>>]
           R == {g[t] : t \in T}
           n == hi - lo + 1
<1>1. IsFiniteSet(lo .. hi) /\ Cardinality(lo .. hi) = n /\ n \in Nat
  BY FS_Interval
<1>2. IsFiniteSet(0 .. Batch - 1) /\ Cardinality(0 .. Batch - 1) = Batch
  BY FS_Interval, Bounds
<1>3. IsFiniteSet(T) /\ Cardinality(T) = Cardinality(lo .. hi) * Cardinality(0 .. Batch - 1)
  BY <1>1, <1>2, FS_Product
<1>4. Cardinality(T) = n * Batch
  BY <1>1, <1>2, <1>3
<1>5. g \in Surjection(T, R)
  BY DEF Surjection
<1>6. IsFiniteSet(R) /\ Cardinality(R) <= Cardinality(T)
  BY <1>3, <1>5, FS_Surjection
<1>7. Chunked(p, s, lo, hi) \subseteq R
  <2>1. SUFFICES ASSUME NEW w \in Chunked(p, s, lo, hi) PROVE w \in R
    OBVIOUS
  <2>2. w = <<p, w[2]>> /\ w[2] \in Nat
    BY <2>1 DEF Chunked
  <2>3. PICK i \in lo .. hi : w[2] \in In(s[i])
    BY <2>1 DEF Chunked
  <2>4. s[i].from \in Nat /\ s[i].n \in Nat /\ s[i].n <= Batch
    BY <2>3, MsgTypes DEF AtMostBatch
  <2>5. w[2] \in s[i].from .. s[i].from + s[i].n - 1
    BY <2>3 DEF In
  <2>6. w[2] - s[i].from \in 0 .. Batch - 1 /\ s[i].from + (w[2] - s[i].from) = w[2]
    BY <2>2, <2>4, <2>5, Bounds
  <2>7. <<i, w[2] - s[i].from>> \in T
    BY <2>3, <2>6
  <2>8. g[<<i, w[2] - s[i].from>>] = w
    BY <2>2, <2>6, <2>7
  <2>9. QED
    BY <2>7, <2>8, Zenon
<1> HIDE DEF R, T, n
<1>8. IsFiniteSet(Chunked(p, s, lo, hi)) /\ Cardinality(Chunked(p, s, lo, hi)) <= Cardinality(R)
  BY <1>6, <1>7, FS_Subset
<1>9. Cardinality(Chunked(p, s, lo, hi)) \in Nat /\ Cardinality(R) \in Nat /\ Cardinality(T) \in Nat
  BY <1>3, <1>6, <1>8, FS_CardinalityType
<1>10. n * Batch = Batch * n
  BY <1>1, Bounds
<1>11. QED
  BY <1>4, <1>6, <1>8, <1>9, <1>10 DEF n

-----------------------------------------------------------------------------
(* What a step does to the parts of the balance                              *)

(* The messages of each conversation that a session will still take.         *)
Queued == [c \in Client |-> IF Connected(c) THEN Len(rxq[c]) ELSE 0]
Flying == [p \in Peer |-> Len(air[p])]

AllFinite ==
  /\ Queued \in [Client -> Nat] /\ Flying \in [Peer -> Nat]
  /\ InQueues = Spots(Queued) /\ InAir = Spots(Flying)
  /\ Cardinality(InQueues) \in Nat /\ Cardinality(InAir) \in Nat
  /\ IsFiniteSet(Lost) /\ Cardinality(Lost) \in Nat
  /\ IsFiniteSet(Awaiting) /\ Cardinality(Awaiting) \in Nat

LEMMA FiniteParts ==
  IsFiniteSet(Client) /\ IsFiniteSet(Peer) /\ IsFiniteSet(0 .. Chunks)
BY DrainAssumption, Bounds, FS_Interval DEF Peer

LEMMA Finite ==
  TypeOK => AllFinite
<1> SUFFICES ASSUME TypeOK PROVE AllFinite
  OBVIOUS
<1>1. IsFiniteSet(Client) /\ IsFiniteSet(Peer) /\ IsFiniteSet(0 .. Chunks)
  BY FiniteParts
<1>2. Queued \in [Client -> Nat] /\ Flying \in [Peer -> Nat]
  BY QueueTypes DEF Queued, Flying
<1>3. InQueues = Spots(Queued) /\ InAir = Spots(Flying)
  BY DEF InQueues, InAir, Queued, Flying
<1>4. Cardinality(InQueues) \in Nat /\ Cardinality(InAir) \in Nat
  BY <1>1, <1>2, <1>3, SpotsFinite
<1>5. IsFiniteSet(Lost) /\ Cardinality(Lost) \in Nat
  <2>1. IsFiniteSet(Peer \X (0 .. Chunks))
    BY <1>1, FS_Product
  <2>2. Lost \subseteq Peer \X (0 .. Chunks)
    BY DEF Lost
  <2>3. QED
    BY <2>1, <2>2, Least1
<1>6. IsFiniteSet(Awaiting) /\ Cardinality(Awaiting) \in Nat
  <2>1. Awaiting \subseteq Client
    BY DEF Awaiting
  <2>2. QED
    BY <1>1, <2>1, Least1
<1>7. QED
  BY <1>2, <1>3, <1>4, <1>5, <1>6 DEF AllFinite

LEMMA FinitePrimed ==
  TypeOK' => AllFinite'
BY Finite, PTL

(* One conversation, one peer's replies.                                     *)
LEMMA OneQueue ==
  ASSUME TypeOK, TypeOK', NEW c \in Client, \A d \in Client \ {c} : Queued'[d] = Queued[d]
  PROVE  Cardinality(InQueues') + Queued[c] = Cardinality(InQueues) + Queued'[c]
<1>1. /\ IsFiniteSet(Client) /\ Queued \in [Client -> Nat] /\ InQueues = Spots(Queued)
      /\ Queued' \in [Client -> Nat] /\ InQueues' = Spots(Queued')
  BY FiniteParts, Finite, FinitePrimed DEF AllFinite
<1>2. QED
  BY <1>1, SpotsChange

LEMMA OneAir ==
  ASSUME TypeOK, TypeOK', NEW p \in Peer, \A q \in Peer \ {p} : Flying'[q] = Flying[q]
  PROVE  Cardinality(InAir') + Flying[p] = Cardinality(InAir) + Flying'[p]
<1>1. /\ IsFiniteSet(Peer) /\ Flying \in [Peer -> Nat] /\ InAir = Spots(Flying)
      /\ Flying' \in [Peer -> Nat] /\ InAir' = Spots(Flying')
  BY FiniteParts, Finite, FinitePrimed DEF AllFinite
<1>2. QED
  BY <1>1, SpotsChange

(* At most one client stops waiting.                                         *)
Wait(c) == IF Awaited(c) THEN 1 ELSE 0

LEMMA WaitsChange ==
  ASSUME TypeOK, TypeOK', NEW c \in Client, \A d \in Client \ {c} : Awaited(d) => Awaited(d)'
  PROVE  Cardinality(Awaiting) + Wait(c)' <= Cardinality(Awaiting') + Wait(c)
<1> DEFINE A == Awaiting \ {c}
           B == Awaiting' \ {c}
<1>1. /\ IsFiniteSet(Awaiting) /\ Cardinality(Awaiting) \in Nat
      /\ IsFiniteSet(Awaiting') /\ Cardinality(Awaiting') \in Nat
  BY Finite, FinitePrimed DEF AllFinite
<1>2. A \subseteq B
  BY DEF Awaiting
<1>3. IsFiniteSet(B) /\ Cardinality(B) \in Nat /\ Cardinality(A) \in Nat /\ Cardinality(A) <= Cardinality(B)
  <2>1. IsFiniteSet(B) /\ Cardinality(B) \in Nat
    BY <1>1, Least1
  <2> HIDE DEF A, B
  <2>2. QED
    BY <1>2, <2>1, Least1
<1>4. Cardinality(A) = Cardinality(Awaiting) - Wait(c)
  <2>1. Cardinality(A) = IF c \in Awaiting THEN Cardinality(Awaiting) - 1 ELSE Cardinality(Awaiting)
    BY <1>1, FS_RemoveElement
  <2>2. c \in Awaiting <=> Awaited(c)
    BY DEF Awaiting
  <2> HIDE DEF A
  <2>3. QED
    BY <1>1, <2>1, <2>2 DEF Wait
<1>5. Cardinality(B) = Cardinality(Awaiting') - Wait(c)'
  <2>1. Cardinality(B) = IF c \in Awaiting' THEN Cardinality(Awaiting') - 1 ELSE Cardinality(Awaiting')
    BY <1>1, FS_RemoveElement
  <2>2. c \in Awaiting' <=> Awaited(c)'
    BY DEF Awaiting
  <2> HIDE DEF B
  <2>3. QED
    BY <1>1, <2>1, <2>2 DEF Wait
<1> HIDE DEF A, B
<1>6. Wait(c) \in Nat /\ Wait(c)' \in Nat
  BY DEF Wait
<1>7. QED
  BY <1>1, <1>3, <1>4, <1>5, <1>6

(* The chunks that a step loses are in the messages lo .. hi of s, which the   *)
(* step drops, from peer p.                                                  *)
Loses(p, s, lo, hi) ==
  /\ \A i \in lo .. hi : s[i] \in Msg /\ AtMostBatch(s[i])
  /\ \A q \in Peer, x \in 0 .. Chunks :
       /\ Told(q, x) => Told(q, x)'
       /\ Carries(q, x) => \/ Carries(q, x)'
                           \/ Told(q, x)'
                           \/ q = p /\ \E i \in lo .. hi : x \in In(s[i])
       /\ x < next'[q] => x < next[q] \/ Carries(q, x)'

LEMMA LostGrows ==
  ASSUME TypeOK, TypeOK', NEW p, NEW s, NEW lo \in Nat, NEW hi \in Nat, lo <= hi + 1,
         Loses(p, s, lo, hi)
  PROVE  Cardinality(Lost') <= Cardinality(Lost) + Batch * (hi - lo + 1)
<1> DEFINE D == Chunked(p, s, lo, hi)
<1>1. IsFiniteSet(D) /\ Cardinality(D) \in Nat /\ Cardinality(D) <= Batch * (hi - lo + 1)
  BY ChunkedSize DEF Loses
<1>2. /\ IsFiniteSet(Lost) /\ Cardinality(Lost) \in Nat
      /\ IsFiniteSet(Lost') /\ Cardinality(Lost') \in Nat
  BY Finite, FinitePrimed DEF AllFinite
<1>3. Lost' \subseteq Lost \cup D
  <2>1. SUFFICES ASSUME NEW w \in Lost' PROVE w \in Lost \cup D
    OBVIOUS
  <2> DEFINE q == w[1]
             x == w[2]
  <2>2. /\ w \in Peer \X (0 .. Chunks) /\ q \in Peer /\ x \in 0 .. Chunks /\ w = <<q, x>>
        /\ x < next'[q] /\ ~Told(q, x)' /\ ~Carries(q, x)'
    BY <2>1 DEF Lost
  <2> HIDE DEF q, x
  <2>3. x < next[q] /\ ~Told(q, x)
    BY <2>2 DEF Loses
  <2>4. CASE Carries(q, x)
    <3>1. q = p /\ \E i \in lo .. hi : x \in In(s[i])
      BY <2>2, <2>4 DEF Loses
    <3>2. x \in Nat /\ w[2] = x /\ w \in {p} \X Nat
      BY <2>2, <3>1
    <3>3. w \in D
      BY <3>1, <3>2, Zenon DEF Chunked
    <3>4. QED
      BY <3>3
  <2>5. CASE ~Carries(q, x)
    BY <2>2, <2>3, <2>5, Zenon DEF Lost, q, x
  <2>6. QED
    BY <2>4, <2>5
<1> HIDE DEF D
<1>4. IsFiniteSet(Lost \cup D) /\ Cardinality(Lost \cup D) \in Nat
      /\ Cardinality(Lost \cup D) <= Cardinality(Lost) + Cardinality(D)
  <2>1. IsFiniteSet(Lost \cup D) /\ IsFiniteSet(Lost \cap D)
        /\ Cardinality(Lost \cup D) = Cardinality(Lost) + Cardinality(D) - Cardinality(Lost \cap D)
    BY <1>1, <1>2, FS_Union, FS_Intersection
  <2>2. Cardinality(Lost \cup D) \in Nat /\ Cardinality(Lost \cap D) \in Nat
    BY <2>1, FS_CardinalityType
  <2>3. QED
    BY <1>1, <1>2, <2>1, <2>2
<1>5. Cardinality(Lost') <= Cardinality(Lost \cup D)
  BY <1>3, <1>4, Least1
<1>6. Batch * (hi - lo + 1) \in Nat
  <2>1. hi - lo + 1 \in Nat
    OBVIOUS
  <2>2. QED
    BY <2>1, Bounds
<1>7. QED
  BY <1>1, <1>2, <1>4, <1>5, <1>6

Covers(l, n, e, w) == l + Batch * n <= Batch * (e + w)

LEMMA Pays ==
  ASSUME NEW l \in Nat, NEW k \in Nat, NEW n \in Nat, NEW m \in Nat, NEW d \in Nat,
         NEW e \in Nat, NEW f \in Nat, NEW w \in Nat, NEW v \in Nat,
         Covers(l, n, e, w), k <= l + Batch * d, m + d + e + w <= n + f + v
  PROVE  Covers(k, m, f, v)
<1>1. Batch \in Nat
  BY Bounds
<1>2. \A x, y \in Nat : Batch * (x + y) = Batch * x + Batch * y /\ Batch * x \in Nat
  BY <1>1
<1>3. \A x, y \in Nat : x <= y => Batch * x <= Batch * y
  BY <1>1
<1>4. m + d + e + w \in Nat /\ n + f + v \in Nat /\ e + w \in Nat /\ f + v \in Nat /\ m + d \in Nat
  OBVIOUS
<1>5. Batch * (m + d + e + w) <= Batch * (n + f + v)
  BY <1>3, <1>4
<1>6. /\ Batch * ((m + d) + (e + w)) = Batch * (m + d) + Batch * (e + w)
      /\ Batch * (m + d) = Batch * m + Batch * d
      /\ Batch * (n + (f + v)) = Batch * n + Batch * (f + v)
      /\ Batch * m \in Nat /\ Batch * d \in Nat /\ Batch * n \in Nat
      /\ Batch * (e + w) \in Nat /\ Batch * (f + v) \in Nat
  BY <1>2, <1>4
<1>7. (m + d) + (e + w) = m + d + e + w /\ n + (f + v) = n + f + v
  OBVIOUS
<1> DEFINE a == Batch * (e + w)
           b == Batch * (f + v)
           g == Batch * m
           h == Batch * d
           o == Batch * n
<1>8. a \in Nat /\ b \in Nat /\ g \in Nat /\ h \in Nat /\ o \in Nat
      /\ g + h + a <= o + b /\ l + o <= a /\ k <= l + h
  BY <1>5, <1>6, <1>7 DEF Covers
<1> HIDE DEF a, b, g, h, o
<1>9. k + g <= b
  BY <1>8
<1>10. QED
  BY <1>9 DEF b, g, Covers

LEMMA Balanced ==
  ASSUME IInv, IInv', Budget, crossed => crossed', NEW d \in Nat,
         ~crossed' => /\ Cardinality(Lost') <= Cardinality(Lost) + Batch * d
                      /\ Cardinality(InQueues') + Cardinality(InAir') + d + excuse + Cardinality(Awaiting)
                           <= Cardinality(InQueues) + Cardinality(InAir) + excuse' + Cardinality(Awaiting')
  PROVE  Budget'
<1>1. CASE crossed'
  BY <1>1 DEF Budget
<1>2. CASE ~crossed'
  <2> DEFINE n == Cardinality(InQueues) + Cardinality(InAir)
             m == Cardinality(InQueues') + Cardinality(InAir')
  <2>1. /\ Cardinality(InQueues) \in Nat /\ Cardinality(InAir) \in Nat /\ Cardinality(Lost) \in Nat
        /\ Cardinality(Awaiting) \in Nat /\ excuse \in Nat
    BY Finite, Given DEF AllFinite
  <2>2. /\ Cardinality(InQueues') \in Nat /\ Cardinality(InAir') \in Nat /\ Cardinality(Lost') \in Nat
        /\ Cardinality(Awaiting') \in Nat /\ excuse' \in Nat
    <3>1. TypeOK'
      BY DEF IInv
    <3>2. QED
      BY <3>1, FinitePrimed DEF AllFinite, TypeOK
  <2>3. n \in Nat /\ m \in Nat
    BY <2>1, <2>2
  <2>4. Cardinality(Lost) + Batch * n <= Batch * (excuse + Cardinality(Awaiting))
    BY <1>2 DEF Budget
  <2>5. m + d + excuse + Cardinality(Awaiting) <= n + excuse' + Cardinality(Awaiting')
    BY <1>2, <2>1, <2>2
  <2>6. Cardinality(Lost') <= Cardinality(Lost) + Batch * d
    BY <1>2
  <2> DEFINE l == Cardinality(Lost)
             k == Cardinality(Lost')
             w == Cardinality(Awaiting)
             v == Cardinality(Awaiting')
  <2>7. /\ l \in Nat /\ k \in Nat /\ w \in Nat /\ v \in Nat /\ n \in Nat /\ m \in Nat
        /\ excuse \in Nat /\ excuse' \in Nat
        /\ Covers(l, n, excuse, w) /\ k <= l + Batch * d
        /\ m + d + excuse + w <= n + excuse' + v
    BY <2>1, <2>2, <2>3, <2>4, <2>5, <2>6 DEF Covers
  <2> HIDE DEF n, m, l, k, w, v
  <2>8. Covers(k, m, excuse', v)
    BY <2>7, Pays
  <2>9. QED
    BY <2>8 DEF Budget, Covers, m, k, v
<1>3. QED
  BY <1>1, <1>2

-----------------------------------------------------------------------------
(* The steps of one client                                                   *)

Own(c) ==
  /\ UNCHANGED home
  /\ \A d \in Client \ {c} : cl'[d] = cl[d] /\ rxq'[d] = rxq[d]
  /\ \A p \in Peer : \A i \in 1 .. Len(air[p]) : i \in 1 .. Len(air'[p]) /\ air'[p][i] = air[p][i]
  /\ \A d \in Client : \A i \in 1 .. Len(out[d]) : i \in 1 .. Len(out'[d]) /\ out'[d][i] = out[d][i]

LEMMA OwnWaits ==
  ASSUME TypeOK, InSession, NEW c \in Client, Own(c), NEW d \in Client \ {c}, Awaited(d)
  PROVE  Awaited(d)'
<1>1. cl'[d] = cl[d] /\ rxq'[d] = rxq[d] /\ home' = home /\ cl[d].at = "wait"
  BY DEF Own, Awaited
<1>2. cl[d].peer \in Peer
  BY <1>1, SessionPeer DEF Connected
<1>3. QED
  BY <1>1, <1>2 DEF Own, Awaited

(* What of its queue is told, still queued, or dropped.                      *)
Drops(c, lo, hi) ==
  /\ \A i \in lo .. hi : i \in 1 .. Len(rxq[c])
  /\ Connected(c) =>
       \A i \in 1 .. Len(rxq[c]) :
         \/ i \in lo .. hi
         \/ \A p \in {cl[c].peer}, x \in In(rxq[c][i]) : Told(p, x)'
         \/ /\ Connected(c)' /\ cl'[c].peer = cl[c].peer
            /\ \E j \in 1 .. Len(rxq'[c]) : rxq'[c][j] = rxq[c][i]

LEMMA OwnLost ==
  ASSUME TypeOK, TypeOK', InSession, Batches, NEW c \in Client, Own(c),
         NEW lo \in Nat, NEW hi \in Nat, lo <= hi + 1, Drops(c, lo, hi),
         \A q \in Peer, x \in 0 .. Chunks : x < next'[q] => x < next[q] \/ Carries(q, x)'
  PROVE  Cardinality(Lost') <= Cardinality(Lost) + Batch * (hi - lo + 1)
<1>1. \A i \in lo .. hi : rxq[c][i] \in Msg /\ AtMostBatch(rxq[c][i])
  BY QueueTypes DEF Drops, Batches
<1>2. ASSUME NEW q \in Peer, NEW x \in 0 .. Chunks, Told(q, x) PROVE Told(q, x)'
  BY <1>2 DEF Told, Own
<1>3. ASSUME NEW q \in Peer, NEW x \in 0 .. Chunks, Carries(q, x)
      PROVE  \/ Carries(q, x)'
             \/ Told(q, x)'
             \/ q = cl[c].peer /\ \E i \in lo .. hi : x \in In(rxq[c][i])
  <2>1. CASE \E i \in 1 .. Len(air[q]) : x \in In(air[q][i].msg)
    <3>1. PICK i \in 1 .. Len(air[q]) : x \in In(air[q][i].msg)
      BY <2>1
    <3>2. i \in 1 .. Len(air'[q]) /\ air'[q][i] = air[q][i]
      BY <3>1 DEF Own
    <3>3. x \in In(air'[q][i].msg)
      BY <3>1, <3>2
    <3>4. Carries(q, x)'
      BY <3>2, <3>3 DEF Carries, In
    <3>5. QED
      BY <3>4
  <2>2. CASE ~\E i \in 1 .. Len(air[q]) : x \in In(air[q][i].msg)
    <3>1. PICK d \in Client : /\ Connected(d) /\ cl[d].peer = q
                              /\ \E i \in 1 .. Len(rxq[d]) : x \in In(rxq[d][i])
      BY <1>3, <2>2 DEF Carries
    <3>2. PICK i \in 1 .. Len(rxq[d]) : x \in In(rxq[d][i])
      BY <3>1
    <3>3. CASE d # c
      <4>1. cl'[d] = cl[d] /\ rxq'[d] = rxq[d]
        BY <3>3 DEF Own
      <4>2. Connected(d)' /\ cl'[d].peer = q
        BY <3>1, <4>1 DEF Connected
      <4>3. Carries(q, x)'
        BY <3>2, <4>1, <4>2 DEF Carries, In
      <4>4. QED
        BY <4>3
    <3>4. CASE d = c
      <4>1. \/ i \in lo .. hi
            \/ \A p \in {cl[c].peer}, y \in In(rxq[c][i]) : Told(p, y)'
            \/ /\ Connected(c)' /\ cl'[c].peer = cl[c].peer
               /\ \E j \in 1 .. Len(rxq'[c]) : rxq'[c][j] = rxq[c][i]
        BY <3>1, <3>2, <3>4 DEF Drops
      <4>2. CASE Connected(c)' /\ cl'[c].peer = cl[c].peer /\ \E j \in 1 .. Len(rxq'[c]) : rxq'[c][j] = rxq[c][i]
        <5>1. PICK j \in 1 .. Len(rxq'[c]) : rxq'[c][j] = rxq[c][i]
          BY <4>2
        <5>2. x \in In(rxq'[c][j])
          BY <3>2, <3>4, <5>1
        <5>3. Carries(q, x)'
          BY <3>1, <3>4, <4>2, <5>2 DEF Carries, In
        <5>4. QED
          BY <5>3
      <4>3. CASE i \in lo .. hi
        BY <3>1, <3>2, <3>4, <4>3, Zenon
      <4>4. CASE \A p \in {cl[c].peer}, y \in In(rxq[c][i]) : Told(p, y)'
        <5>1. x \in In(rxq[c][i]) /\ q = cl[c].peer
          BY <3>1, <3>2, <3>4
        <5>2. Told(q, x)'
          BY <4>4, <5>1
        <5>3. QED
          BY <5>2
      <4>5. QED
        BY <4>1, <4>2, <4>3, <4>4
    <3>5. QED
      BY <3>3, <3>4
  <2>3. QED
    BY <2>1, <2>2
<1>4. QED
  <2>1. Loses(cl[c].peer, rxq[c], lo, hi)
    BY <1>1, <1>2, <1>3, Zenon DEF Loses
  <2>2. QED
    BY <2>1, LostGrows

(* What is dropped, sent and waited for is balanced by what is queued and     *)
(* by excuses.                                                               *)
ClientPays(c, d, a) ==
  d + a + Queued'[c] + excuse + Wait(c) <= Queued[c] + excuse' + Wait(c)'

LEMMA StepPays ==
  ASSUME IInv, IInv', Batches, Budget, crossed => crossed', NEW c \in Client, Own(c),
         NEW lo \in Nat, NEW hi \in Nat, lo <= hi + 1, Drops(c, lo, hi),
         \A q \in Peer, x \in 0 .. Chunks : x < next'[q] => x < next[q] \/ Carries(q, x)',
         NEW a \in Nat, Cardinality(InAir') = Cardinality(InAir) + a,
         ClientPays(c, hi - lo + 1, a)
  PROVE  Budget'
<1> DEFINE d == hi - lo + 1
<1>1. TypeOK /\ TypeOK' /\ InSession /\ d \in Nat
  BY Given DEF IInv
<1>2. Cardinality(Lost') <= Cardinality(Lost) + Batch * d
  BY <1>1, OwnLost
<1> HIDE DEF d
<1>3. \A e \in Client \ {c} : Queued'[e] = Queued[e]
  BY DEF Own, Queued, Connected
<1>4. Cardinality(InQueues') + Queued[c] = Cardinality(InQueues) + Queued'[c]
  BY <1>1, <1>3, OneQueue
<1>5. Cardinality(Awaiting) + Wait(c)' <= Cardinality(Awaiting') + Wait(c)
  BY <1>1, OwnWaits, WaitsChange
<1>6. /\ Cardinality(InQueues) \in Nat /\ Cardinality(InAir) \in Nat
      /\ Cardinality(Awaiting) \in Nat /\ Queued[c] \in Nat /\ excuse \in Nat
      /\ Cardinality(InQueues') \in Nat /\ Cardinality(InAir') \in Nat
      /\ Cardinality(Awaiting') \in Nat /\ Queued'[c] \in Nat /\ excuse' \in Nat
  BY <1>1, Finite, FinitePrimed DEF AllFinite, TypeOK
<1>7. Wait(c) \in Nat /\ Wait(c)' \in Nat
  BY DEF Wait
<1>8. d + a + Queued'[c] + excuse + Wait(c) <= Queued[c] + excuse' + Wait(c)'
  BY DEF ClientPays, d
<1>9. Cardinality(InQueues') + Cardinality(InAir') + d + excuse + Cardinality(Awaiting)
        <= Cardinality(InQueues) + Cardinality(InAir) + excuse' + Cardinality(Awaiting')
  BY <1>1, <1>4, <1>5, <1>6, <1>7, <1>8
<1>10. QED
  BY <1>1, <1>2, <1>9, Balanced

(* A step that sends nothing.                                                *)
LEMMA QuietPays ==
  ASSUME IInv, IInv', Batches, Budget, crossed => crossed', NEW c \in Client, Own(c),
         NEW lo \in Nat, NEW hi \in Nat, lo <= hi + 1, Drops(c, lo, hi),
         UNCHANGED <<next, air>>, ClientPays(c, hi - lo + 1, 0)
  PROVE  Budget'
<1>1. InAir' = InAir
  BY DEF InAir
<1>2. Cardinality(InAir) \in Nat
  BY Finite, Given DEF AllFinite
<1>3. Cardinality(InAir') = Cardinality(InAir) + 0
  BY <1>1, <1>2
<1>4. \A q \in Peer, x \in 0 .. Chunks : x < next'[q] => x < next[q] \/ Carries(q, x)'
  OBVIOUS
<1>5. 0 \in Nat
  OBVIOUS
<1> HIDE DEF ClientPays
<1>6. QED
  BY <1>3, <1>4, <1>5, StepPays, Zenon

LEMMA OwnQuiet ==
  ASSUME NEW c \in Client, UNCHANGED <<home, out, air>>,
         \A d \in Client \ {c} : cl'[d] = cl[d] /\ rxq'[d] = rxq[d]
  PROVE  Own(c)
BY DEF Own

LEMMA DropsNothing ==
  ASSUME NEW c \in Client, ~Connected(c)
  PROVE  Drops(c, 1, 0)
<1>1. 1 .. 0 = {}
  OBVIOUS
<1>2. QED
  BY <1>1, Zenon DEF Drops

LEMMA DropsAll ==
  ASSUME TypeOK, NEW c \in Client
  PROVE  Drops(c, 1, Len(rxq[c]))
BY QueueTypes DEF Drops

(* A step of a client that has no session and that hears nothing after it.    *)
LEMMA NewsPays ==
  ASSUME IInv, IInv', Batches, Budget, crossed => crossed', NEW c \in Client, ~Connected(c),
         Queued'[c] = 0, UNCHANGED <<home, out, next, air, excuse>>,
         \A d \in Client \ {c} : cl'[d] = cl[d] /\ rxq'[d] = rxq[d]
  PROVE  Budget'
<1>1. Own(c) /\ Drops(c, 1, 0)
  BY OwnQuiet, DropsNothing
<1>2. Queued[c] = 0 /\ Wait(c) = 0 /\ Wait(c)' \in Nat /\ excuse \in Nat
  BY Given DEF Queued, Wait, Awaited, Connected
<1>3. ClientPays(c, 0 - 1 + 1, 0)
  BY <1>2 DEF ClientPays
<1>4. 1 \in Nat /\ 0 \in Nat /\ 1 <= 0 + 1
  OBVIOUS
<1>5. QED
  BY <1>1, <1>3, <1>4, QuietPays

LEMMA Unheard ==
  ASSUME NEW c \in Client, ~Connected(c)' \/ rxq'[c] = <<>>
  PROVE  Queued'[c] = 0
<1>1. Len(<<>>) = 0
  OBVIOUS
<1>2. Queued'[c] = IF Connected(c)' THEN Len(rxq'[c]) ELSE 0
  BY DEF Queued
<1>3. QED
  BY <1>1, <1>2, Zenon

LEMMA ReadPays ==
  ASSUME IInv, IInv', Batches, Budget, NEW c \in Client, NEW mode \in Modes, MeshRead(c, mode)
  PROVE  Budget'
<1>1. cl \in [Client -> ClientState] /\ cl[c].at = "idle" /\ UNCHANGED <<home, rxq, out, next, air, excuse, crossed>>
  BY Given DEF MeshRead, history
<1> DEFINE k == [Idle EXCEPT !.at = "next", !.mode = mode, !.room = Cap, !.pass = cl[c].pass + 1]
<1>2. cl' = [cl EXCEPT ![c] = k] /\ k.at = "next"
  BY IdleType DEF MeshRead, ClientState
<1> HIDE DEF k
<1>3. ~Connected(c) /\ ~Connected(c)' /\ \A d \in Client \ {c} : cl'[d] = cl[d]
  BY <1>1, <1>2 DEF Connected
<1>4. QED
  BY <1>1, <1>3, Unheard, NewsPays

LEMMA ReturnPays ==
  ASSUME IInv, IInv', Batches, Budget, NEW c \in Client, MeshReturn(c)
  PROVE  Budget'
<1>1. cl \in [Client -> ClientState] /\ cl[c].at = "next" /\ UNCHANGED <<home, rxq, out, next, air, excuse, crossed>>
  BY Given DEF MeshReturn, history
<1> DEFINE k == [Idle EXCEPT !.pass = cl[c].pass]
<1>2. cl' = [cl EXCEPT ![c] = k] /\ k.at = "idle"
  BY DEF MeshReturn, Idle
<1> HIDE DEF k
<1>3. ~Connected(c) /\ ~Connected(c)' /\ \A d \in Client \ {c} : cl'[d] = cl[d]
  BY <1>1, <1>2 DEF Connected
<1>4. QED
  BY <1>1, <1>3, Unheard, NewsPays

LEMMA NextPeerPays ==
  ASSUME IInv, IInv', Batches, Budget, NEW c \in Client, NextPeer(c)
  PROVE  Budget'
<1> DEFINE p == cl[c].peer + 1
<1>1. /\ cl \in [Client -> ClientState] /\ rxq \in [Client -> Seq(Msg)]
      /\ cl[c].at = "next" /\ UNCHANGED <<home, out, next, air, excuse>>
  BY Given DEF NextPeer
<1>2. ~Connected(c)
  BY <1>1 DEF Connected
<1>3. CASE cl' = [cl EXCEPT ![c].peer = p] /\ UNCHANGED <<rxq, crossed>>
  <2> HIDE DEF p
  <2>1. cl'[c].at = "next" /\ \A d \in Client \ {c} : cl'[d] = cl[d]
    BY <1>1, <1>3 DEF ClientState
  <2>2. ~Connected(c)'
    BY <2>1 DEF Connected
  <2>3. QED
    BY <1>1, <1>2, <1>3, <2>1, <2>2, Unheard, NewsPays
<1>4. CASE /\ cl' = [cl EXCEPT ![c].at = "send", ![c].peer = p]
           /\ rxq' = [rxq EXCEPT ![c] = <<>>]
           /\ crossed' = (crossed \/ \E d \in Client \ {c} :
                            home[d] = home[c] /\ Connected(d) /\ cl[d].peer = p)
  <2>1. crossed => crossed'
    BY <1>4
  <2>2. rxq'[c] = <<>> /\ \A d \in Client \ {c} : rxq'[d] = rxq[d]
    BY <1>1, <1>4
  <2>3. \A d \in Client \ {c} : cl'[d] = cl[d]
    BY <1>1, <1>4
  <2>4. QED
    BY <1>1, <1>2, <2>1, <2>2, <2>3, Unheard, NewsPays
<1>5. QED
  BY <1>3, <1>4 DEF NextPeer

LEMMA TimeoutPays ==
  ASSUME IInv, IInv', Batches, Budget, NEW c \in Client, Timeout(c)
  PROVE  Budget'
<1>1. /\ cl \in [Client -> ClientState] /\ cl[c].at = "wait" /\ rxq[c] = <<>> /\ rxq' = rxq /\ excuse \in Nat
      /\ UNCHANGED <<home, out, next, air, crossed>> /\ cl' = [cl EXCEPT ![c] = Again(c)]
      /\ excuse' = excuse + IF Pending(c) THEN 1 ELSE 0
  BY Given DEF Timeout
<1>2. \A d \in Client \ {c} : cl'[d] = cl[d]
  BY <1>1
<1>3. Own(c) /\ Drops(c, 1, 0)
  <2>1. 1 .. 0 = {} /\ 1 .. Len(<<>>) = {}
    OBVIOUS
  <2>2. Drops(c, 1, 0)
    BY <1>1, <2>1, Zenon DEF Drops
  <2>3. QED
    BY <1>1, <1>2, <2>2, OwnQuiet
<1>4. Queued[c] = 0 /\ Queued'[c] = 0
  <2>1. Len(<<>>) = 0
    OBVIOUS
  <2>2. Queued[c] = 0
    BY <1>1, <2>1 DEF Queued
  <2>3. QED
    BY <1>1, <2>2, Unheard
<1>5. Wait(c)' \in Nat /\ Wait(c) <= IF Pending(c) THEN 1 ELSE 0
  <2>1. Awaited(c) => Pending(c)
    <3>1. 1 .. Len(<<>>) = {}
      OBVIOUS
    <3>2. QED
      BY <1>1, <3>1 DEF Awaited, Pending
  <2>2. QED
    BY <2>1 DEF Wait
<1>6. Wait(c) \in Nat
  BY DEF Wait
<1>7. ClientPays(c, 0 - 1 + 1, 0)
  BY <1>1, <1>4, <1>5, <1>6 DEF ClientPays
<1>8. 1 \in Nat /\ 0 \in Nat /\ 1 <= 0 + 1
  OBVIOUS
<1>9. QED
  BY <1>1, <1>3, <1>7, <1>8, QuietPays

(* A request that gets through: its reply is on its way.                     *)
LEMMA GivesAir ==
  ASSUME TypeOK, TypeOK', NEW p \in Peer, NEW c \in Client, NEW g \in Datagram, Gives(p, g), Answers(p, c, g)
  PROVE  /\ Cardinality(InAir') = Cardinality(InAir) + 1
         /\ \A q \in Peer : \A i \in 1 .. Len(air[q]) : i \in 1 .. Len(air'[q]) /\ air'[q][i] = air[q][i]
         /\ \E i \in 1 .. Len(air'[p]) : air'[p][i] = g
         /\ \A q \in Peer, x \in 0 .. Chunks : x < next'[q] => x < next[q] \/ Carries(q, x)'
<1>1. air \in [Peer -> Seq(Datagram)] /\ air' = [air EXCEPT ![p] = Append(air[p], g)]
  BY QueueTypes DEF TypeOK, Datagram, Gives
<1>2. /\ Len(Append(air[p], g)) = Len(air[p]) + 1 /\ Len(air[p]) \in Nat
      /\ \A i \in 1 .. Len(air[p]) : Append(air[p], g)[i] = air[p][i]
      /\ Append(air[p], g)[Len(air[p]) + 1] = g
  BY <1>1, AppendedSeq
<1>3. air'[p] = Append(air[p], g) /\ \A q \in Peer \ {p} : air'[q] = air[q]
  BY <1>1
<1>4. Cardinality(InAir') = Cardinality(InAir) + 1
  <2>1. \A q \in Peer \ {p} : Flying'[q] = Flying[q]
    BY <1>3 DEF Flying
  <2>2. Cardinality(InAir') + Flying[p] = Cardinality(InAir) + Flying'[p]
    BY <2>1, OneAir
  <2>3. Flying[p] = Len(air[p]) /\ Flying'[p] = Len(air[p]) + 1
    BY <1>2, <1>3 DEF Flying
  <2>4. Cardinality(InAir') \in Nat /\ Cardinality(InAir) \in Nat
    BY Finite, FinitePrimed DEF AllFinite
  <2>5. QED
    BY <1>2, <2>2, <2>3, <2>4
<1>5. \A q \in Peer : \A i \in 1 .. Len(air[q]) : i \in 1 .. Len(air'[q]) /\ air'[q][i] = air[q][i]
  BY <1>2, <1>3
<1>6. \E i \in 1 .. Len(air'[p]) : air'[p][i] = g
  <2>1. Len(air[p]) + 1 \in 1 .. Len(air'[p]) /\ air'[p][Len(air[p]) + 1] = g
    BY <1>2, <1>3
  <2>2. QED
    BY <2>1
<1>7. ASSUME NEW q \in Peer, NEW x \in 0 .. Chunks, x < next'[q], ~(x < next[q])
      PROVE  Carries(q, x)'
  <2>1. q = p /\ In(g.msg) = next[p] .. next'[p] - 1
    BY <1>7 DEF Answers
  <2>2. x \in In(g.msg)
    <3>1. next[p] \in Nat /\ next'[p] \in Nat /\ x \in Nat
      BY Bounds DEF TypeOK
    <3>2. x \in next[p] .. next'[p] - 1
      BY <1>7, <2>1, <3>1
    <3>3. QED
      BY <2>1, <3>2
  <2>3. PICK i \in 1 .. Len(air'[p]) : air'[p][i] = g
    BY <1>6
  <2>4. x \in In(air'[p][i].msg)
    BY <2>2, <2>3
  <2>5. QED
    BY <2>1, <2>4 DEF Carries, In
<1>8. QED
  BY <1>4, <1>5, <1>6, <1>7

(* An attempt given up, or the session with it: what it drops is paid by one   *)
(* excuse; the first n of its queue are gone already.                        *)
LEMMA GivesUp ==
  ASSUME TypeOK, InSession, NEW c \in Client, Connected(c), cl' = [cl EXCEPT ![c] = Again(c)],
         NEW n \in Nat, n <= Len(rxq[c]), Len(rxq'[c]) = Len(rxq[c]) - n,
         \A i \in 1 .. Len(rxq[c]) : i <= n \/ \E j \in 1 .. Len(rxq'[c]) : rxq'[c][j] = rxq[c][i]
  PROVE  /\ \A d \in Client \ {c} : cl'[d] = cl[d]
         /\ Wait(c)' = 0
         /\ \E hi \in Nat : /\ 1 <= hi + 1 /\ Drops(c, 1, hi)
                            /\ hi - 1 + 1 + Queued'[c] = Queued[c]
<1>1. /\ cl \in [Client -> ClientState] /\ Len(rxq[c]) \in Nat
      /\ Queued[c] = Len(rxq[c]) /\ Again(c) \in ClientState /\ Again(c).at \in {"next", "send"}
      /\ Again(c).at = "send" => Again(c).peer = cl[c].peer
  BY QueueTypes, AgainType DEF TypeOK, Queued, InSession
<1>2. cl'[c] = Again(c) /\ \A d \in Client \ {c} : cl'[d] = cl[d]
  BY <1>1
<1>3. Wait(c)' = 0
  BY <1>1, <1>2 DEF Wait, Awaited
<1>4. CASE Again(c).at = "next"
  <2>1. Queued'[c] = 0
    BY <1>2, <1>4, Unheard DEF Connected
  <2>2. Drops(c, 1, Len(rxq[c]))
    BY DropsAll
  <2>3. Len(rxq[c]) - 1 + 1 + Queued'[c] = Queued[c] /\ 1 <= Len(rxq[c]) + 1
    BY <1>1, <2>1
  <2>4. QED
    BY <1>1, <1>2, <1>3, <2>2, <2>3, Zenon
<1>5. CASE Again(c).at = "send"
  <2>1. Connected(c)' /\ cl'[c].peer = cl[c].peer
    BY <1>1, <1>2, <1>5 DEF Connected
  <2>2. Queued'[c] = Len(rxq[c]) - n
    BY <2>1 DEF Queued
  <2>3. \A i \in 1 .. n : i \in 1 .. Len(rxq[c])
    BY <1>1
  <2>4. \A i \in 1 .. Len(rxq[c]) : i \in 1 .. n \/ \E j \in 1 .. Len(rxq'[c]) : rxq'[c][j] = rxq[c][i]
    BY <1>1
  <2>5. Drops(c, 1, n)
    BY <2>1, <2>3, <2>4, Zenon DEF Drops
  <2>6. n - 1 + 1 + Queued'[c] = Queued[c] /\ 1 <= n + 1
    BY <1>1, <2>2
  <2>7. QED
    BY <1>2, <1>3, <2>5, <2>6, Zenon
<1>6. QED
  BY <1>1, <1>4, <1>5

LEMMA SendPays ==
  ASSUME IInv, IInv', Batches, Budget, NEW c \in Client, Send(c)
  PROVE  Budget'
<1> DEFINE p == cl[c].peer
<1>1. TypeOK /\ TypeOK' /\ InSession /\ cl \in [Client -> ClientState] /\ excuse \in Nat
  BY Given DEF IInv
<1>2. /\ cl[c].at = "send" /\ Connected(c) /\ UNCHANGED <<home, rxq, out, crossed>>
      /\ Wait(c) = 0 /\ Wait(c)' \in Nat
  BY DEF Send, Connected, Wait, Awaited
<1>3. p \in Peer /\ Len(rxq[c]) \in Nat /\ Queued[c] = Len(rxq[c]) /\ Queued'[c] \in Nat
  BY <1>1, <1>2, SessionPeer, QueueTypes, FinitePrimed DEF Queued, AllFinite
<1>4. CASE /\ Serve(p, c)
           /\ cl' = [cl EXCEPT ![c].at = "wait"]
           /\ UNCHANGED <<faults, excuse>>
  <2> HIDE DEF p
  <2>1. PICK g \in Datagram : Gives(p, g) /\ Answers(p, c, g)
    BY <1>1, <1>3, <1>4, ServeGives
  <2>2. /\ Cardinality(InAir') = Cardinality(InAir) + 1
        /\ \A q \in Peer : \A i \in 1 .. Len(air[q]) : i \in 1 .. Len(air'[q]) /\ air'[q][i] = air[q][i]
        /\ \E i \in 1 .. Len(air'[p]) : air'[p][i] = g
        /\ \A q \in Peer, x \in 0 .. Chunks : x < next'[q] => x < next[q] \/ Carries(q, x)'
    BY <1>1, <1>3, <2>1, GivesAir
  <2>3. cl'[c].at = "wait" /\ cl'[c].peer = p /\ cl'[c].tag = cl[c].tag /\ \A d \in Client \ {c} : cl'[d] = cl[d]
    BY <1>1, <1>4 DEF ClientState, p
  <2>4. Own(c)
    BY <1>2, <2>2, <2>3, Zenon DEF Own
  <2>5. Drops(c, 1, 0)
    <3>1. 1 .. 0 = {} /\ Connected(c)' /\ cl'[c].peer = cl[c].peer
      BY <2>3 DEF Connected, p
    <3>2. \A i \in 1 .. Len(rxq[c]) : \E j \in 1 .. Len(rxq'[c]) : rxq'[c][j] = rxq[c][i]
      BY <1>2
    <3>3. QED
      BY <3>1, <3>2, Zenon DEF Drops
  <2>6. Wait(c)' = 1
    <3>1. PICK i \in 1 .. Len(air'[p]) : air'[p][i] = g
      BY <2>2
    <3>2. air'[p][i].to = home'[c] /\ air'[p][i].msg.tag = cl'[c].tag
      BY <1>2, <2>1, <2>3, <3>1 DEF Answers
    <3>3. Awaited(c)'
      BY <2>3, <3>1, <3>2 DEF Awaited
    <3>4. QED
      BY <3>3 DEF Wait
  <2>7. Queued'[c] = Queued[c]
    BY <1>2, <1>3, <2>3 DEF Queued, Connected
  <2>8. ClientPays(c, 0 - 1 + 1, 1)
    BY <1>1, <1>2, <1>3, <1>4, <2>6, <2>7 DEF ClientPays
  <2>9. 1 \in Nat /\ 0 \in Nat /\ 1 <= 0 + 1 /\ (crossed => crossed')
    BY <1>2
  <2>10. QED
    BY <2>2, <2>4, <2>5, <2>8, <2>9, StepPays
<1>5. CASE /\ Serve(p, c) \/ UNCHANGED <<srv, next, air>>
           /\ cl' = [cl EXCEPT ![c] = Again(c)]
           /\ excuse' = excuse + 1
  <2> HIDE DEF p
  <2>1. \A i \in 1 .. Len(rxq[c]) : i <= 0 \/ \E j \in 1 .. Len(rxq'[c]) : rxq'[c][j] = rxq[c][i]
    BY <1>2
  <2>2. 0 \in Nat /\ 0 <= Len(rxq[c]) /\ Len(rxq'[c]) = Len(rxq[c]) - 0
    BY <1>2, <1>3
  <2>3. /\ \A d \in Client \ {c} : cl'[d] = cl[d]
        /\ Wait(c)' = 0
        /\ \E hi \in Nat : /\ 1 <= hi + 1 /\ Drops(c, 1, hi)
                           /\ hi - 1 + 1 + Queued'[c] = Queued[c]
    BY <1>1, <1>2, <1>5, <2>1, <2>2, GivesUp
  <2>4. PICK hi \in Nat : 1 <= hi + 1 /\ Drops(c, 1, hi) /\ hi - 1 + 1 + Queued'[c] = Queued[c]
    BY <2>3
  <2>5. ASSUME NEW a \in {0, 1} PROVE ClientPays(c, hi - 1 + 1, a)
    <3>1. /\ excuse \in Nat /\ excuse' = excuse + 1 /\ Wait(c) = 0 /\ Wait(c)' = 0 /\ a \in Nat /\ a <= 1
          /\ hi \in Nat /\ Queued'[c] \in Nat /\ Queued[c] = hi - 1 + 1 + Queued'[c]
      BY <1>1, <1>2, <1>3, <1>5, <2>3, <2>4
    <3>2. QED
      BY <3>1 DEF ClientPays
  <2>6. 1 \in Nat /\ 0 \in Nat /\ (crossed => crossed')
    BY <1>2
  <2>7. CASE Serve(p, c)
    <3>1. PICK g \in Datagram : Gives(p, g) /\ Answers(p, c, g)
      BY <1>1, <1>3, <2>7, ServeGives
    <3>2. /\ Cardinality(InAir') = Cardinality(InAir) + 1
          /\ \A q \in Peer : \A i \in 1 .. Len(air[q]) : i \in 1 .. Len(air'[q]) /\ air'[q][i] = air[q][i]
          /\ \A q \in Peer, x \in 0 .. Chunks : x < next'[q] => x < next[q] \/ Carries(q, x)'
      BY <1>1, <1>3, <3>1, GivesAir
    <3>3. Own(c)
      BY <1>2, <2>3, <3>2, Zenon DEF Own
    <3>4. ClientPays(c, hi - 1 + 1, 1)
      BY <2>5
    <3>5. QED
      BY <2>4, <2>6, <3>2, <3>3, <3>4, StepPays
  <2>8. CASE UNCHANGED <<srv, next, air>>
    <3>1. Own(c)
      BY <1>2, <2>3, <2>8, OwnQuiet
    <3>2. ClientPays(c, hi - 1 + 1, 0)
      BY <2>5
    <3>3. QED
      BY <2>4, <2>6, <2>8, <3>1, <3>2, QuietPays
  <2>9. QED
    BY <1>5, <2>7, <2>8
<1>6. QED
  BY <1>4, <1>5 DEF Send

LEMMA HangupPays ==
  ASSUME IInv, IInv', Batches, Budget, NEW c \in Client, Hangup(c)
  PROVE  Budget'
<1>1. /\ TypeOK /\ rxq \in [Client -> Seq(Msg)] /\ excuse \in Nat /\ Connected(c)
      /\ rxq' = [rxq EXCEPT ![c] = <<Eof>>] /\ excuse' = excuse + 1
      /\ UNCHANGED <<home, cl, out, next, air, crossed>>
  BY Given DEF Hangup
<1>2. rxq'[c] = <<Eof>> /\ \A d \in Client \ {c} : cl'[d] = cl[d] /\ rxq'[d] = rxq[d]
  BY <1>1
<1>3. Own(c) /\ Drops(c, 1, Len(rxq[c]))
  BY <1>1, <1>2, OwnQuiet, DropsAll
<1>4. /\ Len(rxq[c]) \in Nat /\ Queued[c] = Len(rxq[c]) /\ Queued'[c] = 1
      /\ rxq'[c][1] = Eof /\ 1 \in 1 .. Len(rxq'[c])
  BY <1>1, <1>2, QueueTypes DEF Queued, Connected
<1>5. Wait(c) <= Wait(c)' /\ Wait(c) \in Nat /\ Wait(c)' \in Nat
  <2>1. Awaited(c) => Awaited(c)'
    BY <1>1, <1>4, MsgTypes DEF Awaited
  <2>2. QED
    BY <2>1 DEF Wait
<1>6. ClientPays(c, Len(rxq[c]) - 1 + 1, 0)
  BY <1>1, <1>4, <1>5 DEF ClientPays
<1>7. 1 \in Nat /\ 1 <= Len(rxq[c]) + 1 /\ (crossed => crossed')
  BY <1>1, <1>4
<1>8. QED
  BY <1>1, <1>3, <1>4, <1>6, <1>7, QuietPays

(* Taking a reply                                                            *)

LEMMA TellsOwn ==
  ASSUME TypeOK, InSession, NEW c \in Client, NEW n \in Nat, Tells(c, n)
  PROVE  /\ \A d \in Client : \A i \in 1 .. Len(out[d]) : i \in 1 .. Len(out'[d]) /\ out'[d][i] = out[d][i]
         /\ \A p \in {cl[c].peer}, x \in rxq[c][1].from .. rxq[c][1].from + n - 1 : Told(p, x)'
<1> DEFINE p == cl[c].peer
           m == rxq[c][1]
           t == [i \in 1 .. n |-> <<p, m.from + i - 1>>]
<1>1. out \in [Client -> Seq(Peer \X Nat)] /\ out' = [out EXCEPT ![c] = out[c] \o t]
  BY DEF TypeOK, Tells
<1>2. p \in Peer /\ m \in Msg /\ m.from \in Nat
  BY SessionPeer, TakenQueue, MsgTypes DEF Tells
<1> HIDE DEF p, m
<1>3. t \in [1 .. n -> Peer \X Nat] /\ \A i \in 1 .. n : t[i] = <<p, m.from + i - 1>>
  BY <1>2
<1> HIDE DEF t
<1>4. t \in Seq(Peer \X Nat) /\ Len(t) = n
  BY <1>3, FunctionSeq
<1>5. out[c] \in Seq(Peer \X Nat)
  BY <1>1
<1>6. /\ Len(out[c] \o t) = Len(out[c]) + n /\ Len(out[c]) \in Nat
      /\ \A i \in 1 .. Len(out[c]) : (out[c] \o t)[i] = out[c][i]
      /\ \A i \in 1 .. n : (out[c] \o t)[Len(out[c]) + i] = t[i]
  <2> DEFINE o == out[c]
             S == Peer \X Nat
  <2>1. o \in Seq(S) /\ t \in Seq(S)
    BY <1>4, <1>5
  <2> HIDE DEF o, S
  <2>2. /\ Len(o \o t) = Len(o) + Len(t) /\ Len(o) \in Nat
        /\ \A i \in 1 .. Len(o) : (o \o t)[i] = o[i]
        /\ \A i \in 1 .. Len(t) : (o \o t)[Len(o) + i] = t[i]
    BY <2>1, ConcatSeq
  <2>3. QED
    BY <1>4, <2>2, Zenon DEF o
<1>7. out'[c] = out[c] \o t /\ \A d \in Client \ {c} : out'[d] = out[d]
  BY <1>1
<1>8. \A d \in Client : \A i \in 1 .. Len(out[d]) : i \in 1 .. Len(out'[d]) /\ out'[d][i] = out[d][i]
  <2>1. ASSUME NEW i \in 1 .. Len(out[c]) PROVE i \in 1 .. Len(out'[c]) /\ out'[c][i] = out[c][i]
    <3> DEFINE long == Len(out[c])
               sum == Len(out'[c])
    <3>1. sum = long + n /\ long \in Nat
      BY <1>6, <1>7
    <3>2. out'[c][i] = out[c][i]
      BY <1>6, <1>7
    <3> HIDE DEF sum
    <3>3. long <= sum /\ sum \in Nat
      BY <3>1
    <3>4. i \in 1 .. sum
      BY <3>1, <3>3
    <3>5. QED
      BY <3>2, <3>4 DEF sum
  <2>2. ASSUME NEW d \in Client \ {c}, NEW i \in 1 .. Len(out[d])
        PROVE  i \in 1 .. Len(out'[d]) /\ out'[d][i] = out[d][i]
    BY <1>7
  <2>3. QED
    BY <2>1, <2>2
<1>9. ASSUME NEW q, q = p, NEW x \in m.from .. m.from + n - 1 PROVE Told(q, x)'
  <2>1. PICK i \in 1 .. n : x = m.from + i - 1
    <3>1. x - m.from + 1 \in 1 .. n /\ x = m.from + (x - m.from + 1) - 1
      BY <1>2
    <3>2. QED
      BY <3>1
  <2>2. Len(out[c]) + i \in 1 .. Len(out'[c]) /\ out'[c][Len(out[c]) + i] = <<q, x>>
    BY <1>3, <1>6, <1>7, <1>9, <2>1
  <2>3. QED
    BY <2>2 DEF Told
<1>10. QED
  BY <1>8, <1>9 DEF p, m

(* What a step of Take leaves behind.                                        *)
LEMMA Taken ==
  ASSUME IInv, NEW c \in Client, Take(c)
  PROVE  /\ cl[c].at = "wait" /\ Connected(c) /\ rxq[c] # <<>> /\ rxq' = [rxq EXCEPT ![c] = Tail(@)]
         /\ UNCHANGED <<home, next, air, crossed>>
         /\ Len(rxq[c]) \in Nat /\ Len(rxq[c]) >= 1 /\ Len(rxq'[c]) = Len(rxq[c]) - 1
         /\ Queued[c] = Len(rxq[c]) /\ rxq[c][1] = Head(rxq[c]) /\ Head(rxq[c]) \in Msg
         /\ Wait(c) \in Nat /\ Wait(c) <= 1 /\ Wait(c)' \in Nat
         /\ \A d \in Client \ {c} : rxq'[d] = rxq[d]
         /\ \A i \in 2 .. Len(rxq[c]) : i - 1 \in 1 .. Len(rxq'[c]) /\ rxq'[c][i - 1] = rxq[c][i]
<1>1. /\ TypeOK /\ cl[c].at = "wait" /\ Connected(c) /\ rxq[c] # <<>> /\ rxq' = [rxq EXCEPT ![c] = Tail(@)]
      /\ UNCHANGED <<home, next, air, crossed>> /\ rxq \in [Client -> Seq(Msg)]
  BY Given DEF Take, Connected
<1>2. rxq[c] \in Seq(Msg)
  BY <1>1
<1>3. /\ Len(Tail(rxq[c])) = Len(rxq[c]) - 1 /\ Len(rxq[c]) > 0 /\ Len(rxq[c]) \in Nat
      /\ \A i \in 1 .. Len(rxq[c]) - 1 : Tail(rxq[c])[i] = rxq[c][i + 1]
      /\ Head(rxq[c]) = rxq[c][1] /\ Head(rxq[c]) \in Msg
  BY <1>1, <1>2, TailSeq
<1>4. rxq'[c] = Tail(rxq[c]) /\ \A d \in Client \ {c} : rxq'[d] = rxq[d]
  BY <1>1
<1>5. ASSUME NEW i \in 2 .. Len(rxq[c])
      PROVE  i - 1 \in 1 .. Len(rxq'[c]) /\ rxq'[c][i - 1] = rxq[c][i]
  <2>1. i - 1 \in 1 .. Len(rxq[c]) - 1 /\ (i - 1) + 1 = i
    BY <1>3
  <2>2. QED
    BY <1>3, <1>4, <2>1
<1>6. Queued[c] = Len(rxq[c]) /\ Wait(c) \in Nat /\ Wait(c) <= 1 /\ Wait(c)' \in Nat
  BY <1>1 DEF Queued, Wait
<1>7. QED
  BY <1>1, <1>3, <1>4, <1>5, <1>6

(* The queue's head comes to nothing and is paid for by who waited for it, or  *)
(* all its chunks are told; the rest is dropped with the session or stays.    *)
LEMMA TakenPays ==
  ASSUME IInv, IInv', Batches, Budget, NEW c \in Client, Take(c), Stays,
         \A d \in Client \ {c} : cl'[d] = cl[d],
         \A d \in Client : \A i \in 1 .. Len(out[d]) : i \in 1 .. Len(out'[d]) /\ out'[d][i] = out[d][i],
         \/ excuse' = excuse + 1
         \/ excuse' = excuse /\ \A p \in {cl[c].peer}, x \in In(rxq[c][1]) : Told(p, x)'
  PROVE  Budget'
<1>1. /\ cl[c].at = "wait" /\ Connected(c) /\ UNCHANGED <<home, next, air, crossed>>
      /\ Len(rxq[c]) \in Nat /\ Len(rxq[c]) >= 1 /\ Len(rxq'[c]) = Len(rxq[c]) - 1
      /\ Queued[c] = Len(rxq[c]) /\ Wait(c) \in Nat /\ Wait(c) <= 1 /\ Wait(c)' \in Nat
      /\ \A d \in Client \ {c} : rxq'[d] = rxq[d]
      /\ \A i \in 2 .. Len(rxq[c]) : i - 1 \in 1 .. Len(rxq'[c]) /\ rxq'[c][i - 1] = rxq[c][i]
      /\ excuse \in Nat
  BY Taken, Given
<1>2. Own(c)
  BY <1>1 DEF Own
<1> DEFINE lo == IF excuse' = excuse + 1 THEN 1 ELSE 2
           hi == IF Connected(c)' THEN 1 ELSE Len(rxq[c])
<1>3. lo \in Nat /\ hi \in Nat /\ lo <= hi + 1 /\ hi <= Len(rxq[c]) /\ lo >= 1
  BY <1>1
<1>4. lo = 2 => \A p \in {cl[c].peer}, x \in In(rxq[c][1]) : Told(p, x)'
  <2>1. CASE excuse' = excuse + 1
    BY <2>1
  <2>2. CASE excuse' # excuse + 1
    BY <2>2
  <2>3. QED
    BY <2>1, <2>2
<1>5. lo = 1 \/ lo = 2
  OBVIOUS
<1>6. Connected(c)' => hi = 1 /\ cl'[c].peer = cl[c].peer
  BY DEF Stays
<1>7. ~Connected(c)' => hi = Len(rxq[c])
  OBVIOUS
<1>8. ClientPays(c, hi - lo + 1, 0)
  <2>1. Queued'[c] = IF Connected(c)' THEN Len(rxq'[c]) ELSE 0
    BY DEF Queued
  <2>2. hi + Queued'[c] = Len(rxq[c]) /\ Queued'[c] \in Nat
    BY <1>1, <1>6, <1>7, <2>1
  <2>3. (lo = 1 /\ excuse' = excuse + 1) \/ (lo = 2 /\ excuse' = excuse)
    OBVIOUS
  <2> HIDE DEF lo, hi
  <2>4. (hi - lo + 1) + 0 + Queued'[c] + excuse + Wait(c) <= Queued[c] + excuse' + Wait(c)'
    <3> DEFINE w == Wait(c)
               v == Wait(c)'
               l == Len(rxq[c])
               r == Queued'[c]
    <3>1. /\ w \in Nat /\ v \in Nat /\ w <= 1 /\ l \in Nat /\ r \in Nat /\ hi \in Nat /\ excuse \in Nat
          /\ hi + r = l /\ Queued[c] = l
      BY <1>1, <1>3, <2>2
    <3> HIDE DEF w, v, l, r
    <3>2. (lo = 1 /\ excuse' = excuse + 1) => (hi - lo + 1) + 0 + r + excuse + w <= l + excuse' + v
      BY <3>1
    <3>3. (lo = 2 /\ excuse' = excuse) => (hi - lo + 1) + 0 + r + excuse + w <= l + excuse' + v
      BY <3>1
    <3>4. (hi - lo + 1) + 0 + r + excuse + w <= l + excuse' + v
      BY <2>3, <3>2, <3>3
    <3>5. QED
      BY <3>1, <3>4 DEF w, v, r
  <2>5. QED
    BY <2>4 DEF ClientPays
<1> HIDE DEF lo, hi
<1>9. Drops(c, lo, hi)
  <2>1. \A i \in lo .. hi : i \in 1 .. Len(rxq[c])
    BY <1>1, <1>3
  <2>2. ASSUME NEW i \in 1 .. Len(rxq[c]), i \notin lo .. hi
        PROVE  \/ \A p \in {cl[c].peer}, x \in In(rxq[c][i]) : Told(p, x)'
               \/ /\ Connected(c)' /\ cl'[c].peer = cl[c].peer
                  /\ \E j \in 1 .. Len(rxq'[c]) : rxq'[c][j] = rxq[c][i]
    <3>1. CASE i = 1
      <4>1. lo = 2
        BY <1>1, <1>3, <1>5, <1>6, <1>7, <2>2, <3>1
      <4>2. QED
        BY <1>4, <3>1, <4>1, Zenon
    <3>2. CASE i # 1
      <4>1. i \in 2 .. Len(rxq[c]) /\ Connected(c)'
        BY <1>1, <1>3, <1>5, <1>7, <2>2, <3>2
      <4>2. QED
        BY <1>1, <1>6, <4>1
    <3>3. QED
      BY <3>1, <3>2
  <2>3. QED
    BY <2>1, <2>2, Zenon DEF Drops
<1>10. crossed => crossed'
  BY <1>1
<1>11. QED
  BY <1>1, <1>2, <1>3, <1>8, <1>9, <1>10, QuietPays

LEMMA DiscardPays ==
  ASSUME IInv, IInv', Batches, Budget, NEW c \in Client, Take(c), Discard(c),
         Head(rxq[c]).op # "eof", Head(rxq[c]).tag # cl[c].tag
  PROVE  Budget'
<1>1. TypeOK /\ InSession /\ cl \in [Client -> ClientState] /\ cl[c] \in ClientState /\ excuse \in Nat
  BY Given, ClientTypes
<1>2. /\ cl[c].at = "wait" /\ Connected(c) /\ UNCHANGED <<home, out, next, air, crossed>>
      /\ Len(rxq[c]) \in Nat /\ Len(rxq[c]) >= 1 /\ Len(rxq'[c]) = Len(rxq[c]) - 1
      /\ Queued[c] = Len(rxq[c]) /\ Wait(c) \in Nat /\ Wait(c) <= 1 /\ Wait(c)' \in Nat
      /\ rxq[c][1] = Head(rxq[c])
      /\ \A d \in Client \ {c} : rxq'[d] = rxq[d]
      /\ \A i \in 2 .. Len(rxq[c]) : i - 1 \in 1 .. Len(rxq'[c]) /\ rxq'[c][i - 1] = rxq[c][i]
  BY Taken DEF Discard
<1>3. \A i \in 1 .. Len(rxq[c]) : i <= 1 \/ \E j \in 1 .. Len(rxq'[c]) : rxq'[c][j] = rxq[c][i]
  <2>1. \A i \in 1 .. Len(rxq[c]) : i <= 1 \/ i \in 2 .. Len(rxq[c])
    BY <1>2
  <2>2. QED
    BY <1>2, <2>1
<1>4. CASE cl[c].reads + 1 = Reads
  <2>1. cl' = [cl EXCEPT ![c] = Again(c)] /\ excuse' = excuse + 1
    BY <1>4 DEF Discard
  <2>2. 1 \in Nat /\ 1 <= Len(rxq[c]) /\ Len(rxq'[c]) = Len(rxq[c]) - 1
    BY <1>2
  <2>3. /\ \A d \in Client \ {c} : cl'[d] = cl[d]
        /\ Wait(c)' = 0
        /\ \E hi \in Nat : /\ 1 <= hi + 1 /\ Drops(c, 1, hi)
                           /\ hi - 1 + 1 + Queued'[c] = Queued[c]
    BY <1>1, <1>2, <1>3, <2>1, <2>2, GivesUp
  <2>4. PICK hi \in Nat : 1 <= hi + 1 /\ Drops(c, 1, hi) /\ hi - 1 + 1 + Queued'[c] = Queued[c]
    BY <2>3
  <2>5. Own(c)
    BY <1>2, <2>3, OwnQuiet
  <2>6. ClientPays(c, hi - 1 + 1, 0)
    <3>1. Queued'[c] \in Nat
      BY FinitePrimed DEF AllFinite, IInv
    <3>2. /\ excuse \in Nat /\ excuse' = excuse + 1 /\ Wait(c) <= 1 /\ Wait(c) \in Nat /\ Wait(c)' = 0
          /\ hi \in Nat /\ Queued[c] = hi - 1 + 1 + Queued'[c]
      BY <1>1, <1>2, <2>1, <2>3, <2>4
    <3>3. QED
      BY <3>1, <3>2 DEF ClientPays
  <2>7. crossed => crossed'
    BY <1>2
  <2>8. QED
    BY <1>2, <2>2, <2>4, <2>5, <2>6, <2>7, QuietPays
<1>5. CASE cl[c].reads + 1 # Reads
  <2> DEFINE n == cl[c].reads + 1
  <2>1. cl' = [cl EXCEPT ![c] = [cl[c] EXCEPT !.reads = n]] /\ excuse' = excuse
    BY <1>5, Zenon DEF Discard
  <2> HIDE DEF n
  <2>2. /\ cl'[c].at = "wait" /\ cl'[c].peer = cl[c].peer /\ cl'[c].tag = cl[c].tag
        /\ \A d \in Client \ {c} : cl'[d] = cl[d]
    BY <1>1, <1>2, <2>1 DEF ClientState
  <2>3. Own(c)
    BY <1>2, <2>2, OwnQuiet
  <2>4. Drops(c, 1, 1)
    <3>1. Connected(c)' /\ cl'[c].peer = cl[c].peer
      BY <2>2 DEF Connected
    <3>2. \A i \in 1 .. 1 : i \in 1 .. Len(rxq[c])
      BY <1>2
    <3>3. \A i \in 1 .. Len(rxq[c]) : i \in 1 .. 1 \/ \E j \in 1 .. Len(rxq'[c]) : rxq'[c][j] = rxq[c][i]
      <4>1. \A i \in 1 .. Len(rxq[c]) : i <= 1 => i \in 1 .. 1
        BY <1>2
      <4>2. QED
        BY <1>3, <4>1
    <3>4. QED
      BY <3>1, <3>2, <3>3, Zenon DEF Drops
  <2>5. Awaited(c) => Awaited(c)'
    <3>1. SUFFICES ASSUME Awaited(c) PROVE Awaited(c)'
      OBVIOUS
    <3>2. CASE \E i \in 1 .. Len(rxq[c]) : rxq[c][i].op = "eof" \/ rxq[c][i].tag = cl[c].tag
      <4>1. PICK i \in 1 .. Len(rxq[c]) : rxq[c][i].op = "eof" \/ rxq[c][i].tag = cl[c].tag
        BY <3>2
      <4>2. i # 1
        BY <1>2, <4>1
      <4>3. i - 1 \in 1 .. Len(rxq'[c]) /\ rxq'[c][i - 1] = rxq[c][i]
        <5>1. i \in 2 .. Len(rxq[c])
          BY <1>2, <4>2
        <5>2. QED
          BY <1>2, <5>1
      <4>4. QED
        BY <2>2, <4>1, <4>3 DEF Awaited
    <3>3. CASE \E i \in 1 .. Len(air[cl[c].peer]) :
                 air[cl[c].peer][i].to = home[c] /\ air[cl[c].peer][i].msg.tag = cl[c].tag
      BY <1>2, <2>2, <3>3 DEF Awaited
    <3>4. QED
      BY <3>1, <3>2, <3>3 DEF Awaited
  <2>6. Wait(c) <= Wait(c)'
    BY <2>5 DEF Wait
  <2>7. Queued'[c] = Len(rxq[c]) - 1
    BY <1>2, <2>2 DEF Queued, Connected
  <2>8. ClientPays(c, 1 - 1 + 1, 0)
    BY <1>1, <1>2, <2>1, <2>6, <2>7 DEF ClientPays
  <2>9. 1 \in Nat /\ 1 <= 1 + 1 /\ (crossed => crossed')
    BY <1>2
  <2>10. QED
    BY <1>2, <2>3, <2>4, <2>8, <2>9, QuietPays
<1>6. QED
  BY <1>4, <1>5

LEMMA TakePays ==
  ASSUME IInv, IInv', Batches, Budget, NEW c \in Client, Take(c)
  PROVE  Budget'
<1> DEFINE m == Head(rxq[c])
<1>1. TypeOK /\ InSession /\ cl \in [Client -> ClientState] /\ excuse \in Nat
  BY Given
<1>2. /\ Connected(c) /\ rxq[c] # <<>> /\ rxq' = [rxq EXCEPT ![c] = Tail(@)]
      /\ rxq[c][1] = m /\ m \in Msg
  BY Taken
<1>3. CASE m.op = "eof"
  <2>1. cl' = [cl EXCEPT ![c] = Done(c, cl[c].got)] /\ UNCHANGED <<out, excuse>>
    BY <1>3 DEF Take
  <2>2. Done(c, cl[c].got).at = "next"
    BY <1>1, <1>2, DoneType, ClientTypes DEF InSession
  <2>3. \A d \in Client \ {c} : cl'[d] = cl[d]
    BY <1>1, <2>1
  <2>4. cl'[c].at = "next"
    BY <1>1, <2>1, <2>2
  <2>5. Stays
    BY <2>3, <2>4 DEF Stays, Connected
  <2>6. In(rxq[c][1]) = {}
    BY <1>2, <1>3 DEF In
  <2>7. \A d \in Client : \A i \in 1 .. Len(out[d]) : i \in 1 .. Len(out'[d]) /\ out'[d][i] = out[d][i]
    BY <2>1
  <2>8. excuse' = excuse /\ \A p \in {cl[c].peer}, x \in In(rxq[c][1]) : Told(p, x)'
    BY <2>1, <2>6
  <2>9. QED
    BY <2>3, <2>5, <2>7, <2>8, TakenPays
<1>4. CASE m.op # "eof" /\ m.tag = cl[c].tag
  <2>1. Accept(c, m)
    BY <1>4 DEF Take
  <2> HIDE DEF m
  <2>2. /\ Stays /\ \A d \in Client \ {c} : cl'[d] = cl[d]
        /\ \E n \in Nat : /\ n = 0 \/ (Brings(m) /\ n <= m.n)
                          /\ excuse' = IF m.op = "read" /\ m.n > n THEN excuse + 1 ELSE excuse
                          /\ out' = [out EXCEPT ![c] = @ \o [i \in 1 .. n |-> <<cl[c].peer, m.from + i - 1>>]]
    BY <1>1, <1>2, <2>1, AcceptMoves
  <2>3. PICK n \in Nat : /\ Tells(c, n)
                         /\ n = 0 \/ n <= m.n
                         /\ excuse' = IF m.op = "read" /\ m.n > n THEN excuse + 1 ELSE excuse
    BY <1>2, <2>2, Zenon DEF Tells
  <2>4. /\ \A d \in Client : \A i \in 1 .. Len(out[d]) : i \in 1 .. Len(out'[d]) /\ out'[d][i] = out[d][i]
        /\ \A p \in {cl[c].peer}, x \in rxq[c][1].from .. rxq[c][1].from + n - 1 : Told(p, x)'
    BY <1>1, <2>3, TellsOwn
  <2>5. CASE m.op = "read" /\ m.n > n
    <3>1. excuse' = excuse + 1
      BY <2>3, <2>5
    <3>2. QED
      BY <2>2, <2>4, <3>1, TakenPays
  <2>6. CASE ~(m.op = "read" /\ m.n > n)
    <3>1. excuse' = excuse
      BY <2>3, <2>6
    <3>2. \A x \in In(rxq[c][1]) : x \in rxq[c][1].from .. rxq[c][1].from + n - 1
      BY <1>2, <2>3, <2>6, MsgTypes DEF In
    <3>3. \A p \in {cl[c].peer}, x \in In(rxq[c][1]) : Told(p, x)'
      BY <2>4, <3>2
    <3>4. QED
      BY <2>2, <2>4, <3>1, <3>3, TakenPays
  <2>7. QED
    BY <2>5, <2>6
<1>5. CASE m.op # "eof" /\ m.tag # cl[c].tag
  <2>1. Discard(c)
    BY <1>5 DEF Take
  <2>2. QED
    BY <1>5, <2>1, DiscardPays
<1>6. QED
  BY <1>3, <1>4, <1>5

-----------------------------------------------------------------------------
(* The steps of the mesh                                                     *)

LEMMA AirLeaves ==
  ASSUME TypeOK, TypeOK', NEW p \in Peer, LeavesAir(p)
  PROVE  /\ Cardinality(InAir) = Cardinality(InAir') + 1
         /\ \A q \in Peer : \A i \in 1 .. Len(air[q]) :
              (q = p /\ i = 1) \/ \E j \in 1 .. Len(air'[q]) : air'[q][j] = air[q][i]
<1>1. air \in [Peer -> Seq(Datagram)] /\ air' = [air EXCEPT ![p] = Tail(air[p])] /\ air[p] # <<>>
  BY DEF TypeOK, Datagram, LeavesAir
<1>2. air[p] \in Seq(Datagram)
  BY <1>1
<1>3. /\ Len(Tail(air[p])) = Len(air[p]) - 1 /\ Len(air[p]) > 0 /\ Len(air[p]) \in Nat
      /\ \A i \in 1 .. Len(air[p]) - 1 : Tail(air[p])[i] = air[p][i + 1]
  BY <1>1, <1>2, TailSeq
<1>4. air'[p] = Tail(air[p]) /\ \A q \in Peer \ {p} : air'[q] = air[q]
  BY <1>1
<1>5. Cardinality(InAir) = Cardinality(InAir') + 1
  <2>1. \A q \in Peer \ {p} : Flying'[q] = Flying[q]
    BY <1>4 DEF Flying
  <2>2. Cardinality(InAir') + Flying[p] = Cardinality(InAir) + Flying'[p]
    BY <2>1, OneAir
  <2>3. Flying[p] = Len(air[p]) /\ Flying'[p] = Len(air[p]) - 1
    BY <1>3, <1>4 DEF Flying
  <2>4. Cardinality(InAir') \in Nat /\ Cardinality(InAir) \in Nat
    BY Finite, FinitePrimed DEF AllFinite
  <2>5. QED
    BY <1>3, <2>2, <2>3, <2>4
<1>6. ASSUME NEW q \in Peer, NEW i \in 1 .. Len(air[q]), ~(q = p /\ i = 1)
      PROVE  \E j \in 1 .. Len(air'[q]) : air'[q][j] = air[q][i]
  <2>1. CASE q # p
    BY <1>4, <2>1
  <2>2. CASE q = p
    <3>1. i - 1 \in 1 .. Len(air[p]) - 1 /\ (i - 1) + 1 = i
      BY <1>3, <1>6, <2>2
    <3>2. air'[q][i - 1] = air[q][i] /\ i - 1 \in 1 .. Len(air'[q])
      BY <1>3, <1>4, <2>2, <3>1
    <3>3. QED
      BY <3>2
  <2>3. QED
    BY <2>1, <2>2
<1>7. QED
  BY <1>5, <1>6

(* Only the reply that leaves, and who waits for it, are concerned.           *)
LEMMA LeavesRest ==
  ASSUME TypeOK, TypeOK', InSession, NEW p \in Peer, LeavesAir(p), UNCHANGED <<home, cl>>,
         \A c \in Client : \A i \in 1 .. Len(rxq[c]) : i \in 1 .. Len(rxq'[c]) /\ rxq'[c][i] = rxq[c][i]
  PROVE  /\ \A q \in Peer, x \in 0 .. Chunks :
              Carries(q, x) => Carries(q, x)' \/ (q = p /\ x \in In(air[p][1].msg))
         /\ \A d \in Client :
              Awaited(d) => Awaited(d)' \/ (cl[d].at = "wait" /\ Hears(d, p) /\ air[p][1].msg.tag = cl[d].tag)
<1>1. \A q \in Peer : \A i \in 1 .. Len(air[q]) :
        (q = p /\ i = 1) \/ \E j \in 1 .. Len(air'[q]) : air'[q][j] = air[q][i]
  BY AirLeaves
<1>2. ASSUME NEW q \in Peer, NEW x \in 0 .. Chunks, Carries(q, x)
      PROVE  Carries(q, x)' \/ (q = p /\ x \in In(air[p][1].msg))
  <2>1. CASE \E c \in Client : /\ Connected(c) /\ cl[c].peer = q
                               /\ \E i \in 1 .. Len(rxq[c]) : x \in In(rxq[c][i])
    <3>1. PICK c \in Client : /\ Connected(c) /\ cl[c].peer = q
                              /\ \E i \in 1 .. Len(rxq[c]) : x \in In(rxq[c][i])
      BY <2>1
    <3>2. PICK i \in 1 .. Len(rxq[c]) : x \in In(rxq[c][i])
      BY <3>1
    <3>3. x \in In(rxq'[c][i]) /\ Connected(c)' /\ cl'[c].peer = q
      BY <3>1, <3>2 DEF Connected
    <3>4. Carries(q, x)'
      BY <3>2, <3>3 DEF Carries, In
    <3>5. QED
      BY <3>4
  <2>2. CASE \E i \in 1 .. Len(air[q]) : x \in In(air[q][i].msg)
    <3>1. PICK i \in 1 .. Len(air[q]) : x \in In(air[q][i].msg)
      BY <2>2
    <3>2. CASE q = p /\ i = 1
      BY <3>1, <3>2
    <3>3. CASE ~(q = p /\ i = 1)
      <4>1. PICK j \in 1 .. Len(air'[q]) : air'[q][j] = air[q][i]
        BY <1>1, <3>3
      <4>2. x \in In(air'[q][j].msg)
        BY <3>1, <4>1
      <4>3. Carries(q, x)'
        BY <4>2 DEF Carries, In
      <4>4. QED
        BY <4>3
    <3>4. QED
      BY <3>2, <3>3
  <2>3. QED
    BY <1>2, <2>1, <2>2 DEF Carries
<1>3. ASSUME NEW d \in Client, Awaited(d)
      PROVE  Awaited(d)' \/ (cl[d].at = "wait" /\ Hears(d, p) /\ air[p][1].msg.tag = cl[d].tag)
  <2>1. cl[d].at = "wait" /\ Connected(d) /\ cl[d].peer \in Peer /\ cl'[d] = cl[d] /\ home' = home
    BY <1>3, SessionPeer DEF Awaited, Connected
  <2>2. CASE \E i \in 1 .. Len(rxq[d]) : rxq[d][i].op = "eof" \/ rxq[d][i].tag = cl[d].tag
    <3>1. PICK i \in 1 .. Len(rxq[d]) : rxq[d][i].op = "eof" \/ rxq[d][i].tag = cl[d].tag
      BY <2>2
    <3>2. i \in 1 .. Len(rxq'[d]) /\ rxq'[d][i] = rxq[d][i]
      OBVIOUS
    <3>3. QED
      BY <2>1, <3>1, <3>2 DEF Awaited
  <2>3. CASE \E i \in 1 .. Len(air[cl[d].peer]) :
               air[cl[d].peer][i].to = home[d] /\ air[cl[d].peer][i].msg.tag = cl[d].tag
    <3>1. PICK i \in 1 .. Len(air[cl[d].peer]) :
                 air[cl[d].peer][i].to = home[d] /\ air[cl[d].peer][i].msg.tag = cl[d].tag
      BY <2>3
    <3>2. CASE cl[d].peer = p /\ i = 1
      BY <2>1, <3>1, <3>2 DEF Hears
    <3>3. CASE ~(cl[d].peer = p /\ i = 1)
      <4>1. PICK j \in 1 .. Len(air'[cl[d].peer]) : air'[cl[d].peer][j] = air[cl[d].peer][i]
        BY <1>1, <2>1, <3>3
      <4>2. QED
        BY <2>1, <3>1, <4>1 DEF Awaited
    <3>4. QED
      BY <3>2, <3>3
  <2>4. QED
    BY <1>3, <2>2, <2>3 DEF Awaited
<1>4. QED
  BY <1>2, <1>3

(* Clients of one gateway that are connected to one peer are one.            *)
LEMMA OneHears ==
  ASSUME IInv, ~crossed, NEW p \in Peer, NEW c \in Client, NEW d \in Client, Hears(c, p), Hears(d, p)
  PROVE  c = d
BY DEF IInv, QueuesApart, Hears

LEMMA HeadLost ==
  ASSUME TypeOK, Batches, NEW p \in Peer, LeavesAir(p)
  PROVE  \A i \in 1 .. 1 : <<air[p][1].msg>>[i] = air[p][1].msg
                           /\ air[p][1].msg \in Msg /\ AtMostBatch(air[p][1].msg)
<1>1. 1 \in 1 .. Len(air[p])
  BY LeftAir
<1>2. air[p][1].msg \in Msg /\ AtMostBatch(air[p][1].msg)
  BY <1>1, QueueTypes DEF Batches
<1>3. \A i \in 1 .. 1 : i = 1
  OBVIOUS
<1>4. QED
  BY <1>2, <1>3

(* The reply that leaves is the only one whose chunks are lost.              *)
LEMMA LeavesLost ==
  ASSUME TypeOK, TypeOK', Batches, NEW p \in Peer, LeavesAir(p), UNCHANGED <<out, next>>,
         \A q \in Peer, x \in 0 .. Chunks :
           Carries(q, x) => Carries(q, x)' \/ (q = p /\ x \in In(air[p][1].msg))
  PROVE  Cardinality(Lost') <= Cardinality(Lost) + Batch * 1
<1> DEFINE s == <<air[p][1].msg>>
<1>1. \A i \in 1 .. 1 : s[i] \in Msg /\ AtMostBatch(s[i]) /\ s[i] = air[p][1].msg
  BY HeadLost
<1>2. 1 \in 1 .. 1 /\ 1 \in Nat /\ 1 <= 1 + 1 /\ 1 - 1 + 1 = 1
  OBVIOUS
<1>3. \A q \in Peer, x \in 0 .. Chunks :
        /\ Told(q, x) => Told(q, x)'
        /\ x < next'[q] => x < next[q]
  BY DEF Told
<1> HIDE DEF s
<1>4. Loses(p, s, 1, 1)
  <2>1. \A x : x \in In(air[p][1].msg) => \E i \in 1 .. 1 : x \in In(s[i])
    BY <1>1, <1>2
  <2>2. QED
    BY <1>1, <1>3, <2>1 DEF Loses
<1>5. Cardinality(Lost') <= Cardinality(Lost) + Batch * (1 - 1 + 1)
  BY <1>2, <1>4, LostGrows
<1>6. QED
  BY <1>2, <1>5

LEMMA LosePays ==
  ASSUME IInv, IInv', Batches, Budget, NEW p \in Peer, Lose(p)
  PROVE  Budget'
<1>1. /\ TypeOK /\ TypeOK' /\ InSession /\ LeavesAir(p) /\ excuse \in Nat /\ excuse' = excuse + 1
      /\ UNCHANGED <<home, cl, rxq, out, next, crossed>>
  BY Given DEF IInv, Lose, LeavesAir
<1>2. SUFFICES ASSUME ~crossed PROVE Budget'
  BY <1>1 DEF Budget
<1>3. \A c \in Client : \A i \in 1 .. Len(rxq[c]) : i \in 1 .. Len(rxq'[c]) /\ rxq'[c][i] = rxq[c][i]
  BY <1>1
<1>4. /\ \A q \in Peer, x \in 0 .. Chunks :
           Carries(q, x) => Carries(q, x)' \/ (q = p /\ x \in In(air[p][1].msg))
      /\ \A d \in Client : Awaited(d) => Awaited(d)' \/ Hears(d, p)
  BY <1>1, <1>3, LeavesRest
<1>5. Cardinality(Lost') <= Cardinality(Lost) + Batch * 1
  BY <1>1, <1>4, LeavesLost
<1>6. InQueues' = InQueues
  BY <1>1 DEF InQueues, Connected
<1>7. Cardinality(Awaiting) <= Cardinality(Awaiting') + 1
  <2>1. CASE \E c \in Client : Hears(c, p)
    <3>1. PICK c \in Client : Hears(c, p)
      BY <2>1
    <3>2. \A d \in Client \ {c} : Awaited(d) => Awaited(d)'
      BY <1>2, <1>4, <3>1, OneHears
    <3>3. Cardinality(Awaiting) + Wait(c)' <= Cardinality(Awaiting') + Wait(c)
      BY <1>1, <3>2, WaitsChange
    <3>4. Wait(c) \in Nat /\ Wait(c)' \in Nat /\ Wait(c) <= 1
      BY DEF Wait
    <3>5. Cardinality(Awaiting) \in Nat /\ Cardinality(Awaiting') \in Nat
      BY <1>1, Finite, FinitePrimed DEF AllFinite
    <3>6. QED
      BY <3>3, <3>4, <3>5
  <2>2. CASE ~\E c \in Client : Hears(c, p)
    <3>1. Awaiting \subseteq Awaiting'
      BY <1>4, <2>2 DEF Awaiting
    <3>2. IsFiniteSet(Awaiting') /\ Cardinality(Awaiting') \in Nat
      BY <1>1, FinitePrimed DEF AllFinite
    <3>3. Cardinality(Awaiting) \in Nat /\ Cardinality(Awaiting) <= Cardinality(Awaiting')
      BY <3>1, <3>2, Least1
    <3>4. QED
      BY <3>2, <3>3
  <2>3. QED
    BY <2>1, <2>2
<1>8. Cardinality(InAir) = Cardinality(InAir') + 1
  BY <1>1, AirLeaves
<1>9. Cardinality(InQueues') + Cardinality(InAir') + 1 + excuse + Cardinality(Awaiting)
        <= Cardinality(InQueues) + Cardinality(InAir) + excuse' + Cardinality(Awaiting')
  <2>1. /\ Cardinality(InQueues) \in Nat /\ Cardinality(InAir') \in Nat
        /\ Cardinality(Awaiting) \in Nat /\ Cardinality(Awaiting') \in Nat
    BY <1>1, Finite, FinitePrimed DEF AllFinite
  <2>2. Cardinality(InQueues') = Cardinality(InQueues)
    BY <1>6
  <2>3. QED
    BY <1>1, <1>7, <1>8, <2>1, <2>2
<1>10. 1 \in Nat /\ (crossed => crossed')
  BY <1>1
<1>11. QED
  BY <1>5, <1>9, <1>10, Balanced

LEMMA ArrivePays ==
  ASSUME IInv, IInv', Batches, Budget, NEW p \in Peer, Arrive(p)
  PROVE  Budget'
<1> DEFINE m == air[p][1].msg
<1>1. /\ TypeOK /\ TypeOK' /\ InSession /\ excuse \in Nat /\ excuse' = excuse
      /\ LeavesAir(p) /\ UNCHANGED <<home, cl, out, next, crossed>>
      /\ rxq \in [Client -> Seq(Msg)]
      /\ rxq' = [c \in Client |-> IF Hears(c, p) THEN Append(rxq[c], m) ELSE rxq[c]]
  BY Given, HeardQueue DEF IInv, Arrive, history
<1>2. SUFFICES ASSUME ~crossed PROVE Budget'
  BY <1>1 DEF Budget
<1>3. m \in Msg
  BY <1>1, HeadLost
<1> HIDE DEF m
<1>4. ASSUME NEW c \in Client, Hears(c, p)
      PROVE  /\ Len(rxq'[c]) = Len(rxq[c]) + 1 /\ Len(rxq[c]) \in Nat
             /\ \A i \in 1 .. Len(rxq[c]) : i \in 1 .. Len(rxq'[c]) /\ rxq'[c][i] = rxq[c][i]
             /\ \E i \in 1 .. Len(rxq'[c]) : rxq'[c][i] = m
  <2>1. rxq'[c] = Append(rxq[c], m) /\ rxq[c] \in Seq(Msg)
    BY <1>1, <1>4
  <2>2. /\ Len(Append(rxq[c], m)) = Len(rxq[c]) + 1 /\ Len(rxq[c]) \in Nat
        /\ \A i \in 1 .. Len(rxq[c]) : Append(rxq[c], m)[i] = rxq[c][i]
        /\ Append(rxq[c], m)[Len(rxq[c]) + 1] = m
    BY <1>3, <2>1, AppendedSeq
  <2>3. \A i \in 1 .. Len(rxq[c]) : i \in 1 .. Len(rxq'[c]) /\ rxq'[c][i] = rxq[c][i]
    BY <2>1, <2>2
  <2>4. Len(rxq[c]) + 1 \in 1 .. Len(rxq'[c]) /\ rxq'[c][Len(rxq[c]) + 1] = m
    BY <2>1, <2>2
  <2>5. QED
    BY <2>1, <2>2, <2>3, <2>4
<1>5. \A c \in Client : ~Hears(c, p) => rxq'[c] = rxq[c]
  BY <1>1
<1>6. \A c \in Client : \A i \in 1 .. Len(rxq[c]) : i \in 1 .. Len(rxq'[c]) /\ rxq'[c][i] = rxq[c][i]
  BY <1>4, <1>5
<1>7. /\ \A q \in Peer, x \in 0 .. Chunks :
           Carries(q, x) => Carries(q, x)' \/ (q = p /\ x \in In(m))
      /\ \A d \in Client :
           Awaited(d) => Awaited(d)' \/ (cl[d].at = "wait" /\ Hears(d, p) /\ m.tag = cl[d].tag)
  BY <1>1, <1>6, LeavesRest DEF m
<1>8. \A d \in Client : Awaited(d) => Awaited(d)'
  <2>1. ASSUME NEW d \in Client, cl[d].at = "wait", Hears(d, p), m.tag = cl[d].tag PROVE Awaited(d)'
    <3>1. PICK i \in 1 .. Len(rxq'[d]) : rxq'[d][i] = m
      BY <1>4, <2>1
    <3>2. cl' = cl
      BY <1>1
    <3>3. QED
      BY <2>1, <3>1, <3>2 DEF Awaited
  <2>2. QED
    BY <1>7, <2>1
<1>9. Cardinality(Awaiting) <= Cardinality(Awaiting')
  <2>1. Awaiting \subseteq Awaiting'
    BY <1>8 DEF Awaiting
  <2>2. IsFiniteSet(Awaiting')
    BY <1>1, FinitePrimed DEF AllFinite
  <2>3. QED
    BY <2>1, <2>2, Least1
<1>10. Cardinality(InAir) = Cardinality(InAir') + 1
  BY <1>1, AirLeaves
<1>11. /\ Cardinality(InQueues) \in Nat /\ Cardinality(InAir) \in Nat /\ Cardinality(InAir') \in Nat
       /\ Cardinality(InQueues') \in Nat /\ Cardinality(Awaiting) \in Nat /\ Cardinality(Awaiting') \in Nat
       /\ Cardinality(Lost) \in Nat
  BY <1>1, Finite, FinitePrimed DEF AllFinite
<1>12. CASE \E c \in Client : Hears(c, p)
  <2>1. PICK c \in Client : Hears(c, p)
    BY <1>12
  <2>2. \A d \in Client \ {c} : ~Hears(d, p)
    BY <1>2, <2>1, OneHears
  <2>3. Cardinality(Lost') <= Cardinality(Lost) + Batch * 0
    <3>1. PICK i \in 1 .. Len(rxq'[c]) : rxq'[c][i] = m
      BY <1>4, <2>1
    <3>2. ASSUME NEW x \in 0 .. Chunks, x \in In(m) PROVE Carries(p, x)'
      <4>1. x \in In(rxq'[c][i])
        BY <3>1, <3>2
      <4>2. Connected(c)' /\ cl'[c].peer = p
        BY <1>1, <2>1 DEF Hears, Connected
      <4>3. QED
        BY <3>1, <4>1, <4>2 DEF Carries, In
    <3>3. \A q \in Peer, x \in 0 .. Chunks : Carries(q, x) => Carries(q, x)'
      BY <1>7, <3>2
    <3>4. \A q \in Peer, x \in 0 .. Chunks : Told(q, x) => Told(q, x)'
      BY <1>1 DEF Told
    <3>5. Lost' \subseteq Lost
      BY <1>1, <3>3, <3>4 DEF Lost
    <3>6. Cardinality(Lost') \in Nat /\ Cardinality(Lost') <= Cardinality(Lost)
      BY <1>1, <3>5, Finite, Least1 DEF AllFinite
    <3>7. Batch * 0 = 0
      BY Bounds
    <3>8. QED
      BY <1>11, <3>6, <3>7
  <2>4. Cardinality(InQueues') = Cardinality(InQueues) + 1
    <3>1. \A d \in Client \ {c} : Queued'[d] = Queued[d]
      BY <1>1, <1>5, <2>2 DEF Queued, Connected
    <3>2. Cardinality(InQueues') + Queued[c] = Cardinality(InQueues) + Queued'[c]
      BY <1>1, <3>1, OneQueue
    <3>3. Queued[c] = Len(rxq[c]) /\ Queued'[c] = Len(rxq'[c])
      BY <1>1, <2>1 DEF Queued, Hears, Connected
    <3>4. Len(rxq'[c]) = Len(rxq[c]) + 1 /\ Len(rxq[c]) \in Nat
      BY <1>4, <2>1
    <3>5. QED
      BY <1>11, <3>2, <3>3, <3>4, SMTT(30)
  <2>5. Cardinality(InQueues') + Cardinality(InAir') + 0 + excuse + Cardinality(Awaiting)
          <= Cardinality(InQueues) + Cardinality(InAir) + excuse' + Cardinality(Awaiting')
    BY <1>1, <1>9, <1>10, <1>11, <2>4
  <2>6. 0 \in Nat /\ (crossed => crossed')
    BY <1>1
  <2>7. QED
    BY <2>3, <2>5, <2>6, Balanced
<1>13. CASE ~\E c \in Client : Hears(c, p)
  <2>1. Cardinality(Lost') <= Cardinality(Lost) + Batch * 1
    BY <1>1, <1>7, LeavesLost DEF m
  <2>2. Cardinality(InQueues') = Cardinality(InQueues)
    <3>1. InQueues' = InQueues
      <4>1. \A d \in Client : rxq'[d] = rxq[d] /\ cl'[d] = cl[d]
        BY <1>1, <1>5, <1>13
      <4>2. Queued' = Queued
        BY <4>1 DEF Queued, Connected
      <4>3. QED
        BY <1>1, <4>2, Finite, FinitePrimed DEF AllFinite
    <3>2. QED
      BY <3>1
  <2>3. Cardinality(InQueues') + Cardinality(InAir') + 1 + excuse + Cardinality(Awaiting)
          <= Cardinality(InQueues) + Cardinality(InAir) + excuse' + Cardinality(Awaiting')
    BY <1>1, <1>9, <1>10, <1>11, <2>2
  <2>4. 1 \in Nat /\ (crossed => crossed')
    BY <1>1
  <2>5. QED
    BY <2>1, <2>3, <2>4, Balanced
<1>14. QED
  BY <1>12, <1>13

-----------------------------------------------------------------------------
(* No reply has more than a batch                                            *)

LEMMA BatchesStay ==
  ASSUME TypeOK, Batches, UNCHANGED <<rxq, air>>
  PROVE  Batches'
BY DEF Batches, AtMostBatch

LEMMA AirBatches ==
  ASSUME TypeOK, Batches, NEW p \in Peer, NEW c \in Client, NEW g \in Datagram,
         Gives(p, g), Answers(p, c, g)
  PROVE  \A q \in Peer : \A i \in 1 .. Len(air'[q]) : AtMostBatch(air'[q][i].msg)
<1>1. \A q \in Peer : \A j \in 1 .. Len(air'[q]) :
        \/ j \in 1 .. Len(air[q]) /\ air'[q][j] = air[q][j]
        \/ q = p /\ j = Len(air[p]) + 1 /\ air'[q][j] = g
  BY GivenAir
<1>2. AtMostBatch(g.msg)
  BY DEF Answers
<1>3. QED
  BY <1>1, <1>2 DEF Batches

LEMMA BatchesNext ==
  ASSUME IInv, Batches, [Next]_vars
  PROVE  Batches'
<1>1. TypeOK /\ InSession
  BY Given
<1>2. ASSUME NEW c \in Client, NEW mode \in Modes, MeshRead(c, mode) PROVE Batches'
  BY <1>1, <1>2, BatchesStay DEF MeshRead
<1>3. ASSUME NEW c \in Client, MeshReturn(c) PROVE Batches'
  BY <1>1, <1>3, BatchesStay DEF MeshReturn
<1>4. ASSUME NEW c \in Client, NextPeer(c) PROVE Batches'
  <2>1. air' = air /\ (rxq' = rxq \/ rxq' = [rxq EXCEPT ![c] = <<>>])
    BY <1>4 DEF NextPeer
  <2>2. rxq \in [Client -> Seq(Msg)]
    BY Given
  <2>3. \A d \in Client : rxq'[d] = rxq[d] \/ 1 .. Len(rxq'[d]) = {}
    BY <2>1, <2>2
  <2>4. QED
    BY <2>1, <2>3 DEF Batches, AtMostBatch
<1>5. ASSUME NEW c \in Client, Send(c) PROVE Batches'
  <2>1. rxq' = rxq /\ (Serve(cl[c].peer, c) \/ air' = air)
    BY <1>5 DEF Send
  <2>2. CASE Serve(cl[c].peer, c)
    <3>1. cl[c].peer \in Peer
      BY <1>1, <1>5, SessionPeer DEF Send, Connected
    <3>2. PICK g \in Datagram : Gives(cl[c].peer, g) /\ Answers(cl[c].peer, c, g)
      BY <1>1, <2>2, <3>1, ServeGives
    <3>3. \A q \in Peer : \A i \in 1 .. Len(air'[q]) : AtMostBatch(air'[q][i].msg)
      BY <1>1, <3>1, <3>2, AirBatches
    <3>4. QED
      BY <2>1, <3>3 DEF Batches, AtMostBatch
  <2>3. CASE air' = air
    BY <1>1, <2>1, <2>3, BatchesStay
  <2>4. QED
    BY <2>1, <2>2, <2>3
<1>6. ASSUME NEW c \in Client, Timeout(c) PROVE Batches'
  BY <1>1, <1>6, BatchesStay DEF Timeout
<1>7. ASSUME NEW c \in Client, Take(c) PROVE Batches'
  <2>1. air' = air /\ rxq[c] # <<>> /\ rxq' = [rxq EXCEPT ![c] = Tail(@)]
    BY <1>7, Taken
  <2>2. \A d \in Client : \A j \in 1 .. Len(rxq'[d]) :
          Was(c, d, j) \in 1 .. Len(rxq[d]) /\ rxq'[d][j] = rxq[d][Was(c, d, j)]
    BY <1>1, <2>1, TakenQueue
  <2>3. QED
    BY <2>1, <2>2 DEF Batches, AtMostBatch
<1>8. ASSUME NEW c \in Client, Hangup(c) PROVE Batches'
  <2>1. air' = air /\ rxq' = [rxq EXCEPT ![c] = <<Eof>>] /\ rxq \in [Client -> Seq(Msg)]
    BY <1>8, Given DEF Hangup
  <2>2. \A i \in 1 .. Len(<<Eof>>) : <<Eof>>[i] = Eof
    OBVIOUS
  <2>3. \A d \in Client : rxq'[d] = rxq[d] \/ rxq'[d] = <<Eof>>
    BY <2>1
  <2>4. AtMostBatch(Eof)
    BY Bounds DEF AtMostBatch, Eof
  <2>5. QED
    BY <2>1, <2>2, <2>3, <2>4 DEF Batches, AtMostBatch
<1>9. ASSUME NEW p \in Peer, Arrive(p) PROVE Batches'
  <2>1. /\ LeavesAir(p)
        /\ \A c \in Client : \A i \in 1 .. Len(rxq'[c]) :
             \/ i \in 1 .. Len(rxq[c]) /\ rxq'[c][i] = rxq[c][i]
             \/ rxq'[c][i] = air[p][1].msg
    BY <1>1, <1>9, HeardQueue
  <2>2. /\ 1 \in 1 .. Len(air[p])
        /\ \A q \in Peer : \A j \in 1 .. Len(air'[q]) :
             Was(p, q, j) \in 1 .. Len(air[q]) /\ air'[q][j] = air[q][Was(p, q, j)]
    BY <1>1, <2>1, LeftAir
  <2>3. QED
    BY <2>1, <2>2 DEF Batches, AtMostBatch
<1>10. ASSUME NEW p \in Peer, Lose(p) PROVE Batches'
  <2>1. LeavesAir(p) /\ rxq' = rxq
    BY <1>10 DEF Lose, LeavesAir
  <2>2. \A q \in Peer : \A j \in 1 .. Len(air'[q]) :
          Was(p, q, j) \in 1 .. Len(air[q]) /\ air'[q][j] = air[q][Was(p, q, j)]
    BY <1>1, <2>1, LeftAir
  <2>3. QED
    BY <2>1, <2>2 DEF Batches, AtMostBatch
<1>11. CASE UNCHANGED vars
  BY <1>1, <1>11, BatchesStay DEF vars
<1>12. QED
  BY <1>2, <1>3, <1>4, <1>5, <1>6, <1>7, <1>8, <1>9, <1>10, <1>11 DEF Next, Progress

-----------------------------------------------------------------------------
(* Who waits, waits for a message of its own                                 *)

LEMMA Covered ==
  ASSUME IInv, ~crossed
  PROVE  Cardinality(Awaiting) <= Cardinality(InQueues) + Cardinality(InAir)
<1> DEFINE Hear(d, t) == Connected(d) /\ cl[d].peer = t[1] /\ home[d] = air[t[1]][t[2]].to
           f == [t \in InQueues |-> t[1]]
           g == [t \in InAir |-> CHOOSE d \in Client : Hear(d, t)]
           F == {f[t] : t \in InQueues}
           G == {g[t] : t \in InAir}
<1>1. TypeOK /\ InSession
  BY Given
<1>2. /\ IsFiniteSet(InQueues) /\ IsFiniteSet(InAir)
      /\ Cardinality(InQueues) \in Nat /\ Cardinality(InAir) \in Nat
  BY <1>1, Finite, FiniteParts, SpotsFinite DEF AllFinite
<1>3. IsFiniteSet(F) /\ Cardinality(F) <= Cardinality(InQueues)
  <2>1. f \in Surjection(InQueues, F)
    BY DEF Surjection
  <2> HIDE DEF f, F
  <2>2. QED
    BY <1>2, <2>1, FS_Surjection
<1>4. IsFiniteSet(G) /\ Cardinality(G) <= Cardinality(InAir)
  <2>1. g \in Surjection(InAir, G)
    BY DEF Surjection
  <2> HIDE DEF g, G
  <2>2. QED
    BY <1>2, <2>1, FS_Surjection
<1>5. Awaiting \subseteq F \cup G
  <2>1. SUFFICES ASSUME NEW c \in Client, Awaited(c) PROVE c \in F \cup G
    BY DEF Awaiting
  <2>2. cl[c].at = "wait" /\ Connected(c) /\ cl[c].peer \in Peer
    BY <1>1, <2>1, SessionPeer DEF Awaited, Connected
  <2>3. CASE \E i \in 1 .. Len(rxq[c]) : rxq[c][i].op = "eof" \/ rxq[c][i].tag = cl[c].tag
    <3>1. Len(rxq[c]) \in Nat /\ 1 \in 1 .. Len(rxq[c])
      BY <1>1, <2>3, QueueTypes
    <3>2. <<c, 1>> \in InQueues
      BY <2>2, <3>1 DEF InQueues, Spots
    <3>3. f[<<c, 1>>] = c
      BY <3>2
    <3>4. QED
      BY <3>2, <3>3
  <2>4. CASE \E i \in 1 .. Len(air[cl[c].peer]) :
               air[cl[c].peer][i].to = home[c] /\ air[cl[c].peer][i].msg.tag = cl[c].tag
    <3>1. PICK i \in 1 .. Len(air[cl[c].peer]) : air[cl[c].peer][i].to = home[c]
      BY <2>4
    <3> DEFINE t == <<cl[c].peer, i>>
    <3>2. t \in InAir
      BY <2>2, <3>1 DEF InAir, Spots
    <3>3. Hear(c, t)
      BY <2>2, <3>1
    <3>4. \A d \in Client : Hear(d, t) => d = c
      BY <2>2, <3>3 DEF IInv, QueuesApart
    <3> HIDE DEF t, Hear
    <3>5. (CHOOSE d \in Client : Hear(d, t)) = c
      BY <3>3, <3>4
    <3>6. g[t] = c
      BY <3>2, <3>5
    <3>7. QED
      BY <3>2, <3>6
  <2>5. QED
    BY <2>1, <2>3, <2>4 DEF Awaited
<1> HIDE DEF f, g, F, G
<1>6. IsFiniteSet(F \cup G) /\ Cardinality(F \cup G) \in Nat
      /\ Cardinality(F \cup G) <= Cardinality(F) + Cardinality(G)
  <2>1. /\ IsFiniteSet(F \cup G) /\ IsFiniteSet(F \cap G)
        /\ Cardinality(F \cup G) = Cardinality(F) + Cardinality(G) - Cardinality(F \cap G)
    BY <1>3, <1>4, FS_Union, FS_Intersection
  <2>2. /\ Cardinality(F \cup G) \in Nat /\ Cardinality(F \cap G) \in Nat
        /\ Cardinality(F) \in Nat /\ Cardinality(G) \in Nat
    BY <1>3, <1>4, <2>1, FS_CardinalityType
  <2>3. QED
    BY <2>1, <2>2
<1>7. Cardinality(Awaiting) <= Cardinality(F \cup G) /\ Cardinality(Awaiting) \in Nat
  BY <1>5, <1>6, Least1
<1>8. Cardinality(F) \in Nat /\ Cardinality(G) \in Nat
  BY <1>3, <1>4, FS_CardinalityType
<1>9. QED
  BY <1>2, <1>3, <1>4, <1>6, <1>7, <1>8

LEMMA BudgetExcuses ==
  ASSUME IInv, Budget
  PROVE  LossIsExcused
<1> SUFFICES ASSUME ~crossed PROVE Cardinality(Lost) <= Batch * excuse
  BY DEF LossIsExcused
<1> DEFINE l == Cardinality(Lost)
           n == Cardinality(InQueues) + Cardinality(InAir)
           w == Cardinality(Awaiting)
<1>1. /\ Cardinality(InQueues) \in Nat /\ Cardinality(InAir) \in Nat
      /\ l \in Nat /\ w \in Nat /\ excuse \in Nat /\ Batch \in Nat
  BY Finite, Given, Bounds DEF AllFinite
<1>2. n \in Nat /\ w <= n
  BY <1>1, Covered
<1>3. l + Batch * n <= Batch * (excuse + w)
  BY DEF Budget
<1> HIDE DEF l, n, w
<1>4. Batch * (excuse + w) = Batch * excuse + Batch * w
  BY <1>1
<1>5. Batch * w <= Batch * n /\ Batch * w \in Nat /\ Batch * n \in Nat /\ Batch * excuse \in Nat
  BY <1>1, <1>2
<1>6. l <= Batch * excuse
  BY <1>1, <1>3, <1>4, <1>5
<1>7. QED
  BY <1>6 DEF l

LEMMA InitPaid ==
  Init => Batches /\ Budget
<1> SUFFICES ASSUME Init PROVE Batches /\ Budget
  OBVIOUS
<1>1. /\ \A c \in Client : cl[c].at = "idle" /\ 1 .. Len(rxq[c]) = {}
      /\ \A p \in Peer : 1 .. Len(air[p]) = {} /\ next[p] = 0
      /\ excuse = 0
  BY DEF Init, Idle
<1>2. Batches
  BY <1>1 DEF Batches
<1>3. Lost = {}
  <2>1. \A p \in Peer, x \in 0 .. Chunks : ~(x < next[p])
    BY <1>1, Bounds
  <2>2. QED
    BY <2>1 DEF Lost
<1>4. InQueues = {}
  <2>1. \A c \in Client : ~Connected(c)
    BY <1>1 DEF Connected
  <2>2. 1 .. 0 = {}
    OBVIOUS
  <2>3. QED
    BY <2>1, <2>2 DEF InQueues, Spots
<1>5. InAir = {}
  BY <1>1 DEF InAir, Spots
<1>6. Awaiting = {}
  BY <1>1 DEF Awaiting, Awaited
<1>7. Cardinality({}) = 0 /\ Batch * (0 + 0) = 0
  BY FS_EmptySet, Bounds
<1>8. Budget
  BY <1>1, <1>3, <1>4, <1>5, <1>6, <1>7 DEF Budget
<1>9. QED
  BY <1>2, <1>8

LEMMA NextPaid ==
  ASSUME IInv, Batches, Budget, [Next]_vars
  PROVE  Batches' /\ Budget'
<1>1. IInv' /\ Batches'
  BY NextInv, BatchesNext
<1>2. ASSUME NEW c \in Client, NEW mode \in Modes, MeshRead(c, mode) PROVE Budget'
  BY <1>1, <1>2, ReadPays
<1>3. ASSUME NEW c \in Client, MeshReturn(c) PROVE Budget'
  BY <1>1, <1>3, ReturnPays
<1>4. ASSUME NEW c \in Client, NextPeer(c) PROVE Budget'
  BY <1>1, <1>4, NextPeerPays
<1>5. ASSUME NEW c \in Client, Send(c) PROVE Budget'
  BY <1>1, <1>5, SendPays
<1>6. ASSUME NEW c \in Client, Timeout(c) PROVE Budget'
  BY <1>1, <1>6, TimeoutPays
<1>7. ASSUME NEW c \in Client, Take(c) PROVE Budget'
  BY <1>1, <1>7, TakePays
<1>8. ASSUME NEW c \in Client, Hangup(c) PROVE Budget'
  BY <1>1, <1>8, HangupPays
<1>9. ASSUME NEW p \in Peer, Arrive(p) PROVE Budget'
  BY <1>1, <1>9, ArrivePays
<1>10. ASSUME NEW p \in Peer, Lose(p) PROVE Budget'
  BY <1>1, <1>10, LosePays
<1>11. CASE UNCHANGED vars
  <2>1. UNCHANGED <<home, cl, rxq, out, next, air, excuse, crossed>>
    BY <1>11 DEF vars
  <2>2. /\ Lost' = Lost /\ InQueues' = InQueues /\ InAir' = InAir /\ Awaiting' = Awaiting
    BY <2>1 DEF Lost, Told, Carries, In, InQueues, InAir, Awaiting, Awaited, Connected
  <2>3. /\ Cardinality(Lost') = Cardinality(Lost) /\ Cardinality(InQueues') = Cardinality(InQueues)
        /\ Cardinality(InAir') = Cardinality(InAir) /\ Cardinality(Awaiting') = Cardinality(Awaiting)
    BY <2>2, Zenon
  <2>4. (crossed => crossed') /\ excuse' = excuse /\ 0 \in Nat
    BY <2>1
  <2>5. /\ Cardinality(Lost) \in Nat /\ Cardinality(InQueues) \in Nat /\ Cardinality(InAir) \in Nat
        /\ Cardinality(Awaiting) \in Nat /\ excuse \in Nat /\ Batch * 0 = 0
    BY Finite, Given, Bounds DEF AllFinite
  <2>6. /\ Cardinality(Lost') <= Cardinality(Lost) + Batch * 0
        /\ Cardinality(InQueues') + Cardinality(InAir') + 0 + excuse + Cardinality(Awaiting)
             <= Cardinality(InQueues) + Cardinality(InAir) + excuse' + Cardinality(Awaiting')
    BY <2>3, <2>4, <2>5
  <2>7. QED
    BY <1>1, <2>4, <2>6, Balanced
<1>12. QED
  BY <1>1, <1>2, <1>3, <1>4, <1>5, <1>6, <1>7, <1>8, <1>9, <1>10, <1>11 DEF Next, Progress

(* A chunk that gen_mflt gave away and that no read of dev/mflt_mesh returns   *)
(* is owed to a fault of the mesh, a probe, a full buffer, a hangup or an      *)
(* attempt of m9_rpc given up over stale replies, and each costs one batch at  *)
(* most: for every number of attempts and reads, whatever is repeated.        *)
THEOREM LossesExcused == Spec => []LossIsExcused
<1>1. Init => IInv /\ Batches /\ Budget
  BY InitInv, InitPaid
<1>2. (IInv /\ Batches /\ Budget) /\ [Next]_vars => (IInv /\ Batches /\ Budget)'
  BY NextInv, NextPaid
<1>3. IInv /\ Batches /\ Budget => LossIsExcused
  BY BudgetExcuses
<1>4. QED
  BY <1>1, <1>2, <1>3, PTL DEF Spec

=================================================================================

---------------------------- MODULE MeshMount_proofs ----------------------------
(* The session of /net/mesh, for every set of threads, nodes, conversations  *)
(* and fids and every number of attempts: it leaks at most one conversation a *)
(* fault, dials the node that is named, and gives each request the answer to  *)
(* it.                                                                       *)
EXTENDS MeshMount, TLAPS, FiniteSetTheorems

-----------------------------------------------------------------------------
(* Queues                                                                    *)

LEMMA TailType ==
  ASSUME NEW S, NEW q \in Seq(S), q # <<>>
  PROVE  /\ Head(q) \in S /\ Tail(q) \in Seq(S)
         /\ 1 \in 1 .. Len(q) /\ Head(q) = q[1]
         /\ \A i \in 1 .. Len(Tail(q)) : i + 1 \in 1 .. Len(q) /\ Tail(q)[i] = q[i + 1]
OBVIOUS

LEMMA AppendType ==
  ASSUME NEW S, NEW q \in Seq(S), NEW e \in S
  PROVE  /\ Append(q, e) \in Seq(S)
         /\ \A i \in 1 .. Len(Append(q, e)) :
              \/ i \in 1 .. Len(q) /\ Append(q, e)[i] = q[i]
              \/ Append(q, e)[i] = e
OBVIOUS

(* All that wait in a queue answer: the first one does, and the rest do.     *)
LEMMA TailAnswers ==
  ASSUME NEW q \in Seq(Datagram), q # <<>>, AllAnswer(q)
  PROVE  Answers(Head(q)) /\ AllAnswer(Tail(q))
BY TailType DEF AllAnswer

LEMMA AppendAnswers ==
  ASSUME NEW q \in Seq(Datagram), NEW d \in Datagram, AllAnswer(q), Answers(d)
  PROVE  AllAnswer(Append(q, d))
BY AppendType DEF AllAnswer

(* So with where they come from.                                             *)
LEMMA TailFrom ==
  ASSUME NEW q \in Seq(Datagram), q # <<>>, NEW p, AllFrom(q, p)
  PROVE  p \in Peer /\ Head(q).peer = p /\ AllFrom(Tail(q), p)
BY TailType DEF AllFrom

LEMMA AppendFrom ==
  ASSUME NEW q \in Seq(Datagram), NEW p \in Peer, NEW d \in Datagram, AllFrom(q, p), d.peer = p
  PROVE  AllFrom(Append(q, d), p)
BY AppendType DEF AllFrom

LEMMA EmptyAnswers == AllAnswer(<<>>) /\ \A p : AllFrom(<<>>, p)
BY DEF AllAnswer, AllFrom

-----------------------------------------------------------------------------
(* Requests                                                                  *)

(* Who waits has waited before, for the same answer.                         *)
WaitsGoOn ==
  /\ calls' = calls
  /\ \A g \in Thread :
       /\ th'[g].id \in {0, th[g].id}
       /\ th'[g].at = "wait" =>
            /\ th[g].at = "wait" /\ th'[g].id = th[g].id
            /\ th'[g].call = th[g].call /\ th'[g].tag = th[g].tag
            /\ th[g].seen \subseteq th'[g].seen

(* The numbers and the answers stay true while the waits go on.              *)
LEMMA NumberedKept ==
  ASSUME TypeOK, Numbered, WaitsGoOn
  PROVE  Numbered'
<1>1. \A g \in Thread : th[g].id \in Nat /\ calls \in Nat
  BY DEF TypeOK, ThreadState
<1>2. QED
  BY <1>1 DEF Numbered, WaitsGoOn

LEMMA AnswersKept ==
  ASSUME WaitsGoOn, NEW d, Answers(d)
  PROVE  Answers(d)'
BY DEF WaitsGoOn, Answers, Asks

LEMMA AllAnswerKept ==
  ASSUME WaitsGoOn, NEW q, AllAnswer(q)
  PROVE  AllAnswer(q)'
BY AnswersKept DEF AllAnswer

LEMMA MatchKept ==
  ASSUME MessagesMatch, WaitsGoOn,
         txbuf' = txbuf,
         sem' = 1 \/ pump'.at # "wait" => sem = 1 \/ pump.at # "wait",
         NEW rb, pump'.rb = rb, pump'.at = "deliver" => Answers(rb),
         NEW a, air' = a, \A p \in Peer : AllAnswer(a[p]),
         NEW c, conv' = c, \A s \in Slot : AllAnswer(c[s].q)
  PROVE  MessagesMatch'
<1>1. sem' = 1 \/ pump'.at # "wait" => Asks(txbuf.op, txbuf.tag, txbuf.id)'
  BY DEF MessagesMatch, WaitsGoOn, Asks
<1>2. pump'.at = "deliver" => Answers(rb)'
  BY AnswersKept
<1>3. /\ \A p \in Peer : AllAnswer(a[p])'
      /\ \A s \in Slot : AllAnswer(c[s].q)'
  BY AllAnswerKept
<1>4. QED
  BY <1>1, <1>2, <1>3 DEF MessagesMatch

-----------------------------------------------------------------------------
(* The conversations                                                         *)

(* A step that loses no conversation, and a fault that loses one.            *)
LEMMA NoMoreLost ==
  ASSUME OneLeakAFault, Lost' \subseteq Lost, faults \in Nat, faults' \in Nat, faults <= faults'
  PROVE  OneLeakAFault'
<1>1. IsFiniteSet(Lost)
  BY FS_Subset, MountAssumption DEF Lost
<1>2. Cardinality(Lost') <= Cardinality(Lost) /\ Cardinality(Lost) \in Nat /\ Cardinality(Lost') \in Nat
  BY <1>1, FS_Subset, FS_CardinalityType
<1>3. Cardinality(Lost) <= faults
  BY DEF OneLeakAFault
<1>4. Cardinality(Lost') <= faults'
  BY <1>2, <1>3
<1>5. QED
  BY <1>4 DEF OneLeakAFault

LEMMA OneMoreLost ==
  ASSUME OneLeakAFault, NEW s, Lost' \subseteq Lost \cup {s}, faults \in Nat, faults' = faults + 1
  PROVE  OneLeakAFault'
<1>1. IsFiniteSet(Lost)
  BY FS_Subset, MountAssumption DEF Lost
<1>2. /\ IsFiniteSet(Lost \cup {s})
      /\ Cardinality(Lost \cup {s}) \in {Cardinality(Lost), Cardinality(Lost) + 1}
  BY <1>1, FS_AddElement
<1>3. /\ Cardinality(Lost') <= Cardinality(Lost \cup {s})
      /\ Cardinality(Lost) \in Nat /\ Cardinality(Lost') \in Nat
  <2>1. IsFiniteSet(Lost')
    BY <1>2, FS_Subset
  <2>2. QED
    BY <1>1, <1>2, <2>1, FS_Subset, FS_CardinalityType
<1>4. Cardinality(Lost) <= faults
  BY DEF OneLeakAFault
<1>5. Cardinality(Lost') <= faults'
  BY <1>2, <1>3, <1>4
<1>6. QED
  BY <1>5 DEF OneLeakAFault

LEMMA FaultBound ==
  ASSUME TypeOK, \/ faults' = faults
                 \/ MayFail /\ Fault
  PROVE  faults \in Nat /\ faults' \in 0 .. MaxFaults /\ faults' \in Nat /\ faults <= faults'
<1>1. faults \in 0 .. MaxFaults /\ MaxFaults \in Nat
  BY MountAssumption DEF TypeOK
<1>2. QED
  BY <1>1 DEF MayFail, Fault

(* A pump that waits for its semaphore has forgotten the message before.     *)
LEMMA SleepingType ==
  /\ Sleeping \in PumpState /\ Sleeping.at = "wait" /\ Sleeping.want = 0
<1>1. Silent \in Datagram
  BY DEF Silent, Datagram
<1>2. 0 \in 0 .. Attempts - 1 /\ 0 \in 0 .. Polls - 1
  BY MountAssumption
<1>3. QED
  BY <1>1, <1>2 DEF Sleeping, PumpState

(* The pump goes on with its message and its fid, or sleeps.                 *)
Onward(t) ==
  /\ t \in PumpState
  /\ \/ t.at \in {"write", "read"} /\ t.fid = pump.fid /\ t.want = pump.want
     \/ t.at = "wait" /\ t.want = 0

LEMMA AgainType ==
  ASSUME TypeOK
  PROVE  Onward(Again)
<1>1. pump \in PumpState /\ 0 \in 0 .. Polls - 1
  BY MountAssumption DEF TypeOK
<1>2. CASE pump.try + 1 = Attempts
  BY <1>2, SleepingType DEF Again, Onward
<1>3. CASE pump.try + 1 # Attempts
  <2>1. pump.try + 1 \in 0 .. Attempts - 1
    BY <1>1, <1>3, MountAssumption DEF PumpState
  <2>2. ASSUME NEW i \in 0 .. Attempts - 1, NEW t,
               t = [pump EXCEPT !.at = "write", !.try = i, !.polls = 0]
        PROVE  t \in PumpState /\ t.at = "write" /\ t.fid = pump.fid /\ t.want = pump.want
    BY <1>1, <2>2 DEF PumpState
  <2>3. Again = [pump EXCEPT !.at = "write", !.try = pump.try + 1, !.polls = 0]
    BY <1>3 DEF Again
  <2>4. QED
    BY <2>1, <2>2, <2>3 DEF Onward
<1>4. QED
  BY <1>2, <1>3

(* The next poll, or the next attempt.                                       *)
LEMMA PollType ==
  ASSUME TypeOK
  PROVE  Onward(Poll)
<1>1. CASE pump.polls + 1 = Polls
  BY <1>1, AgainType DEF Poll
<1>2. CASE pump.polls + 1 # Polls
  <2>1. pump \in PumpState /\ pump.polls + 1 \in 0 .. Polls - 1
    <3>1. pump \in PumpState /\ pump.polls \in 0 .. Polls - 1 /\ Polls \in Nat
      BY MountAssumption DEF TypeOK, PumpState
    <3>2. QED
      BY <1>2, <3>1
  <2>2. ASSUME NEW i \in 0 .. Polls - 1, NEW t, t = [pump EXCEPT !.at = "read", !.polls = i]
        PROVE  t \in PumpState /\ t.at = "read" /\ t.fid = pump.fid /\ t.want = pump.want
    BY <2>1, <2>2 DEF PumpState
  <2>3. Poll = [pump EXCEPT !.at = "read", !.polls = pump.polls + 1]
    BY <1>2 DEF Poll
  <2>4. QED
    BY <2>1, <2>2, <2>3 DEF Onward
<1>3. QED
  BY <1>1, <1>2

(* A pump that goes on works as before, and talks to whom it talked to or to   *)
(* the node that is named now, which every waiting access has seen.          *)
Talks(p, old) == p \in {None, meshPeer, old}

SeenNext(tag, p) ==
  p # None => \A h \in Thread :
    th'[h].at = "wait" /\ th'[h].call = "use" /\ th'[h].tag = tag => p \in th'[h].seen

LEMMA SeenKept ==
  ASSUME WaitsGoOn, AccessSeesNames, NEW tag, NEW p, NEW old, Talks(p, old), Seen(tag, old)
  PROVE  SeenNext(tag, p)
<1>1. Seen(tag, p)
  BY DEF Talks, Seen, AccessSeesNames
<1>2. QED
  BY <1>1 DEF Seen, SeenNext, WaitsGoOn

LEMMA NamedSeen ==
  ASSUME WaitsGoOn, AccessSeesNames, NEW tag, NEW p, p \in {None, meshPeer}
  PROVE  SeenNext(tag, p)
BY DEF SeenNext, WaitsGoOn, AccessSeesNames

LEMMA PumpSeesKept ==
  ASSUME TypeOK, Pumping, PumpSees, AccessSeesNames, WaitsGoOn,
         \/ pump' = pump
         \/ pump.at \in {"write", "read", "block"} /\ Onward(pump')
         \/ pump'.at = "wait",
         \A s \in Slot : Talks(conv'[s].peer, conv[s].peer),
         \A f \in Fid : \/ fidOf'[f] \in {fidOf[f], None}
                        \/ conv'[fidOf'[f]].peer \in {None, meshPeer}
  PROVE  PumpSees'
<1>1. /\ pump.at # "wait" => pump.fid \in Fid
      /\ pump.at = "block" => pump.slot \in Slot
      /\ \A f \in Fid : fidOf[f] \in Slot \cup {None}
  BY DEF TypeOK, Pumping, PumpState
<1>2. pump' = pump \/ (pump.at \in {"write", "read", "block"} /\ Onward(pump')) \/ pump'.at = "wait"
  OBVIOUS
<1>3. CASE pump'.at = "wait"
  BY <1>3 DEF PumpSees
<1>4. ASSUME pump'.at \in {"write", "read", "block"}, pump.at \in {"write", "read", "block"},
             pump'.fid = pump.fid, pump'.want = pump.want, Reaches' # None
      PROVE  SeenNext(pump.want, conv'[Reaches'].peer)
  <2>1. pump.fid \in Fid /\ Reaches' = fidOf'[pump.fid]
    BY <1>1, <1>4 DEF Reaches
  <2>2. CASE conv'[Reaches'].peer \in {None, meshPeer}
    BY <2>2, NamedSeen
  <2>3. CASE Reaches' = Reaches /\ Reaches \in Slot
    <3>1. Talks(conv'[Reaches'].peer, conv[Reaches].peer) /\ Seen(pump.want, conv[Reaches].peer)
      BY <1>1, <1>4, <2>3, MountAssumption DEF PumpSees
    <3>2. QED
      BY <3>1, SeenKept
  <2>4. QED
    BY <1>1, <1>4, <2>1, <2>2, <2>3 DEF Reaches
<1>5. CASE pump' = pump
  <2>1. ASSUME pump.at = "block"
        PROVE  SeenNext(pump.want, conv'[pump.slot].peer)
    <3>1. Talks(conv'[pump.slot].peer, conv[pump.slot].peer) /\ Seen(pump.want, conv[pump.slot].peer)
      BY <1>1, <2>1 DEF PumpSees
    <3>2. QED
      BY <3>1, SeenKept
  <2>2. ASSUME pump.at = "deliver"
        PROVE  pump.rb.tag = pump.want /\ pump.rb.peer # None /\ SeenNext(pump.want, pump.rb.peer)
    <3>1. pump.rb.tag = pump.want /\ pump.rb.peer # None /\ Seen(pump.want, pump.rb.peer)
      BY <2>2 DEF PumpSees
    <3>2. QED
      BY <3>1, SeenKept DEF Talks
  <2>3. pump.at \in {"write", "read", "block"} /\ Reaches' # None =>
          SeenNext(pump.want, conv'[Reaches'].peer)
    BY <1>4, <1>5
  <2>4. QED
    BY <1>5, <2>1, <2>2, <2>3 DEF PumpSees, Seen, SeenNext
<1>6. CASE pump.at \in {"write", "read", "block"} /\ Onward(pump') /\ pump'.at # "wait"
  <2>1. pump'.at \in {"write", "read"} /\ pump'.fid = pump.fid /\ pump'.want = pump.want
    BY <1>6 DEF Onward
  <2>2. Reaches' # None => SeenNext(pump.want, conv'[Reaches'].peer)
    BY <1>4, <1>6, <2>1
  <2>3. QED
    BY <2>1, <2>2 DEF PumpSees, Seen, SeenNext
<1>7. QED
  BY <1>2, <1>3, <1>5, <1>6

(* A pump that goes on, or that a conversation lets go when it ends.         *)
LEMMA PumpingKept ==
  ASSUME TypeOK, Pumping, calls' = calls,
         \/ /\ pump' = pump
            /\ pump.at = "block" => conv'[pump.slot].ctl # "free"
         \/ pump.at # "wait" /\ Onward(pump')
  PROVE  pump' \in PumpState /\ Pumping'
<1>1. pump \in PumpState /\ calls \in Nat
  BY DEF TypeOK
<1>2. CASE pump' = pump /\ (pump.at = "block" => conv'[pump.slot].ctl # "free")
  BY <1>1, <1>2 DEF Pumping
<1>3. CASE pump.at # "wait" /\ Onward(pump')
  BY <1>1, <1>3 DEF Pumping, Onward
<1>4. QED
  BY <1>2, <1>3

LEMMA EndedPump ==
  ASSUME TypeOK, NEW S, pump' = Ended(S)
  PROVE  \/ pump' = pump /\ (pump.at = "block" => pump.slot \notin S)
         \/ pump.at = "block" /\ Onward(pump')
BY PollType DEF Ended

(* What every conversation's queue holds after a step, when it holds part of   *)
(* what it held.                                                             *)
LEMMA QueuesKept ==
  ASSUME MessagesMatch, QueuePeers, air' = air,
         \A s \in Slot :
           /\ conv'[s].q = <<>> \/ (conv'[s].q = conv[s].q /\ conv'[s].peer = conv[s].peer)
           /\ conv'[s].ctl = "free" => conv'[s].peer = None
  PROVE  QueuePeers' /\ \A s \in Slot : AllAnswer(conv'[s].q)
BY EmptyAnswers DEF QueuePeers, MessagesMatch

(* A step of the session that leaves the transport and the node alone.       *)
LEMMA NodeKept ==
  ASSUME IInv, WaitsGoOn, UNCHANGED <<tp, lock, txbuf, sem, pump, conv, fidOf, air>>,
         faults' = faults \/ (MayFail /\ Fault),
         lock # None => th'[lock].at = th[lock].at
  PROVE  /\ OneLeakAFault' /\ Bound' /\ Pumping' /\ Numbered' /\ MessagesMatch' /\ QueuePeers'
         /\ PumpSees'
<1> USE DEF IInv
<1>1. Lost' = Lost
  BY DEF Lost
<1>2. OneLeakAFault'
  BY <1>1, NoMoreLost, FaultBound
<1>3. Bound'
  BY DEF Bound
<1>4. Pumping' /\ QueuePeers'
  BY DEF Pumping, WaitsGoOn, QueuePeers
<1>5. MessagesMatch'
  BY MatchKept DEF MessagesMatch
<1>6. PumpSees'
  BY PumpSeesKept DEF Talks
<1>7. Numbered'
  BY NumberedKept
<1>8. QED
  BY <1>2, <1>3, <1>4, <1>5, <1>6, <1>7

(* A step of the pump, the carrier or the mesh leaves the session alone.     *)
LEMMA SessionKept ==
  ASSUME IInv, UNCHANGED <<th, sess, meshPeer, attached, tp, calls, cut>>
  PROVE  /\ HandshakeAlone' /\ AttachedToNamed' /\ DialsNewPeer' /\ AccessSeesNames'
         /\ Numbered' /\ WaitsGoOn
<1>1. HandshakeAlone' /\ AttachedToNamed' /\ DialsNewPeer' /\ AccessSeesNames'
  BY DEF IInv, HandshakeAlone, Making, AttachedToNamed, DialsNewPeer, AccessSeesNames
<1>2. WaitsGoOn
  BY DEF WaitsGoOn
<1>3. QED
  BY <1>1, <1>2, NumberedKept DEF IInv

(* A step that leaves the conversations' owners and the fids alone.          *)
LEMMA OwnersKept ==
  ASSUME IInv, UNCHANGED <<th, tp, lock, fidOf>>, faults' = faults \/ (MayFail /\ Fault),
         \A s \in Slot : conv'[s].ctl = conv[s].ctl /\ conv'[s].peer = conv[s].peer
  PROVE  OneLeakAFault' /\ Bound'
<1> USE DEF IInv
<1>1. Lost' = Lost
  BY DEF Lost
<1>2. tp.connected => tp.slot \in Slot
  BY DEF Bound, TypeOK, TransportState
<1>3. QED
  BY <1>1, <1>2, NoMoreLost, FaultBound DEF Bound

-----------------------------------------------------------------------------
(* Threads                                                                   *)

(* One thread's step: where it is now, and that the others stay.             *)
Goes(h, at, call, seen) ==
  /\ th' \in [Thread -> ThreadState]
  /\ \A g \in Thread : g # h => th'[g] = th[g]
  /\ th'[h].at = at /\ th'[h].call = call /\ th'[h].seen = seen
  /\ th'[h].id \in {0, th[h].id}

LEMMA GoesTo ==
  ASSUME TypeOK, NEW h \in Thread, NEW t \in ThreadState, th' = [th EXCEPT ![h] = t],
         t.id \in {0, th[h].id}
  PROVE  Goes(h, t.at, t.call, t.seen)
BY DEF TypeOK, Goes

Place == {"idle", "connect", "redial", "dial", "call", "wait", "down", "drop"}

LEMMA GoesAt ==
  ASSUME TypeOK, NEW h \in Thread, NEW at \in Place, NEW call \in Call,
         \/ th' = [th EXCEPT ![h] = [@ EXCEPT !.at = at, !.call = call]]
         \/ th' = [th EXCEPT ![h].at = at] /\ th[h].call = call
  PROVE  Goes(h, at, call, th[h].seen)
<1>1. th[h] \in ThreadState
  BY DEF TypeOK
<1>2. ASSUME NEW t, t = [th[h] EXCEPT !.at = at, !.call = call]
      PROVE  /\ t \in ThreadState
             /\ t.at = at /\ t.call = call /\ t.seen = th[h].seen /\ t.id = th[h].id
  BY <1>1, <1>2 DEF ThreadState, Place
<1>3. ASSUME NEW t, t = [th[h] EXCEPT !.at = at]
      PROVE  /\ t \in ThreadState
             /\ t.at = at /\ t.call = th[h].call /\ t.seen = th[h].seen /\ t.id = th[h].id
  BY <1>1, <1>3 DEF ThreadState, Place
<1>4. \/ th' = [th EXCEPT ![h] = [th[h] EXCEPT !.at = at, !.call = call]]
      \/ th' = [th EXCEPT ![h] = [th[h] EXCEPT !.at = at]] /\ th[h].call = call
  OBVIOUS
<1>5. QED
  BY <1>2, <1>3, <1>4, GoesTo

LEMMA GoesIdle ==
  ASSUME TypeOK, NEW h \in Thread, NEW at \in Place, th' = [th EXCEPT ![h] = [Idle EXCEPT !.at = at]]
  PROVE  Goes(h, at, "use", {})
<1> DEFINE t == [Idle EXCEPT !.at = at]
<1>1. t \in ThreadState /\ t.at = at /\ t.call = "use" /\ t.seen = {} /\ t.id = 0
  BY DEF Idle, ThreadState, Place, Call
<1>2. QED
  BY <1>1, GoesTo

LEMMA GoesHome ==
  ASSUME TypeOK, NEW h \in Thread, th' = [th EXCEPT ![h] = Idle]
  PROVE  Goes(h, "idle", "use", {})
<1>1. Idle \in ThreadState /\ Idle.at = "idle" /\ Idle.call = "use" /\ Idle.seen = {} /\ Idle.id = 0
  BY DEF Idle, ThreadState, Call
<1>2. QED
  BY <1>1, GoesTo

(* A thread that does not wait after its step leaves the waits as they are.   *)
LEMMA GoesOn ==
  ASSUME TypeOK, NEW h \in Thread, NEW at, NEW call, NEW seen, Goes(h, at, call, seen),
         at # "wait", calls' = calls
  PROVE  WaitsGoOn
BY DEF WaitsGoOn, Goes, TypeOK, ThreadState

(* Who has the transport's lock does not move when another one does.         *)
LEMMA HolderStays ==
  ASSUME IInv, NEW h \in Thread, NEW at, NEW call, NEW seen, Goes(h, at, call, seen),
         th[h].at \notin {"redial", "drop"}
  PROVE  lock # None => th'[lock].at = th[lock].at
BY DEF IInv, Bound, TypeOK, Goes

-----------------------------------------------------------------------------
(* Every action keeps the invariant, one lemma each: first the session.      *)

LEMMA ConnectKeeps ==
  ASSUME IInv, NEW h \in Thread, Connect(h)
  PROVE  IInv'
<1> USE DEF IInv
<1>1. /\ UNCHANGED <<sess, meshPeer, attached, tp, lock, txbuf, sem, pump, conv, fidOf>>
      /\ UNCHANGED <<srv, air, ops, calls, faults, cut>>
  BY DEF Connect, transport, node, mesh, history
<1>2. th[h].at = "connect" /\ sess = h /\ ~attached /\ th[h].call \in Call
  BY DEF Connect, HandshakeAlone, Making, TypeOK, ThreadState
<1>3. \/ SamePeer /\ Goes(h, "call", "version", th[h].seen)
      \/ ~SamePeer /\ Goes(h, "redial", th[h].call, th[h].seen)
  <2>1. CASE SamePeer
    <3>1. th' = [th EXCEPT ![h] = [@ EXCEPT !.at = "call", !.call = "version"]]
      BY <2>1 DEF Connect
    <3>2. QED
      BY <2>1, <3>1, GoesAt DEF Place, Call
  <2>2. CASE ~SamePeer
    <3>1. th' = [th EXCEPT ![h].at = "redial"]
      BY <2>2 DEF Connect
    <3>2. QED
      BY <1>2, <2>2, <3>1, GoesAt DEF Place
  <2>3. QED
    BY <2>1, <2>2
<1>4. WaitsGoOn /\ (lock # None => th'[lock].at = th[lock].at)
  BY <1>1, <1>2, <1>3, GoesOn, HolderStays
<1>5. TypeOK'
  BY <1>1, <1>3 DEF TypeOK, Goes
<1>6. HandshakeAlone'
  BY <1>1, <1>2, <1>3 DEF HandshakeAlone, Making, Goes, SamePeer
<1>7. AttachedToNamed' /\ DialsNewPeer' /\ AccessSeesNames'
  BY <1>1, <1>2, <1>3 DEF AttachedToNamed, DialsNewPeer, AccessSeesNames, Goes
<1>8. QED
  BY <1>1, <1>4, <1>5, <1>6, <1>7, NodeKept

(* The end of a disconnect: there is no conversation, and who had one knows.   *)
LEMMA ForgetKeeps ==
  ASSUME IInv, NEW h \in Thread, Forget(h), th[h].at \in {"redial", "drop"},
         UNCHANGED <<sess, meshPeer, attached, calls>>
  PROVE  /\ th' \in [Thread -> ThreadState] /\ tp' \in TransportState /\ lock' = None
         /\ ~tp'.connected /\ cut' \in BOOLEAN
         /\ Bound' /\ HandshakeAlone' /\ AttachedToNamed' /\ DialsNewPeer' /\ AccessSeesNames'
         /\ Numbered' /\ WaitsGoOn
<1> USE DEF IInv
<1>1. /\ tp' \in TransportState /\ ~tp'.connected /\ tp'.fid = None /\ lock' = None
      /\ cut' \in BOOLEAN /\ (cut => cut') /\ (attached => cut')
      /\ \A g \in Thread : sess = g /\ th[g].at \in {"call", "wait"} => cut'
  BY DEF Forget, TypeOK, TransportState
<1>2. \/ th[h].at = "redial" /\ Goes(h, "dial", th[h].call, th[h].seen)
      \/ th[h].at = "drop" /\ Goes(h, "idle", "use", {})
  <2>1. CASE th[h].at = "redial"
    <3>1. th' = [th EXCEPT ![h].at = "dial"]
      BY <2>1 DEF Forget
    <3>2. QED
      BY <2>1, <3>1, GoesAt DEF Place, TypeOK, ThreadState
  <2>2. CASE th[h].at = "drop"
    <3>1. th' = [th EXCEPT ![h] = Idle]
      BY <2>2 DEF Forget
    <3>2. QED
      BY <2>2, <3>1, GoesHome
  <2>3. QED
    BY <2>1, <2>2
<1>3. WaitsGoOn /\ Numbered'
  BY <1>2, GoesOn, NumberedKept
<1>4. Bound'
  BY <1>1 DEF Bound
<1>5. HandshakeAlone'
  BY <1>1, <1>2 DEF HandshakeAlone, Making, Goes
<1>6. AttachedToNamed' /\ DialsNewPeer' /\ AccessSeesNames'
  BY <1>1, <1>2 DEF AttachedToNamed, DialsNewPeer, AccessSeesNames, Goes
<1>7. QED
  BY <1>1, <1>2, <1>3, <1>4, <1>5, <1>6 DEF Goes

LEMMA ClunkDataKeeps ==
  ASSUME IInv, NEW h \in Thread, ClunkData(h)
  PROVE  IInv'
<1> USE DEF IInv
<1>1. /\ UNCHANGED <<sess, meshPeer, attached, txbuf, sem, pump, conv, srv, air, ops, calls>>
      /\ th[h].at \in {"redial", "drop"}
  BY DEF ClunkData, mesh
<1>2. faults' = faults \/ (MayFail /\ Fault)
  BY DEF ClunkData
<1>3. fidOf' \in [Fid -> Slot \cup {None}] /\ \A f \in Fid : fidOf'[f] \in {fidOf[f], None}
  BY DEF ClunkData, TypeOK
<1>4. /\ th' \in [Thread -> ThreadState] /\ tp' \in TransportState /\ lock' \in Thread \cup {None}
      /\ cut' \in BOOLEAN /\ tp'.connected = tp.connected
      /\ tp.connected => tp' = tp
      /\ Bound' /\ HandshakeAlone' /\ AttachedToNamed' /\ DialsNewPeer' /\ AccessSeesNames'
      /\ Numbered' /\ WaitsGoOn
  <2>1. CASE ~tp.connected
    <3>1. Forget(h)
      BY <2>1 DEF ClunkData
    <3>2. tp'.connected = tp.connected
      BY <2>1, <3>1 DEF Forget, TypeOK, TransportState
    <3>3. QED
      BY <1>1, <2>1, <3>1, <3>2, ForgetKeeps
  <2>2. CASE tp.connected
    <3>1. UNCHANGED <<tp, th, cut>> /\ lock' = h
      BY <2>2 DEF ClunkData
    <3>2. tp.fid \in Fid
      BY <2>2 DEF Bound, TypeOK, TransportState
    <3>3. Bound'
      BY <1>1, <1>3, <2>2, <3>1, <3>2 DEF Bound
    <3>4. QED
      BY <1>1, <2>2, <3>1, <3>3, SessionKept DEF TypeOK
  <2>3. QED
    BY <2>1, <2>2
<1>5. OneLeakAFault'
  <2>1. Lost' = Lost
    BY <1>1, <1>4 DEF Lost
  <2>2. QED
    BY <1>2, <2>1, NoMoreLost, FaultBound
<1>6. Pumping'
  BY <1>1 DEF Pumping
<1>7. MessagesMatch' /\ QueuePeers'
  BY <1>1, <1>4, MatchKept DEF MessagesMatch, QueuePeers
<1>8. PumpSees'
  BY <1>1, <1>3, <1>4, PumpSeesKept DEF Talks
<1>9. TypeOK'
  BY <1>1, <1>2, <1>3, <1>4, FaultBound DEF TypeOK
<1>10. QED
  BY <1>4, <1>5, <1>6, <1>7, <1>8, <1>9

(* A conversation that ends has no peer, no datagram and no reader.          *)
LEMMA UnusedType == Unused \in ConvState /\ Unused.ctl = "free" /\ Unused.peer = None /\ Unused.q = <<>>
BY DEF Unused, ConvState

LEMMA ClunkCtlKeeps ==
  ASSUME IInv, NEW h \in Thread, ClunkCtl(h)
  PROVE  IInv'
<1> USE DEF IInv
<1> DEFINE s == tp.slot
<1>1. /\ UNCHANGED <<sess, meshPeer, attached, txbuf, sem, fidOf, srv, air, ops, calls>>
      /\ Forget(h) /\ tp.connected /\ lock = h
  BY DEF ClunkCtl, mesh
<1>2. s \in Slot /\ th[h].at \in {"redial", "drop"}
  BY <1>1, MountAssumption DEF Bound, TypeOK, TransportState
<1>3. /\ th' \in [Thread -> ThreadState] /\ tp' \in TransportState /\ lock' = None
      /\ ~tp'.connected /\ cut' \in BOOLEAN
      /\ Bound' /\ HandshakeAlone' /\ AttachedToNamed' /\ DialsNewPeer' /\ AccessSeesNames'
      /\ Numbered' /\ WaitsGoOn
  BY <1>1, <1>2, ForgetKeeps
<1>4. \/ /\ conv' = [conv EXCEPT ![s] = Unused] /\ pump' = Ended({s}) /\ faults' = faults
      \/ /\ conv' = conv /\ pump' = pump
         /\ \/ faults' = faults /\ conv[s].ctl # "held"
            \/ MayFail /\ Fault
  BY DEF ClunkCtl
<1> HIDE DEF s
<1>5. /\ conv' \in [Slot -> ConvState]
      /\ \A r \in Slot : conv'[r] = conv[r] \/ (r = s /\ conv'[r] = Unused)
  BY <1>2, <1>4, UnusedType DEF TypeOK
<1>6. OneLeakAFault'
  <2>1. CASE faults' = faults
    <3>1. conv'[s].ctl # "held"
      BY <1>2, <1>4, <2>1, UnusedType, FaultBound DEF Fault, TypeOK
    <3>2. Lost' \subseteq Lost
      <4>1. ASSUME NEW r \in Lost'
            PROVE  r \in Lost
        <5>1. r \in Slot /\ conv'[r].ctl # "free"
          BY <4>1 DEF Lost
        <5>2. conv'[r] = conv[r]
          BY <1>5, <5>1, UnusedType
        <5>3. r = s => conv[r].ctl # "held"
          BY <3>1, <5>2
        <5>4. QED
          BY <5>1, <5>2, <5>3 DEF Lost, s
      <4>2. QED
        BY <4>1
    <3>3. QED
      BY <2>1, <3>2, NoMoreLost, FaultBound
  <2>2. CASE MayFail /\ Fault
    <3>1. Lost' \subseteq Lost \cup {s}
      <4>1. ASSUME NEW r \in Lost'
            PROVE  r \in Lost \cup {s}
        <5>1. r \in Slot /\ conv'[r].ctl # "free"
          BY <4>1 DEF Lost
        <5>2. conv'[r] = conv[r]
          BY <1>5, <5>1, UnusedType
        <5>3. QED
          BY <5>1, <5>2 DEF Lost, s
      <4>2. QED
        BY <4>1
    <3>2. QED
      BY <2>2, <3>1, OneMoreLost, FaultBound DEF Fault
  <2>3. QED
    BY <1>4, <2>1, <2>2
<1>7. pump' \in PumpState /\ Pumping'
  <2>1. CASE conv' = [conv EXCEPT ![s] = Unused] /\ pump' = Ended({s})
    <3>1. \/ pump' = pump /\ (pump.at = "block" => pump.slot # s)
          \/ pump.at = "block" /\ Onward(pump')
      BY <2>1, EndedPump
    <3>2. pump.at = "block" => pump.slot \in Slot /\ conv[pump.slot].ctl # "free"
      BY DEF Pumping, TypeOK, PumpState
    <3>3. QED
      BY <1>1, <1>5, <3>1, <3>2, PumpingKept
  <2>2. CASE conv' = conv /\ pump' = pump
    BY <1>1, <2>2, PumpingKept DEF Pumping
  <2>3. QED
    BY <1>4, <2>1, <2>2
<1>8. pump' = pump \/ (pump.at = "block" /\ Onward(pump'))
  BY <1>4, EndedPump
<1>9. PumpSees'
  BY <1>1, <1>3, <1>5, <1>8, PumpSeesKept, UnusedType DEF Talks
<1>10. QueuePeers' /\ \A r \in Slot : AllAnswer(conv'[r].q)
  BY <1>1, <1>5, QueuesKept, UnusedType DEF QueuePeers
<1>11. MessagesMatch'
  BY <1>1, <1>3, <1>8, <1>10, MatchKept DEF MessagesMatch, Onward
<1>12. TypeOK'
  <2>1. faults' \in 0 .. MaxFaults
    BY <1>4, FaultBound
  <2>2. QED
    BY <1>1, <1>3, <1>5, <1>7, <2>1 DEF TypeOK
<1>13. QED
  BY <1>3, <1>6, <1>7, <1>9, <1>10, <1>11, <1>12

(* What a dial, whole or broken off, leaves in the node: a conversation with    *)
(* the named peer or with none, a fid that leads to it.                      *)
LEMMA DialLeaves ==
  ASSUME IInv, WaitsGoOn, UNCHANGED <<txbuf, sem, pump, air>>,
         NEW s \in Slot, NEW f \in Fid, conv[s].ctl = "free", meshPeer \in Peer,
         conv' \in {conv, Taken(s, None), Taken(s, meshPeer)},
         fidOf' \in {fidOf, [fidOf EXCEPT ![f] = s]}
  PROVE  /\ conv' \in [Slot -> ConvState] /\ fidOf' \in [Fid -> Slot \cup {None}]
         /\ \A r \in Slot : r # s => conv'[r] = conv[r]
         /\ Pumping' /\ QueuePeers' /\ MessagesMatch' /\ PumpSees'
<1> USE DEF IInv
<1>1. ASSUME NEW p \in {None, meshPeer}, NEW c, c = [Unused EXCEPT !.ctl = "held", !.peer = p]
      PROVE  c \in ConvState /\ c.q = <<>> /\ c.peer = p /\ c.ctl = "held"
  <2>1. c = [ctl |-> "held", peer |-> p, q |-> <<>>, parked |-> 0]
    BY <1>1 DEF Unused
  <2>2. p \in Peer \cup {None} /\ <<>> \in Seq(Datagram)
    OBVIOUS
  <2>3. QED
    BY <2>1, <2>2 DEF ConvState
<1>2. conv[s] \in ConvState /\ conv[s].peer = None
  BY DEF TypeOK, QueuePeers
<1>3. /\ conv' \in [Slot -> ConvState] /\ \A r \in Slot : r # s => conv'[r] = conv[r]
      /\ \/ conv'[s] = conv[s]
         \/ conv'[s].peer \in {None, meshPeer} /\ conv'[s].ctl = "held" /\ conv'[s].q = <<>>
  <2>1. CASE conv' = conv
    BY <2>1 DEF TypeOK
  <2>2. ASSUME NEW p \in {None, meshPeer}, conv' = Taken(s, p)
        PROVE  /\ conv' \in [Slot -> ConvState] /\ \A r \in Slot : r # s => conv'[r] = conv[r]
               /\ conv'[s].peer = p /\ conv'[s].ctl = "held" /\ conv'[s].q = <<>>
    BY <1>1, <2>2 DEF Taken, TypeOK
  <2>3. QED
    BY <2>1, <2>2
<1>4. /\ fidOf' \in [Fid -> Slot \cup {None}]
      /\ \A e \in Fid : fidOf'[e] = fidOf[e] \/ fidOf'[e] = s
  BY DEF TypeOK
<1>5. conv'[s].peer \in {None, meshPeer}
  BY <1>2, <1>3
<1>6. Pumping'
  BY <1>2, <1>3 DEF Pumping, TypeOK, PumpState, WaitsGoOn
<1>7. QueuePeers' /\ \A r \in Slot : AllAnswer(conv'[r].q)
  BY <1>3, QueuesKept DEF QueuePeers
<1>8. MessagesMatch'
  BY <1>7, MatchKept DEF MessagesMatch
<1>9. PumpSees'
  BY <1>3, <1>4, <1>5, PumpSeesKept DEF Talks
<1>10. QED
  BY <1>3, <1>4, <1>6, <1>7, <1>8, <1>9

LEMMA DialKeeps ==
  ASSUME IInv, NEW h \in Thread, Dial(h)
  PROVE  IInv'
<1> USE DEF IInv
<1>1. UNCHANGED <<meshPeer, attached, lock, txbuf, sem, pump, srv, air, ops, calls, cut>>
  BY DEF Dial, mesh
<1>2. /\ th[h].at = "dial" /\ sess = h /\ ~attached /\ ~tp.connected
      /\ meshPeer \in Peer /\ meshPeer # None /\ lock = None /\ meshPeer \in th[h].seen
  BY DEF Dial, HandshakeAlone, Making, Bound, AccessSeesNames, TypeOK
<1>3. ASSUME NEW s \in Slot, NEW f \in Fid, conv[s].ctl = "free",
             conv' = Taken(s, meshPeer), fidOf' = [fidOf EXCEPT ![f] = s],
             tp' = [connected |-> TRUE, fid |-> f, slot |-> s, peer |-> meshPeer],
             th' = [th EXCEPT ![h] = [@ EXCEPT !.at = "call", !.call = "version"]],
             UNCHANGED <<sess, faults>>
      PROVE  IInv'
  <2>1. Goes(h, "call", "version", th[h].seen)
    BY <1>3, GoesAt DEF Place, Call
  <2>2. WaitsGoOn /\ Numbered'
    BY <1>1, <2>1, GoesOn, NumberedKept
  <2>3. /\ conv' \in [Slot -> ConvState] /\ fidOf' \in [Fid -> Slot \cup {None}]
        /\ \A r \in Slot : r # s => conv'[r] = conv[r]
        /\ Pumping' /\ QueuePeers' /\ MessagesMatch' /\ PumpSees'
    BY <1>1, <1>2, <1>3, <2>2, DialLeaves
  <2>4. /\ tp' \in TransportState /\ tp'.connected /\ tp'.fid = f /\ tp'.slot = s /\ tp'.peer = meshPeer
        /\ f # None /\ s # None
    BY <1>2, <1>3, MountAssumption DEF TransportState
  <2>5. conv'[s].ctl = "held" /\ conv'[s].peer = meshPeer /\ fidOf'[f] = s
    BY <1>3 DEF Taken, Unused, TypeOK
  <2>6. Bound'
    BY <1>1, <1>2, <2>4, <2>5 DEF Bound
  <2>7. OneLeakAFault'
    <3>1. Lost' \subseteq Lost
      BY <1>2, <2>3, <2>4, <2>5 DEF Lost
    <3>2. QED
      BY <1>3, <3>1, NoMoreLost, FaultBound
  <2>8. TypeOK'
    BY <1>1, <1>3, <2>1, <2>3, <2>4 DEF TypeOK, Goes, Pumping
  <2>9. HandshakeAlone'
    BY <1>1, <1>2, <1>3, <2>1, <2>4 DEF HandshakeAlone, Making, Goes
  <2>10. AttachedToNamed' /\ DialsNewPeer'
    BY <1>1, <1>2 DEF AttachedToNamed, DialsNewPeer
  <2>11. AccessSeesNames'
    <3>1. \A g \in Thread :
            th[g].at \in {"connect", "redial", "dial", "call", "wait"} => meshPeer \in th[g].seen
      BY <1>2 DEF AccessSeesNames
    <3>2. QED
      BY <1>1, <1>2, <2>1, <2>4, <3>1 DEF AccessSeesNames, Goes
  <2>12. QED
    BY <2>2, <2>3, <2>6, <2>7, <2>8, <2>9, <2>10, <2>11
<1>4. ASSUME Release(h, Idle), UNCHANGED tp
      PROVE  /\ th' \in [Thread -> ThreadState] /\ sess' = None /\ WaitsGoOn /\ Numbered'
             /\ HandshakeAlone' /\ AttachedToNamed' /\ DialsNewPeer' /\ AccessSeesNames'
             /\ lock # None => th'[lock].at = th[lock].at
  <2>1. Goes(h, "idle", "use", {}) /\ sess' = None
    BY <1>4, GoesHome DEF Release
  <2>2. WaitsGoOn /\ Numbered'
    BY <1>1, <2>1, GoesOn, NumberedKept
  <2>3. HandshakeAlone'
    BY <1>1, <1>2, <2>1 DEF HandshakeAlone, Making, Goes
  <2>4. AttachedToNamed' /\ DialsNewPeer' /\ AccessSeesNames'
    BY <1>1, <1>2, <1>4, <2>1 DEF AttachedToNamed, DialsNewPeer, AccessSeesNames, Goes
  <2>5. QED
    BY <1>2, <2>1, <2>2, <2>3, <2>4 DEF Goes
<1>5. ASSUME NEW s \in Slot, NEW f \in Fid, conv[s].ctl = "free", MayFail, Fault,
             conv' \in {conv, Taken(s, None), Taken(s, meshPeer)},
             fidOf' \in {fidOf, [fidOf EXCEPT ![f] = s]},
             Release(h, Idle), UNCHANGED tp
      PROVE  IInv'
  <2>1. /\ th' \in [Thread -> ThreadState] /\ sess' = None /\ WaitsGoOn /\ Numbered'
        /\ HandshakeAlone' /\ AttachedToNamed' /\ DialsNewPeer' /\ AccessSeesNames'
    BY <1>4, <1>5
  <2>2. /\ conv' \in [Slot -> ConvState] /\ fidOf' \in [Fid -> Slot \cup {None}]
        /\ \A r \in Slot : r # s => conv'[r] = conv[r]
        /\ Pumping' /\ QueuePeers' /\ MessagesMatch' /\ PumpSees'
    BY <1>1, <1>2, <1>5, <2>1, DialLeaves
  <2>3. OneLeakAFault'
    <3>1. Lost' \subseteq Lost \cup {s}
      BY <1>5, <2>2 DEF Lost
    <3>2. QED
      BY <1>5, <3>1, OneMoreLost, FaultBound DEF Fault
  <2>4. Bound'
    BY <1>1, <1>2, <1>5 DEF Bound
  <2>5. TypeOK'
    BY <1>1, <1>5, <2>1, <2>2, FaultBound DEF TypeOK
  <2>6. QED
    BY <2>1, <2>2, <2>3, <2>4, <2>5
<1>6. ASSUME Release(h, Idle), UNCHANGED <<tp, conv, fidOf, faults>>
      PROVE  IInv'
  <2>1. /\ th' \in [Thread -> ThreadState] /\ sess' = None /\ WaitsGoOn
        /\ HandshakeAlone' /\ AttachedToNamed' /\ DialsNewPeer' /\ AccessSeesNames'
        /\ lock # None => th'[lock].at = th[lock].at
    BY <1>4, <1>6
  <2>2. TypeOK'
    BY <1>1, <1>6, <2>1 DEF TypeOK
  <2>3. QED
    BY <1>1, <1>6, <2>1, <2>2, NodeKept
<1>7. ~NoneFree => FirstFree \in Slot /\ conv[FirstFree].ctl = "free"
  BY DEF NoneFree, FirstFree
<1>8. QED
  <2>1. \/ \E f \in Fid :
             /\ ~NoneFree
             /\ conv' = Taken(FirstFree, meshPeer) /\ fidOf' = [fidOf EXCEPT ![f] = FirstFree]
             /\ tp' = [connected |-> TRUE, fid |-> f, slot |-> FirstFree, peer |-> meshPeer]
             /\ th' = [th EXCEPT ![h] = [@ EXCEPT !.at = "call", !.call = "version"]]
             /\ UNCHANGED <<sess, faults>>
        \/ \E f \in Fid :
             /\ ~NoneFree /\ MayFail /\ Fault
             /\ conv' \in {conv, Taken(FirstFree, None), Taken(FirstFree, meshPeer)}
             /\ fidOf' \in {fidOf, [fidOf EXCEPT ![f] = FirstFree]}
             /\ Release(h, Idle) /\ UNCHANGED tp
        \/ Release(h, Idle) /\ UNCHANGED <<tp, conv, fidOf, faults>>
    BY DEF Dial, node
  <2>2. QED
    BY <1>3, <1>5, <1>6, <1>7, <2>1

LEMMA AccessKeeps ==
  ASSUME IInv, NEW h \in Thread, Access(h)
  PROVE  IInv'
<1> USE DEF IInv
<1>1. /\ UNCHANGED <<meshPeer, attached, tp, lock, txbuf, sem, pump, conv, fidOf, srv, air, calls, faults, cut>>
      /\ ops' \in 0 .. MaxOps
  BY MountAssumption DEF Access, Begin, transport, node, mesh, history, TypeOK
<1>2. th[h].at = "idle" /\ sess = None /\ meshPeer \in Peer
  BY DEF Access, Begin, TypeOK
<1>3. /\ \/ attached /\ sess' = sess /\ Goes(h, "call", "use", {meshPeer})
         \/ ~attached /\ sess' = h /\ Goes(h, "connect", th[h].call, {meshPeer})
  <2>1. th[h] \in ThreadState
    BY DEF TypeOK
  <2>2. CASE attached
    <3>1. ASSUME NEW t, t = [[th[h] EXCEPT !.seen = {meshPeer}] EXCEPT !.at = "call", !.call = "use"]
          PROVE  /\ t \in ThreadState /\ t.at = "call" /\ t.call = "use"
                 /\ t.seen = {meshPeer} /\ t.id = th[h].id
      BY <1>2, <2>1, <3>1 DEF ThreadState, Call
    <3>2. QED
      BY <2>2, <3>1, GoesTo DEF Access
  <2>3. CASE ~attached
    <3>1. ASSUME NEW t, t = [[th[h] EXCEPT !.seen = {meshPeer}] EXCEPT !.at = "connect"]
          PROVE  /\ t \in ThreadState /\ t.at = "connect" /\ t.call = th[h].call
                 /\ t.seen = {meshPeer} /\ t.id = th[h].id
      BY <1>2, <2>1, <3>1 DEF ThreadState
    <3>2. QED
      BY <2>3, <3>1, GoesTo DEF Access
  <2>4. QED
    BY <2>2, <2>3
<1>4. WaitsGoOn /\ (lock # None => th'[lock].at = th[lock].at)
  BY <1>1, <1>2, <1>3, GoesOn, HolderStays
<1>5. TypeOK'
  BY <1>1, <1>3 DEF TypeOK, Goes
<1>6. AttachedToNamed' /\ DialsNewPeer'
  BY <1>1 DEF AttachedToNamed, DialsNewPeer
<1>7. HandshakeAlone'
  BY <1>1, <1>2, <1>3, MountAssumption DEF HandshakeAlone, Making, Goes
<1>8. AccessSeesNames'
  BY <1>1, <1>2, <1>3 DEF AccessSeesNames, AttachedToNamed, Goes
<1>9. QED
  BY <1>1, <1>4, <1>5, <1>6, <1>7, <1>8, NodeKept

LEMMA SetPeerKeeps ==
  ASSUME IInv, NEW h \in Thread, NEW p \in Peer \cup {None}, SetPeer(h, p)
  PROVE  IInv'
<1> USE DEF IInv
<1>1. /\ UNCHANGED <<sess, tp, lock, txbuf, sem, pump, conv, fidOf, srv, air, calls, faults, cut>>
      /\ meshPeer' = p /\ ~attached' /\ attached' \in BOOLEAN /\ sess = None
      /\ ops' \in 0 .. MaxOps
  <2>1. Begin(h) /\ UNCHANGED <<sess, transport, pump, node, mesh, calls, history>>
    BY DEF SetPeer
  <2>2. meshPeer' = p /\ attached' = FALSE /\ sess = None
    BY DEF SetPeer
  <2>3. ops' \in 0 .. MaxOps
    BY <2>1, MountAssumption DEF Begin, TypeOK
  <2>4. QED
    BY <2>1, <2>2, <2>3 DEF transport, node, mesh, history
<1>2. \A g \in Thread : ~Making(g)
  BY <1>1, MountAssumption DEF HandshakeAlone
<1>3. /\ th' \in [Thread -> ThreadState]
      /\ th'[h].at = "drop" /\ th'[h].id = 0 /\ th'[h].call = "use"
      /\ \A g \in Thread : g # h =>
           /\ th'[g].at = th[g].at /\ th'[g].call = th[g].call /\ th'[g].id = th[g].id
           /\ th'[g].tag = th[g].tag
           /\ th[g].at # "idle" => th'[g].seen = th[g].seen \cup ({p} \ {None})
  <2>1. ASSUME NEW g \in Thread, NEW t,
               t = [th[g] EXCEPT !.seen = IF th[g].at = "idle" THEN {} ELSE @ \cup ({p} \ {None})]
        PROVE  /\ t \in ThreadState
               /\ t.at = th[g].at /\ t.call = th[g].call /\ t.id = th[g].id /\ t.tag = th[g].tag
               /\ th[g].at # "idle" => t.seen = th[g].seen \cup ({p} \ {None})
    <3>1. th[g] \in ThreadState
      BY DEF TypeOK
    <3>2. QED
      BY <2>1, <3>1 DEF ThreadState
  <2>2. ASSUME NEW t, t = [Idle EXCEPT !.at = "drop"]
        PROVE  t \in ThreadState /\ t.at = "drop" /\ t.id = 0 /\ t.call = "use"
    BY <2>2 DEF Idle, ThreadState, Call
  <2>3. th' = [g \in Thread |->
                IF g = h THEN [Idle EXCEPT !.at = "drop"]
                ELSE [th[g] EXCEPT !.seen = IF th[g].at = "idle" THEN {} ELSE @ \cup ({p} \ {None})]]
    BY DEF SetPeer
  <2>4. QED
    BY <2>1, <2>2, <2>3
<1>4. WaitsGoOn /\ (lock # None => th'[lock].at = th[lock].at)
  <2>1. lock # h /\ (lock # None => lock \in Thread)
    BY MountAssumption DEF SetPeer, Begin, Bound, TypeOK
  <2>2. QED
    BY <1>1, <1>3, <2>1 DEF WaitsGoOn
<1>5. TypeOK'
  BY <1>1, <1>3 DEF TypeOK
<1>6. AttachedToNamed' /\ DialsNewPeer'
  BY <1>1 DEF AttachedToNamed, DialsNewPeer
<1>7. HandshakeAlone'
  BY <1>1, <1>2, <1>3 DEF HandshakeAlone, Making
<1>8. AccessSeesNames'
  BY <1>1, <1>3 DEF AccessSeesNames
<1>9. QED
  BY <1>1, <1>4, <1>5, <1>6, <1>7, <1>8, NodeKept

LEMMA DownKeeps ==
  ASSUME IInv, NEW h \in Thread, Down(h)
  PROVE  IInv'
<1> USE DEF IInv
<1>1. /\ UNCHANGED <<sess, meshPeer, tp, lock, txbuf, sem, pump, conv, fidOf, srv, air, ops, calls, faults, cut>>
      /\ ~attached' /\ attached' \in BOOLEAN /\ th[h].at = "down"
  BY DEF Down, transport, node, mesh, history
<1>2. Goes(h, "drop", th[h].call, th[h].seen)
  BY GoesAt DEF Down, Place, TypeOK, ThreadState
<1>3. WaitsGoOn /\ (lock # None => th'[lock].at = th[lock].at)
  BY <1>1, <1>2, GoesOn, HolderStays
<1>4. TypeOK'
  BY <1>1, <1>2 DEF TypeOK, Goes
<1>5. AttachedToNamed' /\ DialsNewPeer'
  BY <1>1 DEF AttachedToNamed, DialsNewPeer
<1>6. HandshakeAlone'
  BY <1>1, <1>2 DEF HandshakeAlone, Making, Goes
<1>7. AccessSeesNames'
  BY <1>1, <1>2 DEF AccessSeesNames, Goes
<1>8. QED
  BY <1>1, <1>3, <1>4, <1>5, <1>6, <1>7, NodeKept

-----------------------------------------------------------------------------
(* The nested client                                                         *)

LEMMA SendKeeps ==
  ASSUME IInv, NEW h \in Thread, Send(h)
  PROVE  IInv'
<1> USE DEF IInv
<1> DEFINE tag == IF th[h].call = "version" THEN 0 ELSE calls + 1
<1>1. /\ UNCHANGED <<sess, meshPeer, attached, tp, lock, pump, conv, fidOf, srv, air, ops, faults, cut>>
      /\ sem' = 1 /\ calls' = calls + 1 /\ th[h].at = "call"
      /\ txbuf' = [op |-> th[h].call, tag |-> tag, id |-> calls + 1]
  BY DEF Send, node, mesh, history
<1>2. /\ th[h].call \in Call /\ tag \in Nat /\ calls \in Nat
      /\ \A g \in Thread : th[g].id \in Nat
  BY DEF TypeOK, ThreadState
<1>3. /\ th' \in [Thread -> ThreadState]
      /\ \A g \in Thread : g # h => th'[g] = th[g]
      /\ th'[h].at = "wait" /\ th'[h].call = th[h].call /\ th'[h].seen = th[h].seen
      /\ th'[h].tag = tag /\ th'[h].id = calls + 1
  <2>1. th[h] \in ThreadState
    BY DEF TypeOK
  <2>2. th' = [th EXCEPT ![h] = [th[h] EXCEPT !.at = "wait", !.tag = tag, !.id = calls + 1]]
    BY DEF Send
  <2> HIDE DEF tag
  <2>3. th'[h] = [th[h] EXCEPT !.at = "wait", !.tag = tag, !.id = calls + 1]
    BY <2>2 DEF TypeOK
  <2>4. calls + 1 \in Nat
    BY <1>2
  <2>5. /\ th'[h] \in ThreadState
        /\ th'[h].at = "wait" /\ th'[h].call = th[h].call /\ th'[h].seen = th[h].seen
        /\ th'[h].tag = tag /\ th'[h].id = calls + 1
    BY <1>2, <2>1, <2>3, <2>4 DEF ThreadState
  <2>6. QED
    BY <2>2, <2>5 DEF TypeOK
<1>4. TypeOK'
  <2>1. txbuf' \in [op : Call \cup {"none"}, tag : Nat, id : Nat]
    BY <1>1, <1>2
  <2>2. QED
    BY <1>1, <1>2, <1>3, <2>1 DEF TypeOK
<1>5. OneLeakAFault' /\ Bound' /\ Pumping' /\ QueuePeers' /\ AttachedToNamed' /\ DialsNewPeer'
  <2>1. OneLeakAFault'
    <3>1. Lost' = Lost
      BY <1>1 DEF Lost
    <3>2. QED
      BY <1>1, <3>1, NoMoreLost, FaultBound
  <2>2. Bound'
    <3>1. lock # None => lock # h
      BY <1>1 DEF Bound
    <3>2. lock # None => th'[lock].at = th[lock].at
      BY <1>3, <3>1 DEF TypeOK
    <3>3. QED
      BY <1>1, <3>2 DEF Bound
  <2>3. Pumping'
    BY <1>1, <1>2 DEF Pumping, TypeOK, PumpState
  <2>4. QueuePeers' /\ AttachedToNamed' /\ DialsNewPeer'
    BY <1>1 DEF QueuePeers, AttachedToNamed, DialsNewPeer
  <2>5. QED
    BY <2>1, <2>2, <2>3, <2>4
<1>6. HandshakeAlone'
  BY <1>1, <1>3 DEF HandshakeAlone, Making
<1>7. AccessSeesNames'
  BY <1>1, <1>3 DEF AccessSeesNames
<1>8. Numbered'
  BY <1>1, <1>2, <1>3 DEF Numbered, TagOf
<1>9. MessagesMatch'
  <2>1. ASSUME NEW d \in Datagram, Answers(d)
        PROVE  Answers(d)'
    <3>1. d.id \in Nat
      BY DEF Datagram
    <3>2. QED
      BY <1>1, <1>2, <1>3, <2>1, <3>1 DEF Answers, Asks
  <2>2. ASSUME NEW r \in Seq(Datagram), AllAnswer(r)
        PROVE  AllAnswer(r)'
    <3>1. \A i \in 1 .. Len(r) : r[i] \in Datagram
      OBVIOUS
    <3>2. QED
      BY <2>1, <2>2, <3>1 DEF AllAnswer
  <2>3. Asks(txbuf.op, txbuf.tag, txbuf.id)'
    BY <1>1, <1>2, <1>3 DEF Asks, Numbered, TagOf
  <2>4. ASSUME NEW rb, pump' = pump, rb = pump.rb
        PROVE  pump'.at = "deliver" => Answers(rb)'
    BY <2>1, <2>4 DEF MessagesMatch, TypeOK, PumpState
  <2>5. ASSUME NEW a, a = air, NEW c, c = conv
        PROVE  (\A p \in Peer : AllAnswer(a[p])') /\ (\A s \in Slot : AllAnswer(c[s].q)')
    BY <2>2, <2>5 DEF MessagesMatch, TypeOK, ConvState
  <2>6. QED
    BY <1>1, <2>3, <2>4, <2>5 DEF MessagesMatch
<1>10. PumpSees'
  <2>1. ASSUME NEW t \in Nat, t <= calls, NEW p, Seen(t, p)
        PROVE  SeenNext(t, p)
    BY <1>1, <1>2, <1>3, <2>1 DEF Seen, SeenNext
  <2>2. pump.want \in Nat /\ pump.want <= calls
    BY DEF Pumping, TypeOK, PumpState
  <2>3. ASSUME NEW p, Seen(pump.want, p)
        PROVE  SeenNext(pump.want, p)
    BY <2>1, <2>2, <2>3
  <2>4. QED
    BY <1>1, <2>3 DEF PumpSees, Reaches, Seen, SeenNext
<1>11. QED
  BY <1>4, <1>5, <1>6, <1>7, <1>8, <1>9, <1>10

(* The end of a call, whether the reply or the timeout ends it.              *)
LEMMA ReturnedKeeps ==
  ASSUME IInv, NEW h \in Thread, NEW ok \in BOOLEAN, Returned(h, ok), th[h].at = "wait",
         UNCHANGED <<meshPeer, tp, calls, cut>>
  PROVE  /\ th' \in [Thread -> ThreadState]
         /\ sess' \in Thread \cup {None} /\ attached' \in BOOLEAN
         /\ HandshakeAlone' /\ AttachedToNamed' /\ DialsNewPeer' /\ AccessSeesNames'
         /\ WaitsGoOn /\ (lock # None => th'[lock].at = th[lock].at)
<1> USE DEF IInv
<1>1. /\ th[h].call # "use" => sess = h /\ ~attached
      /\ th[h].call \in Call /\ sess \in Thread \cup {None} /\ attached \in BOOLEAN
  BY DEF HandshakeAlone, Making, TypeOK, ThreadState
<1>2. CASE th[h].call = "version" /\ ok
  <2>1. Goes(h, "call", "attach", th[h].seen) /\ UNCHANGED <<sess, attached>>
    BY <1>2, GoesAt DEF Returned, Place, Call
  <2>2. HandshakeAlone' /\ AttachedToNamed' /\ DialsNewPeer' /\ AccessSeesNames'
    BY <1>1, <1>2, <2>1
    DEF HandshakeAlone, Making, AttachedToNamed, DialsNewPeer, AccessSeesNames, Goes
  <2>3. QED
    BY <1>1, <2>1, <2>2, GoesOn, HolderStays DEF Goes
<1>3. CASE th[h].call = "attach" /\ ok
  <2>1. Goes(h, "call", "use", th[h].seen) /\ sess' = None /\ attached'
    BY <1>3, GoesAt DEF Returned, Release, Place, Call
  <2>2. AttachedToNamed' /\ DialsNewPeer'
    BY <1>3 DEF HandshakeAlone, Making, AttachedToNamed, DialsNewPeer
  <2>3. HandshakeAlone'
    BY <1>1, <1>3, <2>1, MountAssumption DEF HandshakeAlone, Making, Goes
  <2>4. AccessSeesNames'
    BY <1>1, <1>3, <2>1 DEF HandshakeAlone, Making, AccessSeesNames, Goes
  <2>5. attached' \in BOOLEAN
    BY <1>3 DEF Returned
  <2>6. QED
    BY <2>1, <2>2, <2>3, <2>4, <2>5, GoesOn, HolderStays DEF Goes
<1>4. CASE th[h].call # "use" /\ ~ok
  <2>1. Goes(h, "idle", "use", {}) /\ sess' = None /\ attached' = attached
    BY <1>1, <1>4, GoesHome DEF Returned, Release
  <2>2. HandshakeAlone' /\ AttachedToNamed' /\ DialsNewPeer' /\ AccessSeesNames'
    BY <1>1, <1>4, <2>1
    DEF HandshakeAlone, Making, AttachedToNamed, DialsNewPeer, AccessSeesNames, Goes
  <2>3. QED
    BY <1>1, <2>1, <2>2, GoesOn, HolderStays DEF Goes
<1>5. CASE th[h].call = "use"
  <2>1. /\ Goes(h, "idle", "use", {}) \/ Goes(h, "down", "use", {})
        /\ UNCHANGED <<sess, attached>>
    <3>1. /\ \/ th' = [th EXCEPT ![h] = Idle]
             \/ th' = [th EXCEPT ![h] = [Idle EXCEPT !.at = "down"]]
          /\ UNCHANGED <<sess, attached>>
      BY <1>5 DEF Returned
    <3>2. QED
      BY <3>1, GoesHome, GoesIdle DEF Place
  <2>2. HandshakeAlone' /\ AttachedToNamed' /\ DialsNewPeer' /\ AccessSeesNames'
    BY <1>1, <1>5, <2>1
    DEF HandshakeAlone, Making, AttachedToNamed, DialsNewPeer, AccessSeesNames, Goes
  <2>3. QED
    BY <1>1, <2>1, <2>2, GoesOn, HolderStays DEF Goes
<1>6. QED
  BY <1>1, <1>2, <1>3, <1>4, <1>5 DEF Call

LEMMA TimeoutKeeps ==
  ASSUME IInv, NEW h \in Thread, Timeout(h)
  PROVE  IInv'
<1> USE DEF IInv
<1>1. /\ UNCHANGED <<meshPeer, tp, lock, txbuf, sem, pump, conv, fidOf, srv, air, ops, calls, cut>>
      /\ th[h].at = "wait" /\ Returned(h, FALSE)
  BY DEF Timeout, transport, node, mesh
<1>2. faults' = faults \/ (MayFail /\ Fault)
  BY DEF Timeout, Fault
<1>3. /\ th' \in [Thread -> ThreadState] /\ sess' \in Thread \cup {None} /\ attached' \in BOOLEAN
      /\ HandshakeAlone' /\ AttachedToNamed' /\ DialsNewPeer' /\ AccessSeesNames'
      /\ WaitsGoOn /\ (lock # None => th'[lock].at = th[lock].at)
  BY <1>1, ReturnedKeeps
<1>4. TypeOK'
  BY <1>1, <1>2, <1>3, FaultBound DEF TypeOK
<1>5. QED
  BY <1>1, <1>2, <1>3, <1>4, NodeKept

-----------------------------------------------------------------------------
(* The pump                                                                  *)

LEMMA PumpTakeKeeps ==
  ASSUME IInv, PumpTake
  PROVE  IInv'
<1> USE DEF IInv
<1>1. /\ UNCHANGED <<th, sess, meshPeer, attached, tp, lock, txbuf, conv, fidOf>>
      /\ UNCHANGED <<srv, air, ops, calls, faults, cut>>
      /\ sem' = 0 /\ sem = 1 /\ pump.at = "wait"
  BY DEF PumpTake, node, mesh, history
<1>2. txbuf.tag \in Nat /\ txbuf.tag <= calls /\ calls \in Nat
  BY <1>1 DEF TypeOK, MessagesMatch, Asks, TagOf
<1>3. HandshakeAlone' /\ AttachedToNamed' /\ DialsNewPeer' /\ AccessSeesNames' /\ Numbered' /\ WaitsGoOn
  BY <1>1, SessionKept
<1>4. pump' \in PumpState /\ Pumping' /\ PumpSees' /\ pump'.at # "deliver"
  <2>1. CASE tp.connected
    <3>1. /\ tp.fid \in Fid /\ tp.fid # None
          /\ fidOf[tp.fid] # None => conv[fidOf[tp.fid]].peer = tp.peer
      BY <2>1 DEF Bound, TypeOK, TransportState
    <3>2. pump' = [Sleeping EXCEPT !.at = "write", !.fid = tp.fid, !.want = txbuf.tag]
      BY <2>1 DEF PumpTake
    <3>3. pump' \in PumpState /\ pump'.at = "write" /\ pump'.fid = tp.fid /\ pump'.want = txbuf.tag
      BY <1>2, <3>1, <3>2, SleepingType DEF PumpState
    <3>4. Pumping'
      BY <1>1, <1>2, <3>1, <3>3 DEF Pumping
    <3>5. Seen(txbuf.tag, tp.peer)
      BY <2>1 DEF Seen, AccessSeesNames
    <3>6. PumpSees'
      BY <1>1, <3>1, <3>3, <3>5 DEF PumpSees, Reaches, Seen
    <3>7. QED
      BY <3>3, <3>4, <3>6
  <2>2. CASE ~tp.connected
    <3>1. pump' \in PumpState /\ pump'.at = "wait" /\ pump'.want = 0
      BY <2>2, SleepingType DEF PumpTake
    <3>2. QED
      BY <1>1, <1>2, <3>1 DEF Pumping, PumpSees
  <2>3. QED
    BY <2>1, <2>2
<1>5. TypeOK'
  BY <1>1, <1>4 DEF TypeOK
<1>6. OneLeakAFault' /\ Bound'
  BY <1>1, OwnersKept
<1>7. QueuePeers' /\ MessagesMatch'
  BY <1>1, <1>3, <1>4, MatchKept DEF MessagesMatch, QueuePeers
<1>8. QED
  BY <1>3, <1>4, <1>5, <1>6, <1>7

(* The request that the pump sends to a peer is answered for whoever waits.    *)
LEMMA ServeAnswers ==
  ASSUME IInv, pump.at = "write", NEW p \in Peer, Serve(p)
  PROVE  /\ srv' \in [Peer -> BOOLEAN] /\ air' \in [Peer -> Seq(Datagram)]
         /\ \A r \in Peer : AllAnswer(air'[r]) /\ AllFrom(air'[r], r)
<1> DEFINE ok == txbuf.op # "use" \/ srv[p]
           d == [op |-> txbuf.op, tag |-> txbuf.tag, id |-> txbuf.id, ok |-> ok, peer |-> p]
<1>1. d \in Datagram /\ d.peer = p
  BY DEF IInv, TypeOK, Datagram
<1>2. Answers(d)
  BY DEF IInv, MessagesMatch, Answers, Asks
<1>3. /\ air' = [air EXCEPT ![p] = Append(air[p], d)]
      /\ srv' = [srv EXCEPT ![p] = txbuf.op = "attach" \/ (txbuf.op = "use" /\ srv[p])]
  BY DEF Serve
<1> HIDE DEF d
<1>4. \A r \in Peer : air[r] \in Seq(Datagram) /\ AllAnswer(air[r]) /\ AllFrom(air[r], r)
  BY DEF IInv, TypeOK, MessagesMatch, QueuePeers
<1>5. /\ Append(air[p], d) \in Seq(Datagram) /\ AllAnswer(Append(air[p], d))
      /\ AllFrom(Append(air[p], d), p)
  BY <1>1, <1>2, <1>4, AppendType, AppendAnswers, AppendFrom
<1>6. srv' \in [Peer -> BOOLEAN]
  BY <1>3 DEF IInv, TypeOK
<1>7. QED
  BY <1>3, <1>4, <1>5, <1>6 DEF IInv, TypeOK

LEMMA PumpWriteKeeps ==
  ASSUME IInv, PumpWrite
  PROVE  IInv'
<1> USE DEF IInv
<1>1. /\ UNCHANGED <<th, sess, meshPeer, attached, tp, lock, txbuf, sem, conv, fidOf, ops, calls, cut>>
      /\ pump.at = "write"
  BY DEF PumpWrite, transport, node
<1>2. ASSUME Reaches # None, conv[Reaches].peer # None
      PROVE  conv[Reaches].peer \in Peer
  BY <1>1, <1>2 DEF Reaches, Pumping, TypeOK, PumpState, ConvState
<1>3. /\ srv' \in [Peer -> BOOLEAN] /\ air' \in [Peer -> Seq(Datagram)]
      /\ \A r \in Peer : AllAnswer(air'[r]) /\ AllFrom(air'[r], r)
  <2>1. CASE UNCHANGED mesh
    BY <2>1 DEF mesh, TypeOK, MessagesMatch, QueuePeers
  <2>2. CASE Reaches # None /\ conv[Reaches].peer # None /\ Serve(conv[Reaches].peer)
    BY <1>1, <1>2, <2>2, ServeAnswers
  <2>3. QED
    BY <2>1, <2>2 DEF PumpWrite
<1>4. Onward(pump')
  <2>1. ASSUME NEW t, t = [pump EXCEPT !.at = "read"]
        PROVE  Onward(t)
    BY <2>1 DEF TypeOK, PumpState, Onward
  <2>2. pump' = Again \/ pump' = [pump EXCEPT !.at = "read"]
    BY DEF PumpWrite
  <2>3. QED
    BY <2>1, <2>2, AgainType
<1>5. faults' = faults \/ (MayFail /\ Fault)
  BY DEF PumpWrite, history
<1>6. HandshakeAlone' /\ AttachedToNamed' /\ DialsNewPeer' /\ AccessSeesNames' /\ Numbered' /\ WaitsGoOn
  BY <1>1, SessionKept
<1>7. pump' \in PumpState /\ Pumping'
  BY <1>1, <1>4, PumpingKept
<1>8. PumpSees'
  BY <1>1, <1>4, <1>6, PumpSeesKept DEF Talks
<1>9. TypeOK'
  BY <1>1, <1>3, <1>5, <1>7, FaultBound DEF TypeOK
<1>10. OneLeakAFault' /\ Bound'
  BY <1>1, <1>5, OwnersKept
<1>11. QueuePeers'
  BY <1>1, <1>3 DEF QueuePeers
<1>12. MessagesMatch'
  BY <1>1, <1>3, <1>4, <1>6, MatchKept DEF MessagesMatch, Onward
<1>13. QED
  BY <1>6, <1>7, <1>8, <1>9, <1>10, <1>11, <1>12

LEMMA PumpReadKeeps ==
  ASSUME IInv, PumpRead
  PROVE  IInv'
<1> USE DEF IInv
<1>1. /\ UNCHANGED <<th, sess, meshPeer, attached, tp, lock, txbuf, sem, conv, fidOf>>
      /\ UNCHANGED <<srv, air, ops, calls, faults, cut>>
      /\ pump.at = "read" /\ pump \in PumpState /\ pump.fid \in Fid
  BY DEF PumpRead, transport, node, mesh, history, TypeOK, Pumping, PumpState
<1>2. HandshakeAlone' /\ AttachedToNamed' /\ DialsNewPeer' /\ AccessSeesNames' /\ Numbered' /\ WaitsGoOn
  BY <1>1, SessionKept
<1>3. pump' \in PumpState /\ Pumping' /\ PumpSees' /\ pump'.at # "deliver"
  <2>1. CASE pump' = Poll
    <3>1. Onward(pump')
      BY <2>1, PollType
    <3>2. pump' \in PumpState /\ Pumping'
      BY <1>1, <3>1, PumpingKept
    <3>3. PumpSees'
      BY <1>1, <1>2, <3>1, PumpSeesKept DEF Talks
    <3>4. QED
      BY <3>1, <3>2, <3>3 DEF Onward
  <2>2. CASE /\ Reaches # None /\ conv[Reaches].ctl # "free"
             /\ pump' = [pump EXCEPT !.at = "block", !.slot = Reaches]
    <3>1. Reaches \in Slot
      BY <1>1, <2>2 DEF Reaches, TypeOK
    <3>2. /\ pump' \in PumpState /\ pump'.at = "block" /\ pump'.slot = Reaches
          /\ pump'.fid = pump.fid /\ pump'.want = pump.want
      BY <1>1, <2>2, <3>1 DEF PumpState
    <3>3. Pumping'
      BY <1>1, <2>2, <3>2 DEF Pumping
    <3>4. Seen(pump.want, conv[Reaches].peer)
      BY <1>1, <2>2 DEF PumpSees
    <3>5. PumpSees'
      BY <1>1, <3>2, <3>4 DEF PumpSees, Seen, Reaches
    <3>6. QED
      BY <3>2, <3>3, <3>5
  <2>3. QED
    BY <2>1, <2>2 DEF PumpRead
<1>4. TypeOK'
  BY <1>1, <1>3 DEF TypeOK
<1>5. OneLeakAFault' /\ Bound'
  BY <1>1, OwnersKept
<1>6. QueuePeers' /\ MessagesMatch'
  BY <1>1, <1>2, <1>3, MatchKept DEF MessagesMatch, QueuePeers
<1>7. QED
  BY <1>2, <1>3, <1>4, <1>5, <1>6

LEMMA PumpGotKeeps ==
  ASSUME IInv, PumpGot
  PROVE  IInv'
<1> USE DEF IInv
<1> DEFINE s == pump.slot
<1>1. /\ UNCHANGED <<th, sess, meshPeer, attached, tp, lock, txbuf, sem, fidOf>>
      /\ UNCHANGED <<srv, air, ops, calls, faults, cut>>
      /\ pump.at = "block" /\ pump \in PumpState
  BY DEF PumpGot, transport, mesh, history, TypeOK
<1>2. s \in Slot
  BY <1>1 DEF Pumping, PumpState
<1>3. /\ conv[s].q # <<>>
      /\ conv' = [conv EXCEPT ![s].q = Tail(conv[s].q)]
      /\ \/ /\ Head(conv[s].q).tag = pump.want
            /\ pump' = [pump EXCEPT !.at = "deliver", !.rb = Head(conv[s].q)]
         \/ pump' = Poll
  BY DEF PumpGot
<1>4. Seen(pump.want, conv[s].peer)
  BY <1>1 DEF PumpSees
<1> HIDE DEF s
<1>5. /\ conv[s] \in ConvState /\ conv[s].q \in Seq(Datagram)
      /\ AllAnswer(conv[s].q) /\ AllFrom(conv[s].q, conv[s].peer)
  BY <1>2 DEF TypeOK, ConvState, MessagesMatch, QueuePeers
<1>6. /\ Head(conv[s].q) \in Datagram /\ Answers(Head(conv[s].q)) /\ Head(conv[s].q).peer = conv[s].peer
      /\ Tail(conv[s].q) \in Seq(Datagram) /\ AllAnswer(Tail(conv[s].q))
      /\ AllFrom(Tail(conv[s].q), conv[s].peer)
  BY <1>3, <1>5, TailType, TailAnswers, TailFrom
<1>a. Head(conv[s].q).peer # None
  BY <1>3, <1>5, <1>6, TailFrom, MountAssumption
<1>7. /\ conv' \in [Slot -> ConvState]
      /\ \A r \in Slot : /\ conv'[r].peer = conv[r].peer /\ conv'[r].ctl = conv[r].ctl
                         /\ AllAnswer(conv'[r].q) /\ AllFrom(conv'[r].q, conv[r].peer)
  <2>1. \A r \in Slot : r # s => conv'[r] = conv[r]
    BY <1>3 DEF TypeOK
  <2>2. conv'[s] = [conv[s] EXCEPT !.q = Tail(conv[s].q)]
    BY <1>2, <1>3 DEF TypeOK
  <2>3. /\ conv'[s] \in ConvState /\ conv'[s].peer = conv[s].peer /\ conv'[s].ctl = conv[s].ctl
        /\ conv'[s].q = Tail(conv[s].q)
    BY <1>5, <1>6, <2>2 DEF ConvState
  <2>4. conv' \in [Slot -> ConvState]
    BY <1>3, <2>1, <2>3 DEF TypeOK
  <2>5. QED
    BY <1>6, <2>1, <2>3, <2>4 DEF MessagesMatch, QueuePeers
<1>8. HandshakeAlone' /\ AttachedToNamed' /\ DialsNewPeer' /\ AccessSeesNames' /\ Numbered' /\ WaitsGoOn
  BY <1>1, SessionKept
<1>9. /\ pump' \in PumpState /\ Pumping' /\ PumpSees'
      /\ pump'.at = "deliver" => Answers(pump'.rb)
  <2>1. CASE pump' = Poll
    <3>1. Onward(pump')
      BY <2>1, PollType
    <3>2. pump' \in PumpState /\ Pumping'
      BY <1>1, <3>1, PumpingKept
    <3>3. PumpSees'
      BY <1>1, <1>7, <1>8, <3>1, PumpSeesKept DEF Talks
    <3>4. QED
      BY <3>1, <3>2, <3>3 DEF Onward
  <2>2. CASE /\ Head(conv[s].q).tag = pump.want
             /\ pump' = [pump EXCEPT !.at = "deliver", !.rb = Head(conv[s].q)]
    <3>1. /\ pump' \in PumpState /\ pump'.at = "deliver" /\ pump'.rb = Head(conv[s].q)
          /\ pump'.fid = pump.fid /\ pump'.want = pump.want
      BY <1>1, <1>6, <2>2 DEF PumpState
    <3>2. Pumping'
      BY <1>1, <3>1 DEF Pumping
    <3>3. PumpSees'
      BY <1>1, <1>4, <1>6, <1>a, <2>2, <3>1 DEF PumpSees, Seen
    <3>4. QED
      BY <1>6, <3>1, <3>2, <3>3
  <2>3. QED
    BY <1>3, <2>1, <2>2
<1>10. TypeOK'
  BY <1>1, <1>7, <1>9 DEF TypeOK
<1>11. OneLeakAFault' /\ Bound'
  BY <1>1, <1>7, OwnersKept
<1>12. QueuePeers' /\ MessagesMatch'
  BY <1>1, <1>7, <1>8, <1>9, MatchKept DEF MessagesMatch, QueuePeers
<1>13. QED
  BY <1>8, <1>9, <1>10, <1>11, <1>12

LEMMA ExpireKeeps ==
  ASSUME IInv, Expire
  PROVE  IInv'
<1> USE DEF IInv
<1> DEFINE s == pump.slot
<1>1. /\ UNCHANGED <<th, sess, meshPeer, attached, tp, lock, txbuf, sem, fidOf, srv, air, ops, calls, cut>>
      /\ pump.at = "block" /\ Onward(pump')
  BY PollType DEF Expire, transport, mesh
<1>2. s \in Slot
  BY <1>1 DEF Pumping, TypeOK, PumpState
<1>3. conv' = [conv EXCEPT ![s].parked = conv[s].parked + 1]
  BY DEF Expire
<1> HIDE DEF s
<1>4. faults' = faults \/ (MayFail /\ Fault)
  BY DEF Expire, Fault
<1>5. /\ conv' \in [Slot -> ConvState]
      /\ \A r \in Slot : /\ conv'[r].peer = conv[r].peer /\ conv'[r].ctl = conv[r].ctl
                         /\ conv'[r].q = conv[r].q
  <2>1. conv[s] \in ConvState
    BY <1>2 DEF TypeOK
  <2>2. \A r \in Slot : r # s => conv'[r] = conv[r]
    BY <1>3 DEF TypeOK
  <2>3. conv'[s] = [conv[s] EXCEPT !.parked = conv[s].parked + 1]
    BY <1>2, <1>3 DEF TypeOK
  <2>4. /\ conv'[s] \in ConvState /\ conv'[s].peer = conv[s].peer /\ conv'[s].ctl = conv[s].ctl
        /\ conv'[s].q = conv[s].q
    BY <2>1, <2>3 DEF ConvState
  <2>5. conv' \in [Slot -> ConvState]
    BY <1>3, <2>2, <2>4 DEF TypeOK
  <2>6. QED
    BY <2>2, <2>4, <2>5
<1>6. HandshakeAlone' /\ AttachedToNamed' /\ DialsNewPeer' /\ AccessSeesNames' /\ Numbered' /\ WaitsGoOn
  BY <1>1, SessionKept
<1>7. pump' \in PumpState /\ Pumping'
  BY <1>1, PumpingKept
<1>8. PumpSees'
  BY <1>1, <1>5, <1>6, PumpSeesKept DEF Talks
<1>9. TypeOK'
  BY <1>1, <1>4, <1>5, <1>7, FaultBound DEF TypeOK
<1>10. OneLeakAFault' /\ Bound'
  BY <1>1, <1>4, <1>5, OwnersKept
<1>11. QueuePeers' /\ MessagesMatch'
  BY <1>1, <1>5, <1>6, MatchKept DEF MessagesMatch, QueuePeers, Onward
<1>12. QED
  BY <1>6, <1>7, <1>8, <1>9, <1>10, <1>11

LEMMA PumpDeliverKeeps ==
  ASSUME IInv, PumpDeliver
  PROVE  IInv'
<1> USE DEF IInv
<1>1. /\ UNCHANGED <<meshPeer, tp, lock, txbuf, sem, conv, fidOf, srv, air, ops, calls, faults, cut>>
      /\ pump.at = "deliver" /\ pump' = Sleeping
  BY DEF PumpDeliver, transport, node, mesh, history
<1>2. /\ th' \in [Thread -> ThreadState] /\ sess' \in Thread \cup {None} /\ attached' \in BOOLEAN
      /\ HandshakeAlone' /\ AttachedToNamed' /\ DialsNewPeer' /\ AccessSeesNames'
      /\ WaitsGoOn /\ (lock # None => th'[lock].at = th[lock].at)
  <2>1. ASSUME NEW h \in Thread, th[h].at = "wait", Returned(h, pump.rb.ok)
        PROVE  /\ th' \in [Thread -> ThreadState] /\ sess' \in Thread \cup {None}
               /\ attached' \in BOOLEAN
               /\ HandshakeAlone' /\ AttachedToNamed' /\ DialsNewPeer' /\ AccessSeesNames'
               /\ WaitsGoOn /\ (lock # None => th'[lock].at = th[lock].at)
    <3>1. pump.rb.ok \in BOOLEAN
      BY DEF TypeOK, PumpState, Datagram
    <3>2. QED
      BY <1>1, <2>1, <3>1, ReturnedKeeps
  <2>2. ASSUME UNCHANGED <<th, sess, attached>>
        PROVE  /\ th' \in [Thread -> ThreadState] /\ sess' \in Thread \cup {None}
               /\ attached' \in BOOLEAN
               /\ HandshakeAlone' /\ AttachedToNamed' /\ DialsNewPeer' /\ AccessSeesNames'
               /\ WaitsGoOn /\ (lock # None => th'[lock].at = th[lock].at)
    BY <1>1, <2>2, SessionKept DEF TypeOK
  <2>3. QED
    BY <2>1, <2>2 DEF PumpDeliver
<1>3. pump' \in PumpState /\ pump'.at = "wait" /\ pump'.want = 0
  BY <1>1, SleepingType
<1>4. TypeOK'
  BY <1>1, <1>2, <1>3 DEF TypeOK
<1>5. OneLeakAFault' /\ Bound'
  <2>1. Lost' = Lost
    BY <1>1 DEF Lost
  <2>2. Bound'
    BY <1>1, <1>2 DEF Bound
  <2>3. QED
    BY <1>1, <2>1, <2>2, NoMoreLost, FaultBound
<1>6. Numbered' /\ MessagesMatch'
  BY <1>1, <1>2, <1>3, NumberedKept, MatchKept DEF MessagesMatch
<1>7. Pumping' /\ PumpSees' /\ QueuePeers'
  BY <1>1, <1>3 DEF Pumping, PumpSees, QueuePeers, TypeOK
<1>8. QED
  BY <1>2, <1>4, <1>5, <1>6, <1>7

-----------------------------------------------------------------------------
(* The 9151 and the mesh                                                     *)

(* A reply that leaves the air, for a queue or for good.                     *)
LEMMA AirTail ==
  ASSUME IInv, NEW p \in Peer, air[p] # <<>>, air' = [air EXCEPT ![p] = Tail(air[p])]
  PROVE  /\ air' \in [Peer -> Seq(Datagram)]
         /\ \A r \in Peer : AllAnswer(air'[r]) /\ AllFrom(air'[r], r)
         /\ Head(air[p]) \in Datagram /\ Answers(Head(air[p])) /\ Head(air[p]).peer = p
<1>1. \A r \in Peer : air[r] \in Seq(Datagram) /\ AllAnswer(air[r]) /\ AllFrom(air[r], r)
  BY DEF IInv, TypeOK, MessagesMatch, QueuePeers
<1>2. /\ Head(air[p]) \in Datagram /\ Answers(Head(air[p])) /\ Head(air[p]).peer = p
      /\ Tail(air[p]) \in Seq(Datagram) /\ AllAnswer(Tail(air[p])) /\ AllFrom(Tail(air[p]), p)
  BY <1>1, TailType, TailAnswers, TailFrom
<1>3. QED
  BY <1>1, <1>2 DEF IInv, TypeOK

LEMMA ArriveKeeps ==
  ASSUME IInv, NEW p \in Peer, Arrive(p)
  PROVE  IInv'
<1> USE DEF IInv
<1>1. /\ UNCHANGED <<th, sess, meshPeer, attached, tp, lock, txbuf, sem, pump, fidOf>>
      /\ UNCHANGED <<srv, ops, calls, faults, cut>>
      /\ air[p] # <<>> /\ air' = [air EXCEPT ![p] = Tail(air[p])]
  BY DEF Arrive, transport, history
<1>2. /\ air' \in [Peer -> Seq(Datagram)]
      /\ \A r \in Peer : AllAnswer(air'[r]) /\ AllFrom(air'[r], r)
      /\ Head(air[p]) \in Datagram /\ Answers(Head(air[p])) /\ Head(air[p]).peer = p
  BY <1>1, AirTail
<1>3. /\ conv' \in [Slot -> ConvState]
      /\ \A s \in Slot : /\ conv'[s].peer = conv[s].peer /\ conv'[s].ctl = conv[s].ctl
                         /\ AllAnswer(conv'[s].q) /\ AllFrom(conv'[s].q, conv[s].peer)
  <2>1. conv' = [s \in Slot |->
                  IF conv[s].peer # p THEN conv[s]
                  ELSE IF conv[s].parked > 0 THEN [conv[s] EXCEPT !.parked = @ - 1]
                  ELSE [conv[s] EXCEPT !.q = Append(@, Head(air[p]))]]
    BY DEF Arrive
  <2>2. ASSUME NEW s \in Slot
        PROVE  /\ conv'[s] \in ConvState /\ conv'[s].peer = conv[s].peer /\ conv'[s].ctl = conv[s].ctl
               /\ AllAnswer(conv'[s].q) /\ AllFrom(conv'[s].q, conv[s].peer)
    <3>1. /\ conv[s] \in ConvState /\ conv[s].q \in Seq(Datagram)
          /\ AllAnswer(conv[s].q) /\ AllFrom(conv[s].q, conv[s].peer)
      BY DEF TypeOK, ConvState, MessagesMatch, QueuePeers
    <3>2. /\ Append(conv[s].q, Head(air[p])) \in Seq(Datagram)
          /\ AllAnswer(Append(conv[s].q, Head(air[p])))
          /\ conv[s].peer = p => AllFrom(Append(conv[s].q, Head(air[p])), conv[s].peer)
      <4>1. conv[s].peer = p => AllFrom(conv[s].q, p) /\ AllFrom(Append(conv[s].q, Head(air[p])), p)
        BY <1>2, <3>1, AppendFrom
      <4>2. QED
        BY <1>2, <3>1, <4>1, AppendType, AppendAnswers
    <3>3. \/ conv'[s] = conv[s]
          \/ conv[s].parked > 0 /\ conv'[s] = [conv[s] EXCEPT !.parked = conv[s].parked - 1]
          \/ conv[s].peer = p /\ conv'[s] = [conv[s] EXCEPT !.q = Append(conv[s].q, Head(air[p]))]
      BY <2>1
    <3>4. CASE conv[s].parked > 0 /\ conv'[s] = [conv[s] EXCEPT !.parked = conv[s].parked - 1]
      <4>1. /\ conv'[s] \in ConvState /\ conv'[s].peer = conv[s].peer /\ conv'[s].ctl = conv[s].ctl
            /\ conv'[s].q = conv[s].q
        BY <3>1, <3>4 DEF ConvState
      <4>2. QED
        BY <3>1, <4>1
    <3>5. CASE conv[s].peer = p /\ conv'[s] = [conv[s] EXCEPT !.q = Append(conv[s].q, Head(air[p]))]
      <4>1. ASSUME NEW r \in Seq(Datagram), conv'[s] = [conv[s] EXCEPT !.q = r]
            PROVE  /\ conv'[s] \in ConvState /\ conv'[s].peer = conv[s].peer
                   /\ conv'[s].ctl = conv[s].ctl /\ conv'[s].q = r
        BY <3>1, <4>1 DEF ConvState
      <4>2. QED
        BY <3>2, <3>5, <4>1
    <3>6. QED
      BY <3>1, <3>3, <3>4, <3>5
  <2>3. QED
    BY <2>1, <2>2
<1>4. HandshakeAlone' /\ AttachedToNamed' /\ DialsNewPeer' /\ AccessSeesNames' /\ Numbered' /\ WaitsGoOn
  BY <1>1, SessionKept
<1>5. TypeOK'
  BY <1>1, <1>2, <1>3 DEF TypeOK
<1>6. OneLeakAFault' /\ Bound'
  BY <1>1, <1>3, OwnersKept
<1>7. Pumping'
  BY <1>1, <1>3, PumpingKept DEF Pumping, TypeOK, PumpState
<1>8. PumpSees'
  BY <1>1, <1>3, <1>4, PumpSeesKept DEF Talks
<1>9. QueuePeers' /\ MessagesMatch'
  BY <1>1, <1>2, <1>3, <1>4, MatchKept DEF MessagesMatch, QueuePeers
<1>10. QED
  BY <1>4, <1>5, <1>6, <1>7, <1>8, <1>9

(* What the mesh does wrong leaves the relay alone.                          *)
LEMMA FaultKeeps ==
  ASSUME IInv, NEW p \in Peer, Lose(p) \/ PeerResets(p)
  PROVE  IInv'
<1> USE DEF IInv
<1>1. /\ UNCHANGED <<th, sess, meshPeer, attached, tp, lock, txbuf, sem, pump, conv, fidOf>>
      /\ UNCHANGED <<ops, calls, cut>> /\ MayFail /\ Fault
  BY DEF Lose, PeerResets, transport, node
<1>2. /\ air' \in [Peer -> Seq(Datagram)]
      /\ \A r \in Peer : AllAnswer(air'[r]) /\ AllFrom(air'[r], r)
      /\ srv' \in [Peer -> BOOLEAN]
  <2>1. CASE Lose(p)
    BY <2>1, AirTail DEF Lose, TypeOK
  <2>2. CASE PeerResets(p)
    BY <2>2 DEF PeerResets, TypeOK, MessagesMatch, QueuePeers
  <2>3. QED
    BY <2>1, <2>2
<1>3. HandshakeAlone' /\ AttachedToNamed' /\ DialsNewPeer' /\ AccessSeesNames' /\ Numbered' /\ WaitsGoOn
  BY <1>1, SessionKept
<1>4. TypeOK'
  BY <1>1, <1>2, FaultBound DEF TypeOK
<1>5. OneLeakAFault' /\ Bound'
  BY <1>1, OwnersKept
<1>6. Pumping'
  BY <1>1 DEF Pumping
<1>7. PumpSees'
  BY <1>1, <1>3, PumpSeesKept DEF Talks
<1>8. QueuePeers' /\ MessagesMatch'
  BY <1>1, <1>2, <1>3, MatchKept DEF MessagesMatch, QueuePeers
<1>9. QED
  BY <1>3, <1>4, <1>5, <1>6, <1>7, <1>8

(* The 9151 drops its fids: what they held stays taken, and of that the        *)
(* transport had one conversation.                                           *)
LEMMA FidsDroppedKeeps ==
  ASSUME IInv, FidsDropped
  PROVE  IInv'
<1> USE DEF IInv
<1>1. /\ UNCHANGED <<th, sess, meshPeer, attached, tp, lock, txbuf, sem, pump, srv, air, ops, calls, cut>>
      /\ MayFail /\ Fault
      /\ fidOf' = [f \in Fid |-> None]
      /\ conv' = [s \in Slot |-> IF conv[s].ctl = "held" THEN [conv[s] EXCEPT !.ctl = "gone"] ELSE conv[s]]
  BY DEF FidsDropped, transport, mesh
<1>2. /\ conv' \in [Slot -> ConvState]
      /\ \A s \in Slot : /\ conv'[s].peer = conv[s].peer /\ conv'[s].q = conv[s].q
                         /\ conv'[s].ctl = IF conv[s].ctl = "held" THEN "gone" ELSE conv[s].ctl
  <2>1. ASSUME NEW s \in Slot
        PROVE  /\ conv'[s] \in ConvState /\ conv'[s].peer = conv[s].peer /\ conv'[s].q = conv[s].q
               /\ conv'[s].ctl = IF conv[s].ctl = "held" THEN "gone" ELSE conv[s].ctl
    <3>1. conv[s] \in ConvState
      BY DEF TypeOK
    <3>2. conv'[s] = IF conv[s].ctl = "held" THEN [conv[s] EXCEPT !.ctl = "gone"] ELSE conv[s]
      BY <1>1
    <3>3. QED
      BY <3>1, <3>2 DEF ConvState
  <2>2. QED
    BY <1>1, <2>1
<1>3. HandshakeAlone' /\ AttachedToNamed' /\ DialsNewPeer' /\ AccessSeesNames' /\ Numbered' /\ WaitsGoOn
  BY <1>1, SessionKept
<1>4. fidOf' \in [Fid -> Slot \cup {None}] /\ \A f \in Fid : fidOf'[f] = None
  BY <1>1
<1>5. TypeOK'
  BY <1>1, <1>2, <1>4, FaultBound DEF TypeOK
<1>6. OneLeakAFault'
  <2>1. Lost' \subseteq Lost \cup {tp.slot}
    BY <1>1, <1>2 DEF Lost
  <2>2. QED
    BY <1>1, <2>1, OneMoreLost, FaultBound DEF Fault
<1>7. Bound'
  <2>1. tp.connected => tp.fid \in Fid
    BY DEF Bound, TypeOK, TransportState
  <2>2. QED
    BY <1>1, <1>4, <2>1 DEF Bound
<1>8. Pumping'
  BY <1>1, <1>2 DEF Pumping, TypeOK, PumpState
<1>9. PumpSees'
  BY <1>1, <1>2, <1>3, <1>4, PumpSeesKept DEF Talks
<1>10. QueuePeers' /\ \A s \in Slot : AllAnswer(conv'[s].q)
  BY <1>1, <1>2, QueuesKept DEF QueuePeers
<1>11. MessagesMatch'
  BY <1>1, <1>3, <1>10, MatchKept DEF MessagesMatch
<1>12. QED
  BY <1>3, <1>5, <1>6, <1>7, <1>8, <1>9, <1>10, <1>11

LEMMA NodeRebootsKeeps ==
  ASSUME IInv, NodeReboots
  PROVE  IInv'
<1> USE DEF IInv
<1>1. /\ UNCHANGED <<th, sess, meshPeer, attached, tp, lock, txbuf, sem, srv, air, ops, calls, cut>>
      /\ MayFail /\ Fault
      /\ fidOf' = [f \in Fid |-> None] /\ conv' = [s \in Slot |-> Unused] /\ pump' = Ended(Slot)
  BY DEF NodeReboots, transport, mesh
<1>2. /\ conv' \in [Slot -> ConvState]
      /\ \A s \in Slot : conv'[s].ctl = "free" /\ conv'[s].peer = None /\ conv'[s].q = <<>>
  BY <1>1, UnusedType
<1>3. HandshakeAlone' /\ AttachedToNamed' /\ DialsNewPeer' /\ AccessSeesNames' /\ Numbered' /\ WaitsGoOn
  BY <1>1, SessionKept
<1>4. fidOf' \in [Fid -> Slot \cup {None}] /\ \A f \in Fid : fidOf'[f] = None
  BY <1>1
<1>5. \/ pump' = pump /\ pump.at # "block"
      \/ pump.at = "block" /\ Onward(pump')
  BY <1>1, EndedPump DEF Pumping, TypeOK, PumpState
<1>6. pump' \in PumpState /\ Pumping'
  BY <1>1, <1>5, PumpingKept
<1>7. TypeOK'
  BY <1>1, <1>2, <1>4, <1>6, FaultBound DEF TypeOK
<1>8. OneLeakAFault'
  <2>1. Lost' \subseteq Lost
    BY <1>2 DEF Lost
  <2>2. QED
    BY <1>1, <2>1, NoMoreLost, FaultBound
<1>9. Bound'
  <2>1. tp.connected => tp.fid \in Fid
    BY DEF Bound, TypeOK, TransportState
  <2>2. QED
    BY <1>1, <1>4, <2>1 DEF Bound
<1>10. PumpSees'
  BY <1>1, <1>2, <1>3, <1>4, <1>5, PumpSeesKept DEF Talks
<1>11. QueuePeers' /\ \A s \in Slot : AllAnswer(conv'[s].q)
  BY <1>1, <1>2, QueuesKept
<1>12. MessagesMatch'
  BY <1>1, <1>3, <1>5, <1>11, MatchKept DEF MessagesMatch, Onward
<1>13. QED
  BY <1>3, <1>6, <1>7, <1>8, <1>9, <1>10, <1>11, <1>12

-----------------------------------------------------------------------------
(* The invariant                                                             *)

LEMMA InitInv == Init => IInv
<1> SUFFICES ASSUME Init
             PROVE  IInv
  OBVIOUS
<1> USE DEF Init
<1>1. Idle \in ThreadState /\ Idle.at = "idle" /\ Idle.id = 0
  BY DEF Idle, ThreadState, Call
<1>2. Unused \in ConvState /\ Unused.ctl = "free" /\ Unused.peer = None /\ Unused.q = <<>>
  BY UnusedType
<1>3. Sleeping \in PumpState /\ Sleeping.at = "wait" /\ Sleeping.want = 0
  BY SleepingType
<1>4. TypeOK
  <2>1. tp \in TransportState /\ txbuf \in [op : Call \cup {"none"}, tag : Nat, id : Nat]
    BY DEF TransportState
  <2>2. <<>> \in Seq(Datagram)
    OBVIOUS
  <2>3. /\ th \in [Thread -> ThreadState] /\ conv \in [Slot -> ConvState] /\ pump \in PumpState
    BY <1>1, <1>2, <1>3
  <2>4. /\ air \in [Peer -> Seq(Datagram)] /\ srv \in [Peer -> BOOLEAN]
        /\ fidOf \in [Fid -> Slot \cup {None}]
    BY <2>2
  <2>5. /\ ops \in 0 .. MaxOps /\ faults \in 0 .. MaxFaults /\ calls \in Nat /\ sem \in 0 .. 1
        /\ meshPeer \in Peer \cup {None} /\ sess \in Thread \cup {None} /\ lock \in Thread \cup {None}
        /\ attached \in BOOLEAN /\ cut \in BOOLEAN
    <3>1. MaxOps \in Nat /\ MaxFaults \in Nat /\ Named \in Peer \cup {None}
      BY MountAssumption
    <3>2. 0 \in 0 .. MaxOps /\ 0 \in 0 .. MaxFaults
      BY <3>1
    <3>3. ops \in 0 .. MaxOps /\ faults \in 0 .. MaxFaults /\ calls \in Nat /\ sem \in 0 .. 1
      BY <3>2
    <3>4. meshPeer \in Peer \cup {None} /\ sess \in Thread \cup {None} /\ lock \in Thread \cup {None}
      BY <3>1
    <3>5. attached \in BOOLEAN /\ cut \in BOOLEAN
      OBVIOUS
    <3>6. QED
      BY <3>3, <3>4, <3>5
  <2>6. QED
    BY <2>1, <2>3, <2>4, <2>5 DEF TypeOK
<1>5. OneLeakAFault /\ Bound /\ Pumping
  <2>1. Lost = {}
    BY <1>2 DEF Lost
  <2>2. OneLeakAFault
    BY <2>1, FS_EmptySet DEF OneLeakAFault
  <2>3. QED
    BY <1>3, <2>2 DEF Bound, Pumping
<1>6. HandshakeAlone /\ AttachedToNamed /\ DialsNewPeer /\ AccessSeesNames /\ Numbered
  BY <1>1 DEF HandshakeAlone, Making, AttachedToNamed, DialsNewPeer, AccessSeesNames, Numbered
<1>7. MessagesMatch /\ QueuePeers /\ PumpSees
  BY <1>2, <1>3, EmptyAnswers DEF MessagesMatch, QueuePeers, PumpSees
<1>8. QED
  BY <1>4, <1>5, <1>6, <1>7 DEF IInv

LEMMA StutterInv ==
  ASSUME IInv, UNCHANGED vars
  PROVE  IInv'
<1> USE DEF IInv
<1>1. /\ UNCHANGED <<th, sess, meshPeer, attached, tp, lock, txbuf, sem, pump, conv, fidOf>>
      /\ UNCHANGED <<srv, air, ops, calls, faults, cut>>
  BY DEF vars, transport, node, mesh
<1>2. TypeOK'
  BY <1>1 DEF TypeOK
<1>3. HandshakeAlone' /\ AttachedToNamed' /\ DialsNewPeer' /\ AccessSeesNames' /\ WaitsGoOn
  BY <1>1, SessionKept
<1>4. QED
  BY <1>1, <1>2, <1>3, NodeKept

LEMMA NextInv == IInv /\ [Next]_vars => IInv'
<1> SUFFICES ASSUME IInv, [Next]_vars
             PROVE  IInv'
  OBVIOUS
<1>1. ASSUME NEW h \in Thread, Access(h) \/ (\E p \in Peer \cup {None} : SetPeer(h, p)) \/ Serving(h)
      PROVE  IInv'
  BY <1>1, AccessKeeps, SetPeerKeeps, ConnectKeeps, ClunkDataKeeps, ClunkCtlKeeps, DialKeeps,
     DownKeeps, SendKeeps, TimeoutKeeps DEF Serving
<1>2. CASE Pump
  BY <1>2, PumpTakeKeeps, PumpWriteKeeps, PumpReadKeeps, PumpGotKeeps, ExpireKeeps,
     PumpDeliverKeeps DEF Pump
<1>3. ASSUME NEW p \in Peer, Arrive(p) \/ Lose(p) \/ PeerResets(p)
      PROVE  IInv'
  BY <1>3, ArriveKeeps, FaultKeeps
<1>4. CASE FidsDropped \/ NodeReboots
  BY <1>4, FidsDroppedKeeps, NodeRebootsKeeps
<1>5. CASE UNCHANGED vars
  BY <1>5, StutterInv
<1>6. QED
  BY <1>1, <1>2, <1>3, <1>4, <1>5 DEF Next

(* The inductive invariant holds in every state the relay can reach.         *)
THEOREM Invariance == Spec => []IInv
BY InitInv, NextInv, PTL DEF Spec

(* Type correctness: the bounds of the pump's attempts and polls among it.    *)
THEOREM TypeCorrect == Spec => []TypeOK
<1>1. IInv => TypeOK
  BY DEF IInv
<1>2. QED
  BY <1>1, Invariance, PTL

(* Of the conversations taken in the 9151, those that no disconnect will free   *)
(* are no more than the faults: failed calls, fids dropped and the like.       *)
THEOREM LeaksAreFaults == Spec => []OneLeakAFault
<1>1. IInv => OneLeakAFault
  BY DEF IInv
<1>2. QED
  BY <1>1, Invariance, PTL

(* An attached session that no late disconnect hit talks to the named node.   *)
THEOREM DialsNew == Spec => []DialsNewPeer
<1>1. IInv => DialsNewPeer
  BY DEF IInv
<1>2. QED
  BY <1>1, Invariance, PTL

(* A reply with the tag of a waiting request, other than Tversion, answers     *)
(* that very request: its tag is its number, and no other request's.         *)
LEMMA MatchIsOwn == IInv => ReplyIsOwn
<1> SUFFICES ASSUME IInv, pump.at = "deliver", NEW h \in Thread,
                    th[h].at = "wait", th[h].tag = pump.rb.tag
             PROVE  /\ pump.rb.op = th[h].call
                    /\ th[h].call # "version" => pump.rb.id = th[h].id
                    /\ th[h].call = "use" => pump.rb.peer \in th[h].seen
  BY DEF ReplyIsOwn
<1>1. /\ pump.rb \in Datagram /\ Answers(pump.rb)
      /\ th[h].id \in Nat /\ th[h].id > 0 /\ th[h].tag = TagOf(th[h].call, th[h].id)
  BY DEF IInv, TypeOK, PumpState, ThreadState, MessagesMatch, Numbered
<1>2. pump.rb.id \in Nat /\ pump.rb.id > 0 /\ pump.rb.tag = TagOf(pump.rb.op, pump.rb.id)
  BY <1>1 DEF Answers, Asks, Datagram
<1>3. CASE th[h].call = "version"
  <2>1. th[h].tag = 0
    BY <1>1, <1>3 DEF TagOf
  <2>2. pump.rb.op = "version"
    BY <1>2, <2>1 DEF TagOf
  <2>3. QED
    BY <1>3, <2>2
<1>4. CASE th[h].call # "version"
  <2>1. pump.rb.id = th[h].id /\ pump.rb.op = th[h].call
    BY <1>1, <1>2, <1>4 DEF TagOf, Answers, Asks
  <2>2. th[h].call = "use" => pump.rb.peer \in th[h].seen
    <3>1. pump.rb.tag = pump.want /\ Seen(pump.want, pump.rb.peer)
      BY DEF IInv, PumpSees
    <3>2. pump.rb.peer # None
      BY DEF IInv, PumpSees
    <3>3. QED
      BY <3>1, <3>2 DEF Seen
  <2>3. QED
    BY <2>1, <2>2
<1>5. QED
  BY <1>3, <1>4

(* A reply that the nested client takes is the one to that very request, from  *)
(* a node that was named while the access was under way.                     *)
THEOREM RepliesOwn == Spec => []ReplyIsOwn
BY MatchIsOwn, Invariance, PTL

=============================================================================

----------------------------- MODULE Mesh9p_proofs -----------------------------
(* Type correctness of Mesh9p, and that its ring, whose fields two threads  *)
(* move at different times, behaves like the queue of Mesh9pQueue, for      *)
(* every size of the ring and every set of peers.                           *)
EXTENDS Mesh9p, SequenceTheorems, TLAPS

-----------------------------------------------------------------------------
(* Ring arithmetic *)

(* A slot's index counted from another, without the modulus.                *)
LEMMA Around ==
  ASSUME NEW h \in Index, NEW i \in 0 .. Ring
  PROVE  (h + i) % Ring = IF h + i < Ring THEN h + i ELSE h + i - Ring
BY Mesh9pAssumption, Z3 DEF Index

LEMMA AtIndex ==
  ASSUME head \in Index, NEW i \in 0 .. Ring
  PROVE  At(i) \in Index
BY Around, Mesh9pAssumption DEF At, Index

(* Different distances from the head are different slots.                   *)
LEMMA AtInjective ==
  ASSUME head \in Index, NEW i \in 0 .. Ring - 1, NEW j \in 0 .. Ring - 1, i # j
  PROVE  At(i) # At(j)
<1>1. i \in 0 .. Ring /\ j \in 0 .. Ring
  BY Mesh9pAssumption
<1>2. /\ At(i) = IF head + i < Ring THEN head + i ELSE head + i - Ring
      /\ At(j) = IF head + j < Ring THEN head + j ELSE head + j - Ring
  BY <1>1, Around DEF At
<1>3. QED
  BY <1>2, Mesh9pAssumption DEF Index

LEMMA AtZero ==
  ASSUME head \in Index
  PROVE  At(0) = head
<1>1. 0 \in 0 .. Ring
  BY Mesh9pAssumption
<1>2. At(0) = IF head + 0 < Ring THEN head + 0 ELSE head + 0 - Ring
  BY <1>1, Around DEF At
<1>3. QED
  BY <1>2, Mesh9pAssumption DEF Index

LEMMA WrapAround ==
  ASSUME NEW h \in Index
  PROVE  Wrap(h) = IF h + 1 = Ring THEN 0 ELSE h + 1
<1>1. 1 \in 0 .. Ring
  BY Mesh9pAssumption
<1>2. Wrap(h) = IF h + 1 < Ring THEN h + 1 ELSE h + 1 - Ring
  BY <1>1, Around DEF Wrap
<1>3. QED
  BY <1>2, Mesh9pAssumption DEF Index

LEMMA WrapIndex ==
  ASSUME NEW h \in Index
  PROVE  Wrap(h) \in Index
BY WrapAround, Mesh9pAssumption DEF Index

(* The slot after the i-th is the one after that.                           *)
LEMMA WrapAt ==
  ASSUME head \in Index, NEW i \in 0 .. Ring - 1
  PROVE  Wrap(At(i)) = At(i + 1)
<1>1. i \in 0 .. Ring /\ i + 1 \in 0 .. Ring
  BY Mesh9pAssumption
<1>2. /\ At(i) = IF head + i < Ring THEN head + i ELSE head + i - Ring
      /\ At(i + 1) = IF head + (i + 1) < Ring THEN head + (i + 1) ELSE head + (i + 1) - Ring
  BY <1>1, Around DEF At
<1>3. At(i) \in Index
  BY <1>1, AtIndex
<1>4. Wrap(At(i)) = IF At(i) + 1 = Ring THEN 0 ELSE At(i) + 1
  BY <1>3, WrapAround
<1>5. QED
  BY <1>2, <1>4, Mesh9pAssumption DEF Index

(* Seen from the next slot, everything is one nearer.                       *)
LEMMA WrapShift ==
  ASSUME NEW h \in Index, NEW i \in 0 .. Ring - 1
  PROVE  (Wrap(h) + i) % Ring = (h + (i + 1)) % Ring
<1>1. i \in 0 .. Ring /\ i + 1 \in 0 .. Ring /\ Wrap(h) \in Index
  BY WrapIndex, Mesh9pAssumption
<1>2. /\ (Wrap(h) + i) % Ring = IF Wrap(h) + i < Ring THEN Wrap(h) + i ELSE Wrap(h) + i - Ring
      /\ (h + (i + 1)) % Ring = IF h + (i + 1) < Ring THEN h + (i + 1) ELSE h + (i + 1) - Ring
  BY <1>1, Around
<1>3. Wrap(h) = IF h + 1 = Ring THEN 0 ELSE h + 1
  BY WrapAround
<1>4. QED
  BY <1>2, <1>3, Mesh9pAssumption DEF Index

-----------------------------------------------------------------------------
(* The inductive invariant *)

LEMMA InitInv == Init => IInv
<1> SUFFICES ASSUME Init PROVE IInv
  OBVIOUS
<1>1. 0 \in Index /\ Ids > 0
  BY Mesh9pAssumption DEF Index
<1>2. TypeOK
  <2>1. NoReply \in Reply
    BY DEF NoReply, Reply
  <2>2. count \in 0 .. Ring /\ nextId \in 0 .. Ids - 1 /\ head \in Index /\ tail \in Index
        /\ rxslot \in Index
    BY <1>1, Mesh9pAssumption DEF Init
  <2>3. ring \in [Index -> Req \cup {Nobody}]
    BY DEF Init
  <2>4. QED
    BY <2>1, <2>2, <2>3 DEF Init, TypeOK
<1>3. RingShape
  <2>1. At(0) = 0
    BY <1>1, AtZero DEF Init
  <2>2. QED
    BY <2>1 DEF Init, RingShape, Live, Entering, Leaving
<1>4. QED
  BY <1>2, <1>3 DEF Init, IInv, RxHolds, WorkHolds, NothingLeftBehind

(* What a datagram carries.                                                 *)
LEMMA NextIdType ==
  ASSUME TypeOK
  PROVE  (nextId + 1) % Ids \in 0 .. Ids - 1
BY Mesh9pAssumption, Z3 DEF TypeOK

LEMMA ArriveStep ==
  ASSUME IInv, NEW p \in Peer, NEW k \in Kind, Arrive(p, k)
  PROVE  IInv'
<1>1. /\ [peer |-> p, kind |-> k, id |-> nextId] \in Req
      /\ (nextId + 1) % Ids \in 0 .. Ids - 1
  BY NextIdType DEF IInv, TypeOK, Req
<1>2. TypeOK'
  BY <1>1 DEF IInv, TypeOK, Arrive, ringVars, wkVars, readVars, dfuVars
<1>3. RxHolds'
  BY <1>1 DEF RxHolds, Arrive, AckGate, ringVars
<1>4. /\ RingShape' /\ WorkHolds' /\ NothingLeftBehind'
  BY DEF IInv, RingShape, WorkHolds, NothingLeftBehind, Arrive, At, Live, Entering,
         Leaving, ringVars, wkVars
<1>5. QED
  BY <1>2, <1>3, <1>4 DEF IInv

LEMMA ClaimStep ==
  ASSUME IInv, Claim
  PROVE  IInv'
<1>1. rxpc = "claim" /\ count < Ring /\ rxreq \in Req
  BY DEF IInv, RxHolds, Claim
<1>2. /\ rxpc' = "fill" /\ rxslot' = tail /\ tail' = Wrap(tail) /\ rxreq' = rxreq
      /\ UNCHANGED <<ring, head, count, nextId, wkVars, readVars, dfuVars>>
  BY <1>1, Mesh9pAssumption DEF Claim, IInv, TypeOK
<1>3. TypeOK'
  BY <1>2, WrapIndex DEF IInv, TypeOK, wkVars, readVars, dfuVars
<1>4. Live \in 0 .. Ring - 1 /\ Live' = Live + 1 /\ head \in Index
  <2>1. count \in 0 .. Ring /\ head \in Index /\ (wkpc = "uncount" => count > 0)
    BY DEF IInv, TypeOK, WorkHolds
  <2>2. count' = count /\ wkpc' = wkpc
    BY <1>2 DEF wkVars
  <2>3. QED
    BY <1>1, <1>2, <2>1, <2>2, Mesh9pAssumption DEF Live, Entering, Leaving
<1>5. tail' = At(Live + 1) /\ rxslot' = At(Live)
  BY <1>2, <1>4, WrapAt DEF IInv, RingShape
<1>6. RingShape'
  <2>1. Live' - 1 = Live
    BY <1>4
  <2>2. \A i \in 0 .. count - Leaving - 1 : ring[At(i)] \in Req
    BY DEF IInv, RingShape
  <2>3. Leaving' = Leaving /\ \A i : At(i)' = At(i)
    BY <1>2 DEF Leaving, At, wkVars
  <2>4. QED
    BY <1>2, <1>4, <1>5, <2>1, <2>2, <2>3 DEF RingShape
<1>7. RxHolds' /\ WorkHolds' /\ NothingLeftBehind'
  BY <1>1, <1>2 DEF IInv, RxHolds, WorkHolds, NothingLeftBehind, wkVars
<1>8. QED
  BY <1>3, <1>6, <1>7 DEF IInv

(* The copy goes to the one slot that is claimed and not yet counted.        *)
LEMMA FillStep ==
  ASSUME IInv, Fill
  PROVE  IInv'
<1>1. /\ rxpc = "fill" /\ rxpc' = "count" /\ ring' = [ring EXCEPT ![rxslot] = rxreq]
      /\ UNCHANGED <<head, tail, count, rxreq, rxslot, nextId, wkVars, readVars, dfuVars>>
  BY DEF Fill
<1>2. /\ rxreq \in Req /\ count \in 0 .. Ring /\ count < Ring /\ head \in Index
      /\ rxslot \in Index /\ ring \in [Index -> Req \cup {Nobody}]
  BY <1>1 DEF IInv, TypeOK, RxHolds
<1>3. TypeOK'
  BY <1>1, <1>2 DEF IInv, TypeOK, wkVars, readVars, dfuVars
<1>4. RingShape'
  <2>1. Live' = Live /\ Leaving' = Leaving /\ \A i : At(i)' = At(i)
    BY <1>1 DEF Live, Entering, Leaving, At, wkVars
  <2>2. \A i \in 0 .. count - Leaving - 1 : ring'[At(i)] \in Req
    <3>1. SUFFICES ASSUME NEW i \in 0 .. count - Leaving - 1 PROVE ring'[At(i)] \in Req
      OBVIOUS
    <3>2. ring[At(i)] \in Req
      BY DEF IInv, RingShape
    <3>3. At(i) \in Index
      BY <1>2, AtIndex, Mesh9pAssumption DEF Leaving
    <3>4. QED
      BY <1>1, <1>2, <3>2, <3>3
  <2>3. ring'[rxslot'] = rxreq'
    BY <1>1, <1>2
  <2>4. QED
    BY <1>1, <2>1, <2>2, <2>3 DEF IInv, RingShape
<1>5. RxHolds' /\ NothingLeftBehind'
  BY <1>1 DEF IInv, RxHolds, NothingLeftBehind, wkVars
<1>6. WorkHolds'
  <2>1. CASE wkpc = "serve"
    <3>1. count > 0 /\ cur = ring[head].peer /\ Live - 1 = count
      BY <1>1, <1>2, <2>1 DEF IInv, WorkHolds, Live, Entering, Leaving
    <3>2. rxslot = At(count) /\ head = At(0) /\ At(count) # At(0)
      BY <1>1, <1>2, <3>1, AtZero, AtInjective, Mesh9pAssumption DEF IInv, RingShape
    <3>3. ring'[head] = ring[head]
      BY <1>1, <1>2, <3>2
    <3>4. QED
      BY <1>1, <2>1, <3>1, <3>3 DEF WorkHolds, wkVars
  <2>2. CASE wkpc # "serve"
    BY <1>1, <2>2 DEF IInv, WorkHolds, wkVars
  <2>3. QED
    BY <2>1, <2>2
<1>7. QED
  BY <1>3, <1>4, <1>5, <1>6 DEF IInv

LEMMA CountUpStep ==
  ASSUME IInv, CountUp
  PROVE  IInv'
<1>1. /\ rxpc = "count" /\ rxpc' = "submit" /\ count' = count + 1
      /\ UNCHANGED <<ring, head, tail, rxreq, rxslot, nextId, wkVars, readVars, dfuVars>>
  BY DEF CountUp
<1>2. /\ rxreq \in Req /\ count \in 0 .. Ring /\ count < Ring /\ ring[rxslot] = rxreq
  BY <1>1 DEF IInv, TypeOK, RxHolds, RingShape
<1>3. TypeOK'
  BY <1>1, <1>2, Mesh9pAssumption DEF IInv, TypeOK, wkVars, readVars, dfuVars
<1>4. RingShape'
  <2>1. Live' = Live /\ Leaving' = Leaving /\ Leaving \in {0, 1} /\ \A i : At(i)' = At(i)
    BY <1>1, <1>2 DEF Live, Entering, Leaving, At, wkVars
  <2>2. rxslot = At(count - Leaving)
    <3>1. Live - 1 = count - Leaving
      BY <1>1, <1>2, <2>1 DEF Live, Entering
    <3>2. QED
      BY <1>1, <3>1 DEF IInv, RingShape
  <2>3. \A i \in 0 .. count' - Leaving' - 1 : ring[At(i)] \in Req
    <3>1. SUFFICES ASSUME NEW i \in 0 .. count - Leaving PROVE ring[At(i)] \in Req
      BY <1>1, <1>2, <2>1
    <3>2. CASE i = count - Leaving
      BY <1>2, <2>2, <3>2
    <3>3. CASE i # count - Leaving
      <4>1. i \in 0 .. count - Leaving - 1
        BY <1>2, <2>1, <3>3
      <4>2. QED
        BY <4>1 DEF IInv, RingShape
    <3>4. QED
      BY <3>2, <3>3
  <2>4. QED
    BY <1>1, <2>1, <2>3 DEF IInv, RingShape
<1>5. RxHolds' /\ NothingLeftBehind'
  BY <1>1 DEF RxHolds, NothingLeftBehind
<1>6. WorkHolds'
  BY <1>1, <1>2 DEF IInv, WorkHolds, wkVars
<1>7. QED
  BY <1>3, <1>4, <1>5, <1>6 DEF IInv

(* What touches neither the ring nor a request coming in.                   *)
LEMMA CalmRing ==
  ASSUME IInv, UNCHANGED <<ringVars, rxpc, rxslot, rxreq>>, Leaving' = Leaving
  PROVE  RingShape' /\ RxHolds'
<1>1. Live' = Live /\ \A i : At(i)' = At(i)
  BY DEF Live, Entering, At, ringVars
<1>2. QED
  BY <1>1 DEF IInv, RingShape, RxHolds, ringVars

LEMMA SubmitStep ==
  ASSUME IInv, Submit
  PROVE  IInv'
<1>1. /\ rxpc = "submit" /\ rxpc' = "idle" /\ pending' = TRUE /\ rxreq' = Nobody /\ rxslot' = 0
      /\ UNCHANGED <<ringVars, nextId, wkpc, cur, serving, last, readVars, dfuVars>>
  BY DEF Submit
<1>2. TypeOK'
  BY <1>1, Mesh9pAssumption DEF IInv, TypeOK, Index, ringVars, readVars, dfuVars
<1>3. RingShape'
  <2>1. Live' = Live /\ Leaving' = Leaving /\ \A i : At(i)' = At(i)
    BY <1>1 DEF Live, Entering, Leaving, At, ringVars
  <2>2. QED
    BY <1>1, <2>1 DEF IInv, RingShape, ringVars
<1>4. RxHolds' /\ WorkHolds' /\ NothingLeftBehind'
  BY <1>1 DEF IInv, RxHolds, WorkHolds, NothingLeftBehind, ringVars
<1>5. QED
  BY <1>2, <1>3, <1>4 DEF IInv

LEMMA WakeStep ==
  ASSUME IInv, Wake
  PROVE  IInv'
<1>1. /\ wkpc = "wait" /\ wkpc' = "check" /\ pending' = FALSE
      /\ UNCHANGED <<ringVars, rxVars, cur, serving, last, readVars, dfuVars>>
  BY DEF Wake
<1>2. TypeOK'
  BY <1>1 DEF IInv, TypeOK, ringVars, rxVars, readVars, dfuVars
<1>3. RingShape' /\ RxHolds'
  BY <1>1, CalmRing DEF Leaving, rxVars
<1>4. WorkHolds' /\ NothingLeftBehind'
  BY <1>1 DEF WorkHolds, NothingLeftBehind
<1>5. QED
  BY <1>2, <1>3, <1>4 DEF IInv

(* What is counted and not yet served is a request.                         *)
LEMMA HeadIsRequest ==
  ASSUME IInv, count > 0, Leaving = 0
  PROVE  ring[head] \in Req
<1>1. 0 \in 0 .. count - Leaving - 1
  BY DEF IInv, TypeOK
<1>2. At(0) = head
  BY AtZero DEF IInv, TypeOK
<1>3. QED
  BY <1>1, <1>2 DEF IInv, RingShape

LEMMA CheckStep ==
  ASSUME IInv, Check
  PROVE  IInv'
<1>1. /\ wkpc = "check" /\ Leaving = 0
      /\ UNCHANGED <<ringVars, rxVars, pending, last, readVars, dfuVars>>
  BY DEF Check, Leaving
<1>2. CASE /\ count > 0 /\ wkpc' = "serve" /\ cur' = ring[head].peer /\ serving' = TRUE
  <2>1. ring[head].peer \in Peer
    BY <1>1, <1>2, HeadIsRequest DEF Req
  <2>2. TypeOK'
    BY <1>1, <1>2, <2>1 DEF IInv, TypeOK, ringVars, rxVars, readVars, dfuVars
  <2>3. RingShape' /\ RxHolds'
    BY <1>1, <1>2, CalmRing DEF Leaving, rxVars
  <2>4. WorkHolds' /\ NothingLeftBehind'
    BY <1>1, <1>2 DEF WorkHolds, NothingLeftBehind, ringVars
  <2>5. QED
    BY <2>2, <2>3, <2>4 DEF IInv
<1>3. CASE count = 0 /\ wkpc' = "wait" /\ UNCHANGED <<cur, serving>>
  <2>1. TypeOK'
    BY <1>1, <1>3 DEF IInv, TypeOK, ringVars, rxVars, readVars, dfuVars
  <2>2. RingShape' /\ RxHolds'
    BY <1>1, <1>3, CalmRing DEF Leaving, rxVars
  <2>3. WorkHolds' /\ NothingLeftBehind'
    BY <1>1, <1>3 DEF WorkHolds, NothingLeftBehind, ringVars
  <2>4. QED
    BY <2>1, <2>2, <2>3 DEF IInv
<1>4. QED
  BY <1>2, <1>3 DEF Check

LEMMA ServeStep ==
  ASSUME IInv, Serve
  PROVE  IInv'
<1>1. /\ wkpc = "serve" /\ wkpc' = "advance" /\ serving' = FALSE /\ Leaving = 0 /\ count > 0
      /\ UNCHANGED <<ringVars, rxVars, pending, cur, astray, dfuVars>>
  BY DEF Serve, Leaving, IInv, WorkHolds
<1>2. ring[head] \in Req /\ cur \in Peer
  BY <1>1, HeadIsRequest DEF IInv, WorkHolds, Req
<1>3. last' \in Reply /\ parked' \subseteq Req
  BY <1>2 DEF Serve, Reply, IInv, TypeOK
<1>4. TypeOK'
  BY <1>1, <1>3 DEF IInv, TypeOK, ringVars, rxVars, dfuVars
<1>5. RingShape' /\ RxHolds'
  BY <1>1, CalmRing DEF Leaving, rxVars
<1>6. WorkHolds' /\ NothingLeftBehind'
  BY <1>1 DEF WorkHolds, NothingLeftBehind, ringVars
<1>7. QED
  BY <1>4, <1>5, <1>6 DEF IInv

(* The head moves on before the count is lowered.                           *)
LEMMA AdvanceStep ==
  ASSUME IInv, Advance
  PROVE  IInv'
<1>1. /\ wkpc = "advance" /\ wkpc' = "uncount" /\ head' = Wrap(head)
      /\ UNCHANGED <<ring, tail, count, rxVars, pending, cur, serving, last, readVars, dfuVars>>
  BY DEF Advance
<1>2. /\ head \in Index /\ count \in 0 .. Ring /\ count > 0
      /\ Leaving = 0 /\ Leaving' = 1 /\ (rxpc \in {"fill", "count"} => count < Ring)
  BY <1>1 DEF IInv, TypeOK, WorkHolds, RxHolds, Leaving
<1>3. TypeOK'
  BY <1>1, <1>2, WrapIndex DEF IInv, TypeOK, rxVars, readVars, dfuVars
<1>4. /\ Live \in 1 .. Ring /\ Live' = Live - 1
      /\ (rxpc \in {"fill", "count"} => Live - 1 \in 1 .. Ring)
  BY <1>1, <1>2, Mesh9pAssumption DEF Live, Entering, rxVars
<1>5. \A i \in 0 .. Ring - 1 : (head' + i) % Ring = At(i + 1)
  BY <1>1, <1>2, WrapShift DEF At
<1>6. RingShape'
  <2>1. tail' = (head' + Live') % Ring
    <3>1. Live' \in 0 .. Ring - 1 /\ Live' + 1 = Live
      BY <1>4, Mesh9pAssumption
    <3>2. (head' + Live') % Ring = At(Live' + 1)
      BY <1>5, <3>1
    <3>3. QED
      BY <1>1, <3>1, <3>2 DEF IInv, RingShape
  <2>2. rxpc' \in {"fill", "count"} => rxslot' = (head' + (Live' - 1)) % Ring
    <3>1. SUFFICES ASSUME rxpc \in {"fill", "count"}
                   PROVE  rxslot = (head' + (Live' - 1)) % Ring
      BY <1>1 DEF rxVars
    <3>2. Live' - 1 \in 0 .. Ring - 1 /\ (Live' - 1) + 1 = Live - 1
      BY <1>4, <3>1, Mesh9pAssumption
    <3>3. (head' + (Live' - 1)) % Ring = At((Live' - 1) + 1)
      BY <1>5, <3>2
    <3>4. QED
      BY <3>1, <3>2, <3>3 DEF IInv, RingShape
  <2>3. \A i \in 0 .. count' - Leaving' - 1 : ring'[(head' + i) % Ring] \in Req
    <3>1. SUFFICES ASSUME NEW i \in 0 .. count - 2 PROVE ring[(head' + i) % Ring] \in Req
      BY <1>1, <1>2
    <3>2. i \in 0 .. Ring - 1 /\ i + 1 \in 0 .. count - Leaving - 1
      BY <1>2, Mesh9pAssumption
    <3>3. (head' + i) % Ring = At(i + 1)
      BY <1>5, <3>2
    <3>4. QED
      BY <3>2, <3>3 DEF IInv, RingShape
  <2>4. rxpc' = "count" => ring'[rxslot'] = rxreq'
    BY <1>1 DEF IInv, RingShape, rxVars
  <2>5. QED
    BY <2>1, <2>2, <2>3, <2>4 DEF RingShape, At
<1>7. RxHolds' /\ WorkHolds' /\ NothingLeftBehind'
  BY <1>1, <1>2 DEF IInv, RxHolds, WorkHolds, NothingLeftBehind, rxVars
<1>8. QED
  BY <1>3, <1>6, <1>7 DEF IInv

LEMMA UncountStep ==
  ASSUME IInv, Uncount
  PROVE  IInv'
<1>1. /\ wkpc = "uncount" /\ wkpc' = "check" /\ count' = count - 1
      /\ UNCHANGED <<ring, head, tail, rxVars, pending, cur, serving, last, readVars, dfuVars>>
  BY DEF Uncount
<1>2. /\ count \in 0 .. Ring /\ count > 0 /\ Leaving = 1 /\ Leaving' = 0
  BY <1>1 DEF IInv, TypeOK, WorkHolds, Leaving
<1>3. TypeOK'
  BY <1>1, <1>2, Mesh9pAssumption DEF IInv, TypeOK, rxVars, readVars, dfuVars
<1>4. RingShape'
  <2>1. Live' = Live /\ count' - Leaving' = count - Leaving /\ \A i : At(i)' = At(i)
    BY <1>1, <1>2 DEF Live, Entering, At, rxVars
  <2>2. QED
    BY <1>1, <2>1 DEF IInv, RingShape, rxVars
<1>5. RxHolds' /\ WorkHolds' /\ NothingLeftBehind'
  BY <1>1, <1>2, Mesh9pAssumption DEF IInv, RxHolds, WorkHolds, NothingLeftBehind, rxVars
<1>6. QED
  BY <1>3, <1>4, <1>5 DEF IInv

(* Worker threads and the wired update leave the ring and its threads alone. *)
LEMMA OtherStep ==
  ASSUME IInv, UNCHANGED <<ringVars, rxVars, wkVars>>, parked' \subseteq Req,
         astray' \in BOOLEAN, dfu' \in BOOLEAN, quiesced' \in BOOLEAN
  PROVE  IInv'
<1>1. TypeOK'
  BY DEF IInv, TypeOK, ringVars, rxVars, wkVars
<1>2. RingShape' /\ RxHolds'
  BY CalmRing DEF Leaving, rxVars, wkVars
<1>3. WorkHolds' /\ NothingLeftBehind'
  BY DEF IInv, WorkHolds, NothingLeftBehind, ringVars, rxVars, wkVars
<1>4. QED
  BY <1>1, <1>2, <1>3 DEF IInv

LEMMA NextInv == IInv /\ [Next]_vars => IInv'
<1> SUFFICES ASSUME IInv, [Next]_vars PROVE IInv'
  OBVIOUS
<1>1. ASSUME NEW p \in Peer, NEW k \in Kind, Arrive(p, k) PROVE IInv'
  BY <1>1, ArriveStep
<1>2. ASSUME RxNext PROVE IInv'
  BY <1>2, ClaimStep, FillStep, CountUpStep, SubmitStep DEF RxNext
<1>3. ASSUME WorkNext PROVE IInv'
  BY <1>3, WakeStep, CheckStep, ServeStep, AdvanceStep, UncountStep DEF WorkNext
<1>4. ASSUME NEW m \in parked, WorkerReply(m) PROVE IInv'
  BY <1>4, OtherStep DEF WorkerReply, IInv, TypeOK, dfuVars
<1>5. ASSUME WiredErase PROVE IInv'
  BY <1>5, OtherStep DEF WiredErase, SetQuiesced, IInv, TypeOK, readVars
<1>6. ASSUME WiredReceive PROVE IInv'
  BY <1>6, OtherStep DEF WiredReceive, SetQuiesced, IInv, TypeOK, readVars
<1>7. ASSUME WiredEnd PROVE IInv'
  BY <1>7, OtherStep DEF WiredEnd, SetQuiesced, IInv, TypeOK, readVars
<1>8. CASE UNCHANGED vars
  BY <1>8, OtherStep DEF vars, ringVars, rxVars, wkVars, IInv, TypeOK
<1>9. QED
  BY <1>1, <1>2, <1>3, <1>4, <1>5, <1>6, <1>7, <1>8 DEF Next

(* head, tail, count and the request in flight fit together in every        *)
(* reachable state (mesh9p_recv_cb, mesh9p_work_fn): the ring's counters    *)
(* say which slots hold acknowledged requests.                              *)
THEOREM Invariance == Spec => []IInv
BY InitInv, NextInv, PTL DEF Spec

(* Indices stay in the ring and the counter between 0 and its size.         *)
THEOREM TypeCorrect == Spec => []TypeOK
<1>1. IInv => TypeOK
  BY DEF IInv
<1>2. QED
  BY <1>1, Invariance, PTL

(* mesh9p_work_fn never sleeps on a counted request.                        *)
THEOREM NoneIsLeftBehind == Spec => []NothingLeftBehind
<1>1. IInv => NothingLeftBehind
  BY DEF IInv
<1>2. QED
  BY <1>1, Invariance, PTL

-----------------------------------------------------------------------------
(* The refinement of Mesh9pQueue *)

Ahead == IF wkpc = "advance" THEN 1 ELSE 0

(* The counted requests are those in the slots from the head, less the one  *)
(* served already.                                                          *)
CountedInSlots ==
  /\ count - Done \in 0 .. Ring
  /\ \A i \in 1 .. count - Done :
       /\ i - 1 + Ahead \in 0 .. Ring - 1
       /\ Counted[i] = ring[At(i - 1 + Ahead)]
       /\ Counted[i] \in Req
  /\ Counted \in Seq(Req)
  /\ Len(Counted) = count - Done

LEMMA CountedShape == IInv => CountedInSlots
<1> SUFFICES ASSUME IInv PROVE CountedInSlots
  OBVIOUS
<1>1. /\ count \in 0 .. Ring /\ head \in Index
      /\ wkpc \in {"serve", "advance", "uncount"} => count > 0
  BY DEF IInv, TypeOK, WorkHolds
<1>2. count - Done \in 0 .. Ring
  BY <1>1, Mesh9pAssumption DEF Done
<1>3. ASSUME NEW i \in 1 .. count - Done
      PROVE  /\ i - 1 + Ahead \in 0 .. Ring - 1
             /\ Counted[i] = ring[At(i - 1 + Ahead)]
             /\ Counted[i] \in Req
  <2>1. i - 1 \in 0 .. Ring - 1 /\ i - 1 + Ahead \in 0 .. count - Leaving - 1
        /\ i - 1 + Ahead \in 0 .. Ring - 1
    BY <1>1, Mesh9pAssumption DEF Done, Ahead, Leaving
  <2>2. Counted[i] = ring[(First + (i - 1)) % Ring]
    BY DEF Counted
  <2>3. (First + (i - 1)) % Ring = At(i - 1 + Ahead)
    <3>1. CASE wkpc = "advance"
      <4>1. (Wrap(head) + (i - 1)) % Ring = (head + ((i - 1) + 1)) % Ring
        BY <1>1, <2>1, WrapShift
      <4>2. QED
        BY <3>1, <4>1 DEF First, Ahead, At
    <3>2. CASE wkpc # "advance"
      <4>1. i - 1 + Ahead = i - 1
        BY <2>1, <3>2 DEF Ahead
      <4>2. QED
        BY <3>2, <4>1 DEF First, At
    <3>3. QED
      BY <3>1, <3>2
  <2>4. ring[At(i - 1 + Ahead)] \in Req
    BY <2>1 DEF IInv, RingShape
  <2>5. QED
    BY <2>1, <2>2, <2>3, <2>4
<1>4. Counted \in [1 .. count - Done -> Req]
  BY <1>3 DEF Counted
<1>5. Counted \in Seq(Req) /\ Len(Counted) = count - Done
  BY <1>2, <1>4
<1>6. QED
  BY <1>2, <1>3, <1>5 DEF CountedInSlots

LEMMA CountedShapeNext == IInv' => CountedInSlots'
BY CountedShape, PTL

LEMMA IncomingShape ==
  ASSUME IInv
  PROVE  Incoming \in Seq(Req)
BY DEF IInv, RxHolds, Incoming

LEMMA QueueInit == Init => Queue!Init
<1> SUFFICES ASSUME Init PROVE Queued = <<>> /\ last = [req |-> Nobody, to |-> Nobody]
  BY DEF Queue!Init
<1>1. Counted = <<>>
  BY DEF Init, Counted, Done
<1>2. Incoming = <<>>
  BY DEF Init, Incoming
<1>3. QED
  BY <1>1, <1>2 DEF Init, NoReply, Queued

(* The steps that are none of the queue's leave it as it is.                 *)
LEMMA SameQueue ==
  ASSUME UNCHANGED <<ring, head, count, wkpc>>, Incoming' = Incoming
  PROVE  Queued' = Queued
BY DEF Queued, Counted, Done, First

LEMMA ClaimStutters ==
  ASSUME IInv, Claim
  PROVE  Queued' = Queued /\ last' = last
<1>1. /\ rxpc = "claim" /\ rxpc' = "fill" /\ rxreq' = rxreq
      /\ UNCHANGED <<ring, head, count, wkVars>>
  BY Mesh9pAssumption DEF Claim, IInv, TypeOK, RxHolds
<1>2. QED
  BY <1>1, SameQueue DEF Incoming, wkVars

(* The copy overwrites no acknowledged request.                             *)
LEMMA FillStutters ==
  ASSUME IInv, Fill
  PROVE  Queued' = Queued /\ last' = last
<1>1. /\ rxpc = "fill" /\ rxpc' = "count" /\ ring' = [ring EXCEPT ![rxslot] = rxreq]
      /\ UNCHANGED <<head, count, rxreq, wkVars>>
  BY DEF Fill
<1>2. /\ head \in Index /\ count \in 0 .. Ring /\ count < Ring
      /\ ring \in [Index -> Req \cup {Nobody}]
      /\ (wkpc \in {"serve", "advance", "uncount"} => count > 0)
  BY <1>1 DEF IInv, TypeOK, RxHolds, WorkHolds
<1>3. IInv'
  BY FillStep
<1>4. /\ (count - Done)' = count - Done /\ Ahead' = Ahead /\ \A i : At(i)' = At(i)
  BY <1>1 DEF Done, Ahead, At, wkVars
<1>5. rxslot = At(count - Leaving) /\ count - Leaving \in 0 .. Ring - 1
  <2>1. Live - 1 = count - Leaving /\ count - Leaving \in 0 .. Ring - 1
    BY <1>1, <1>2, Mesh9pAssumption DEF Live, Entering, Leaving
  <2>2. QED
    BY <1>1, <2>1 DEF IInv, RingShape
<1>6. ASSUME NEW i \in 1 .. count - Done
      PROVE  Counted'[i] = Counted[i]
  <2>1. /\ i - 1 + Ahead \in 0 .. Ring - 1
        /\ Counted[i] = ring[At(i - 1 + Ahead)]
    BY CountedShape DEF CountedInSlots
  <2>2. Counted'[i] = ring'[At(i - 1 + Ahead)]
    <3>1. Counted'[i] = ring'[At(i - 1 + Ahead)']
      BY <1>3, <1>4, CountedShapeNext DEF CountedInSlots
    <3>2. QED
      BY <1>1, <1>4, <3>1 DEF At
  <2>3. i - 1 + Ahead # count - Leaving
    BY <1>2 DEF Done, Ahead, Leaving
  <2>4. At(i - 1 + Ahead) # rxslot
    BY <1>2, <1>5, <2>1, <2>3, AtInjective
  <2>5. QED
    BY <1>1, <1>2, <2>1, <2>2, <2>4
<1>7. Counted' = Counted
  <2>1. /\ Counted \in Seq(Req) /\ Len(Counted) = count - Done
        /\ Counted' \in Seq(Req) /\ Len(Counted') = count - Done
    BY <1>3, <1>4, CountedShape, CountedShapeNext DEF CountedInSlots
  <2>2. QED
    BY <1>6, <2>1, SeqEqual
<1>8. QED
  BY <1>1, <1>7 DEF Queued, Incoming, wkVars

LEMMA RestStutters ==
  ASSUME IInv, Submit \/ Wake \/ Check
  PROVE  Queued' = Queued /\ last' = last
<1>1. CASE Submit
  BY <1>1, SameQueue DEF Submit, Incoming, ringVars
<1>2. CASE Wake
  <2>1. UNCHANGED <<ring, head, count, last, rxpc, rxreq>> /\ wkpc = "wait" /\ wkpc' = "check"
    BY <1>2 DEF Wake, ringVars, rxVars
  <2>2. QED
    BY <2>1 DEF Queued, Counted, Incoming, Done, First
<1>3. CASE Check
  <2>1. UNCHANGED <<ring, head, count, last, rxpc, rxreq>> /\ wkpc = "check"
        /\ wkpc' \in {"serve", "wait"}
    BY <1>3 DEF Check, ringVars, rxVars
  <2>2. QED
    BY <2>1 DEF Queued, Counted, Incoming, Done, First
<1>4. QED
  BY <1>1, <1>2, <1>3

LEMMA AdvanceStutters ==
  ASSUME IInv, Advance
  PROVE  Queued' = Queued /\ last' = last
<1>1. UNCHANGED <<ring, count, last, rxpc, rxreq>> /\ wkpc = "advance"
      /\ wkpc' = "uncount" /\ head' = Wrap(head)
  BY DEF Advance, rxVars
<1>2. First' = First /\ Done' = Done /\ Incoming' = Incoming
  BY <1>1 DEF First, Done, Incoming
<1>3. QED
  BY <1>1, <1>2 DEF Queued, Counted

LEMMA UncountStutters ==
  ASSUME IInv, Uncount
  PROVE  Queued' = Queued /\ last' = last
<1>1. UNCHANGED <<ring, head, last, rxpc, rxreq>> /\ wkpc = "uncount"
      /\ wkpc' = "check" /\ count' = count - 1 /\ count \in 0 .. Ring
  BY DEF Uncount, rxVars, IInv, TypeOK
<1>2. First' = First /\ (count - Done)' = count - Done /\ Incoming' = Incoming
  BY <1>1 DEF First, Done, Incoming
<1>3. QED
  BY <1>1, <1>2 DEF Queued, Counted

(* The count is raised: the request in flight becomes the last counted one.  *)
LEMMA CountUpStutters ==
  ASSUME IInv, CountUp
  PROVE  Queued' = Queued /\ last' = last
<1>1. /\ rxpc = "count" /\ rxpc' = "submit" /\ count' = count + 1
      /\ UNCHANGED <<ring, head, rxreq, wkVars>>
  BY DEF CountUp
<1>2. /\ rxreq \in Req /\ count \in 0 .. Ring /\ ring[rxslot] = rxreq
  BY <1>1 DEF IInv, TypeOK, RxHolds, RingShape
<1>3. IInv'
  BY CountUpStep
<1>4. Done' = Done /\ Ahead' = Ahead /\ Done \in {0, 1} /\ \A i : At(i)' = At(i)
  BY <1>1 DEF Done, Ahead, At, wkVars
<1>5. Incoming = <<rxreq>> /\ Incoming' = <<>>
  BY <1>1 DEF Incoming
<1>6. /\ Counted \in Seq(Req) /\ Len(Counted) = count - Done
      /\ Counted' \in Seq(Req) /\ Len(Counted') = count - Done + 1
      /\ <<rxreq>> \in Seq(Req) /\ Len(<<rxreq>>) = 1 /\ <<rxreq>>[1] = rxreq
  <2>1. (count - Done)' = count - Done + 1 /\ count - Done \in Int
    BY <1>1, <1>2, <1>4
  <2>2. QED
    BY <1>2, <1>3, <2>1, CountedShape, CountedShapeNext DEF CountedInSlots
<1>7. ASSUME NEW i \in 1 .. count - Done + 1
      PROVE  Counted'[i] = (Counted \o <<rxreq>>)[i]
  <2>a. count - Done \in Nat
    BY CountedShape DEF CountedInSlots
  <2>b. i <= count - Done \/ i = count - Done + 1
    BY <2>a
  <2>1. Counted'[i] = ring[At(i - 1 + Ahead)]
    <3>1. (count - Done)' = count - Done + 1
      BY <1>1, <1>2, <1>4
    <3>2. Counted'[i] = ring'[At(i - 1 + Ahead)']
      BY <1>3, <1>4, <3>1, CountedShapeNext DEF CountedInSlots
    <3>3. QED
      BY <1>1, <1>4, <3>2 DEF At
  <2>2. CASE i <= count - Done
    <3>1. Counted[i] = ring[At(i - 1 + Ahead)]
      BY <2>2, CountedShape DEF CountedInSlots
    <3>2. (Counted \o <<rxreq>>)[i] = Counted[i]
      BY <1>6, <2>a, <2>2, ConcatProperties
    <3>3. QED
      BY <2>1, <3>1, <3>2
  <2>3. CASE i = count - Done + 1
    <3>1. i - 1 + Ahead = Live - 1
      BY <1>1, <1>2, <2>a, <2>3 DEF Done, Ahead, Live, Entering, Leaving
    <3>2. rxslot = At(Live - 1)
      BY <1>1 DEF IInv, RingShape
    <3>3. Counted'[i] = rxreq
      BY <1>2, <2>1, <3>1, <3>2
    <3>4. (Counted \o <<rxreq>>)[i] = <<rxreq>>[1]
      <4>1. i \in 1 .. Len(Counted) + Len(<<rxreq>>) /\ ~(i <= Len(Counted))
            /\ i - Len(Counted) = 1
        BY <1>6, <2>a, <2>3
      <4>2. QED
        BY <1>6, <4>1, ConcatProperties
    <3>5. QED
      BY <1>6, <3>3, <3>4
  <2>4. QED
    BY <2>b, <2>2, <2>3
<1>8. Counted' = Counted \o <<rxreq>>
  <2>1. Counted \o <<rxreq>> \in Seq(Req) /\ Len(Counted \o <<rxreq>>) = count - Done + 1
    BY <1>6, ConcatProperties
  <2>2. QED
    BY <1>6, <1>7, <2>1, SeqEqual
<1>9. Counted' \o <<>> = Counted'
  BY <1>6, ConcatEmptySeq
<1>10. QED
  BY <1>1, <1>5, <1>8, <1>9 DEF Queued, wkVars

(* A request that passes the gate joins the queue, which has room for it.    *)
LEMMA ArriveAccepts ==
  ASSUME IInv, NEW p \in Peer, NEW k \in Kind, Arrive(p, k)
  PROVE  \E m \in Req : Queue!Accept(m)
<1> DEFINE m == [peer |-> p, kind |-> k, id |-> nextId]
<1>1. /\ rxpc = "idle" /\ rxpc' = "claim" /\ count < Ring /\ rxreq' = m
      /\ UNCHANGED <<ring, head, count, wkVars>>
  BY DEF Arrive, AckGate, ringVars
<1>2. m \in Req
  BY DEF IInv, TypeOK, Req
<1>3. /\ Counted \in Seq(Req) /\ Len(Counted) = count - Done
      /\ count - Done \in 0 .. Ring /\ count \in 0 .. Ring /\ Done \in {0, 1}
  BY CountedShape DEF CountedInSlots, IInv, TypeOK, Done
<1>4. Counted' = Counted
  BY <1>1 DEF Counted, Done, First, wkVars
<1>5. Queued = Counted
  BY <1>1, <1>3, ConcatEmptySeq DEF Queued, Incoming
<1>6. Queued' = Counted \o <<m>>
  BY <1>1, <1>4 DEF Queued, Incoming
<1>7. Counted \o <<m>> = Append(Counted, m)
  BY <1>2, <1>3, AppendIsConcat
<1>8. Len(Queued) < Ring
  BY <1>1, <1>3, <1>5, Mesh9pAssumption
<1>9. Queue!Accept(m)
  BY <1>1, <1>5, <1>6, <1>7, <1>8 DEF Queue!Accept, wkVars
<1>10. QED
  BY <1>2, <1>9

(* ConcatProperties, with a name for the first sequence's length.            *)
LEMMA ConcatShape ==
  ASSUME NEW S, NEW a \in Seq(S), NEW b \in Seq(S), NEW n \in Nat, Len(a) = n
  PROVE  /\ a \o b \in Seq(S)
         /\ Len(a \o b) = n + Len(b)
         /\ \A i \in 1 .. n + Len(b) : (a \o b)[i] = IF i <= n THEN a[i] ELSE b[i - n]
BY ConcatProperties

(* The server takes the oldest request, and its reply goes to its sender.    *)
LEMMA ServeServes ==
  ASSUME IInv, Serve
  PROVE  Queue!Serve
<1>1. /\ wkpc = "serve" /\ wkpc' = "advance"
      /\ UNCHANGED <<ring, head, tail, count, rxpc, rxreq>>
  BY DEF Serve, ringVars, rxVars
<1>2. /\ count \in 0 .. Ring /\ count > 0 /\ cur = ring[head].peer /\ head \in Index
  BY <1>1 DEF IInv, TypeOK, WorkHolds
<1>3. Done = 0 /\ Done' = 1 /\ Ahead = 0 /\ Incoming' = Incoming
  BY <1>1 DEF Done, Ahead, Incoming
<1>4. IInv'
  BY ServeStep
<1>5. /\ Counted \in Seq(Req) /\ Len(Counted) = count
      /\ Counted' \in Seq(Req) /\ Len(Counted') = count - 1
  <2>1. (count - Done)' = count - 1 /\ count - Done = count
    BY <1>1, <1>2, <1>3
  <2>2. QED
    BY <1>4, <2>1, CountedShape, CountedShapeNext DEF CountedInSlots
<1>6. \A i \in 1 .. count : Counted[i] = ring[At(i - 1)]
  <2>1. SUFFICES ASSUME NEW i \in 1 .. count PROVE Counted[i] = ring[At(i - 1)]
    OBVIOUS
  <2>2. i \in 1 .. count - Done /\ i - 1 + Ahead = i - 1
    BY <1>2, <1>3
  <2>3. Counted[i] = ring[At(i - 1 + Ahead)]
    BY <2>2, CountedShape DEF CountedInSlots
  <2>4. QED
    BY <2>2, <2>3
<1>7. Counted # <<>> /\ Counted[1] = ring[head]
  <2>1. 1 \in 1 .. count /\ 1 - 1 = 0 /\ Len(Counted) # 0
    BY <1>2, <1>5
  <2>2. Counted[1] = ring[At(0)]
    BY <1>6, <2>1
  <2>3. QED
    BY <1>2, <2>1, <2>2, AtZero, EmptySeq
<1>8. ASSUME NEW i \in 1 .. count - 1
      PROVE  Counted'[i] = Tail(Counted)[i]
  <2>1. i + 1 \in 1 .. count /\ (i + 1) - 1 = i /\ i \in 1 .. Len(Counted) - 1
    BY <1>2, <1>5
  <2>2. Tail(Counted)[i] = Counted[i + 1]
    BY <1>5, <1>7, <2>1, HeadTailProperties
  <2>3. Counted[i + 1] = ring[At(i)]
    BY <1>6, <2>1
  <2>4. Counted'[i] = ring[At(i)]
    <3>1. /\ Ahead' = 1 /\ (count - Done)' = count - 1 /\ i - 1 + Ahead' = i
          /\ \A j : At(j)' = (head + j) % Ring
      BY <1>1, <1>2, <1>3 DEF Ahead, At
    <3>2. Counted'[i] = ring'[At(i - 1 + Ahead)']
      BY <1>4, <3>1, CountedShapeNext DEF CountedInSlots
    <3>3. QED
      BY <1>1, <3>1, <3>2 DEF At
  <2>5. QED
    BY <2>2, <2>3, <2>4
<1>9. Counted' = Tail(Counted)
  <2>1. Tail(Counted) \in Seq(Req) /\ Len(Tail(Counted)) = count - 1
    BY <1>5, <1>7, HeadTailProperties
  <2>2. QED
    BY <1>5, <1>8, <2>1, SeqEqual
<1>10. Incoming \in Seq(Req)
  BY IncomingShape
<1>11. /\ Queued # <<>> /\ Head(Queued) = ring[head] /\ Queued' = Tail(Queued)
  <2>1. /\ Queued \in Seq(Req) /\ Len(Queued) = count + Len(Incoming) /\ Len(Incoming) \in Nat
        /\ \A i \in 1 .. count + Len(Incoming) :
             Queued[i] = IF i <= count THEN Counted[i] ELSE Incoming[i - count]
    BY <1>5, <1>10, ConcatProperties, LenProperties DEF Queued
  <2>2. Queued # <<>> /\ Queued[1] = ring[head]
    BY <1>2, <1>7, <2>1, EmptySeq
  <2>3. Head(Queued) = Queued[1]
    BY <2>1, <2>2
  <2>4. /\ Queued' \in Seq(Req) /\ Len(Queued') = count - 1 + Len(Incoming)
        /\ \A i \in 1 .. count - 1 + Len(Incoming) :
             Queued'[i] = IF i <= count - 1 THEN Counted'[i] ELSE Incoming[i - (count - 1)]
    <3>1. Queued' = Counted' \o Incoming
      BY <1>3 DEF Queued
    <3>2. Counted' \in Seq(Req) /\ Len(Counted') = count - 1 /\ count - 1 \in Nat
      BY <1>2, <1>5
    <3>3. /\ Counted' \o Incoming \in Seq(Req)
          /\ Len(Counted' \o Incoming) = count - 1 + Len(Incoming)
          /\ \A i \in 1 .. count - 1 + Len(Incoming) :
               (Counted' \o Incoming)[i] =
                 IF i <= count - 1 THEN Counted'[i] ELSE Incoming[i - (count - 1)]
      BY <1>10, <3>2, ConcatShape
    <3>4. QED
      BY <3>1, <3>3
  <2>5. /\ Tail(Queued) \in Seq(Req) /\ Len(Tail(Queued)) = count - 1 + Len(Incoming)
        /\ \A i \in 1 .. count - 1 + Len(Incoming) : Tail(Queued)[i] = Queued[i + 1]
    BY <1>2, <2>1, <2>2, HeadTailProperties
  <2>6. ASSUME NEW i \in 1 .. count - 1 + Len(Incoming)
        PROVE  Queued'[i] = Tail(Queued)[i]
    <3>1. i + 1 \in 1 .. count + Len(Incoming)
      BY <1>2, <2>1
    <3>2. CASE i <= count - 1
      <4>1. Queued[i + 1] = Counted[i + 1]
        BY <1>2, <2>1, <3>1, <3>2
      <4>2. Counted'[i] = Tail(Counted)[i] /\ Tail(Counted)[i] = Counted[i + 1]
        BY <1>2, <1>5, <1>7, <1>8, <3>2, HeadTailProperties
      <4>3. QED
        BY <2>4, <2>5, <3>2, <4>1, <4>2
    <3>3. CASE ~(i <= count - 1)
      <4>1. ~(i + 1 <= count) /\ (i + 1) - count = i - (count - 1)
        BY <1>2, <2>1, <3>3
      <4>2. Queued[i + 1] = Incoming[(i + 1) - count]
        BY <2>1, <3>1, <4>1
      <4>3. QED
        BY <2>4, <2>5, <3>3, <4>1, <4>2
    <3>4. QED
      BY <3>2, <3>3
  <2>7. Queued' = Tail(Queued)
    BY <2>4, <2>5, <2>6, SeqEqual
  <2>8. QED
    BY <2>2, <2>3, <2>7
<1>12. \E p \in Queue!Answers(ring[head]) : last' = [req |-> ring[head], to |-> p]
  <2>1. cur = ring[head].peer
    BY <1>2 DEF Serve, IInv, WorkHolds
  <2>2. \/ last' = [req |-> ring[head], to |-> cur]
        \/ ring[head].kind = "read" /\ last' = [req |-> ring[head], to |-> Nobody]
    BY DEF Serve
  <2>3. QED
    BY <2>1, <2>2 DEF Queue!Answers
<1>13. QED
  BY <1>11, <1>12 DEF Queue!Serve

LEMMA NextRefines == IInv /\ [Next]_vars => [Queue!Next]_(Queue!vars)
<1> SUFFICES ASSUME IInv, [Next]_vars
             PROVE  Queue!Next \/ (Queued' = Queued /\ last' = last)
  BY DEF Queue!vars
<1>1. ASSUME NEW p \in Peer, NEW k \in Kind, Arrive(p, k) PROVE Queue!Next
  BY <1>1, ArriveAccepts DEF Queue!Next
<1>2. ASSUME RxNext PROVE Queued' = Queued /\ last' = last
  BY <1>2, ClaimStutters, FillStutters, CountUpStutters, RestStutters DEF RxNext
<1>3. ASSUME WorkNext PROVE Queue!Next \/ (Queued' = Queued /\ last' = last)
  BY <1>3, RestStutters, ServeServes, AdvanceStutters, UncountStutters
     DEF WorkNext, Queue!Next
<1>4. ASSUME \/ \E m \in parked : WorkerReply(m)
             \/ WiredErase \/ WiredReceive \/ WiredEnd \/ UNCHANGED vars
      PROVE  Queued' = Queued /\ last' = last
  <2>1. UNCHANGED <<ring, head, count, rxpc, rxreq, wkpc, last>>
    BY <1>4 DEF WorkerReply, WiredErase, WiredReceive, WiredEnd, vars, ringVars, rxVars, wkVars
  <2>2. QED
    BY <2>1, SameQueue DEF Incoming
<1>5. QED
  BY <1>1, <1>2, <1>3, <1>4 DEF Next

(* The ring of aether_9p_mesh.c is a queue: whatever the interleaving of     *)
(* the RX thread and the work queue, every acknowledged request is served   *)
(* once, in the order of the acknowledgements, none is dropped for want of  *)
(* a slot, and the reply of the server's thread goes to its sender.         *)
THEOREM RingIsQueue == Spec => QueueSafety
<1>1. Spec => Queue!Init
  BY QueueInit DEF Spec
<1>2. Spec => [][Queue!Next]_(Queue!vars)
  BY Invariance, NextRefines, PTL DEF Spec
<1>3. QED
  BY <1>1, <1>2 DEF QueueSafety
=============================================================================

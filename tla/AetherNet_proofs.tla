--------------------------- MODULE AetherNet_proofs ---------------------------
(* Type correctness and the safety invariants of AetherNet, for every pool  *)
(* size, queue depth, set of fids, sessions, readers and in-process users.  *)
EXTENDS AetherNet, TLAPS

(* The sentinel is a datagram like any other: it may sit in every queue.    *)
LEMMA EofType == Eof \in Dgram
BY DEF Eof, Dgram, ConvState

LEMMA ZeroIsSlot == 0 \in Slot
BY NetAssumption DEF Slot

(* What taking or dropping the sentinel marks.                              *)
LEMMA GoneMarks ==
  ASSUME TypeOK, NEW s \in Slot, NEW T, SentinelGone(s, T)
  PROVE  /\ since' \in [Reader -> {"free", "unbound", "bound", "hungup", "beaten"}]
         /\ \A r \in Reader :
              since'[r] = IF r \in Coming(s) \ T THEN "beaten" ELSE since[r]
BY DEF SentinelGone, TypeOK

(* conv_alloc keeps the types, whoever calls it.                            *)
LEMMA ConvAllocType ==
  ASSUME TypeOK, NEW s \in Slot, ConvAlloc(s)
  PROVE  /\ inUse' \in [Slot -> BOOLEAN]
         /\ state' \in [Slot -> ConvState]
         /\ peer' \in [Slot -> Addr \cup {NoAddr}]
         /\ rxq' \in [Slot -> Queue]
         /\ rpc' \in [Reader -> {"idle", "called", "parked", "got", "lost"}]
         /\ rslot' = rslot /\ ritem' = ritem
         /\ since' \in [Reader -> {"free", "unbound", "bound", "hungup", "beaten"}]
<1>1. << >> \in Queue
  BY NetAssumption DEF Queue
<1>2. since' \in [Reader -> {"free", "unbound", "bound", "hungup", "beaten"}]
  BY GoneMarks DEF ConvAlloc
<1>3. QED
  BY <1>1, <1>2 DEF TypeOK, ConvAlloc, ConvState

(* Purging a queue and leaving the sentinel keeps the types.                *)
LEMMA PurgeType ==
  ASSUME TypeOK, NEW s \in Slot, PurgeWithEof(s)
  PROVE  /\ rxq' \in [Slot -> Queue]
         /\ rpc' \in [Reader -> {"idle", "called", "parked", "got", "lost"}]
         /\ rslot' = rslot
         /\ ritem' \in [Reader -> Dgram]
         /\ since' \in [Reader -> {"free", "unbound", "bound", "hungup", "beaten"}]
<1>1. << Eof >> \in Queue
  BY EofType, NetAssumption DEF Queue
<1>2. QED
  BY <1>1, EofType DEF TypeOK, PurgeWithEof

LEMMA ConvFreeType ==
  ASSUME TypeOK, NEW s \in Slot, ConvFree(s)
  PROVE  /\ inUse' \in [Slot -> BOOLEAN]
         /\ state' \in [Slot -> ConvState]
         /\ peer' \in [Slot -> Addr \cup {NoAddr}]
         /\ rxq' \in [Slot -> Queue]
         /\ rpc' \in [Reader -> {"idle", "called", "parked", "got", "lost"}]
         /\ rslot' \in [Reader -> Slot]
         /\ ritem' \in [Reader -> Dgram]
         /\ since' \in [Reader -> {"free", "unbound", "bound", "hungup", "beaten"}]
<1>1. CASE ~inUse[s]
  BY <1>1 DEF TypeOK, ConvFree, connVars, readVars
<1>2. CASE inUse[s]
  <2>1. /\ PurgeWithEof(s)
        /\ inUse' = [inUse EXCEPT ![s] = FALSE]
        /\ state' = [state EXCEPT ![s] = "UNCONNECTED"]
        /\ UNCHANGED peer
    BY <1>2 DEF ConvFree
  <2>2. QED
    BY <2>1, PurgeType DEF TypeOK, ConvState
<1>3. QED
  BY <1>1, <1>2

(* What a frame becomes when it is queued is a datagram.                    *)
LEMMA IdentType ==
  ASSUME NEW b \in Binding, NEW src \in Addr
  PROVE  Ident(b, src) \in Addr
<1>1. CASE \E e \in Eui : b[e] = src
  <2>1. (CHOOSE e \in Eui : b[e] = src) \in Eui
    BY <1>1
  <2>2. QED
    BY <1>1, <2>1 DEF Ident, Addr
<1>2. CASE ~\E e \in Eui : b[e] = src
  BY <1>2 DEF Ident
<1>3. QED
  BY <1>1, <1>2

LEMMA RecvType ==
  ASSUME TypeOK, NEW b \in Binding, NEW src \in Addr, NEW bcast \in BOOLEAN,
         NEW len \in Sizes, NEW W \in SUBSET Reader, Recv(b, src, bcast, len, W)
  PROVE  TypeOK'
<1> DEFINE T == Takers(b, src, bcast)
           ident == IF bcast THEN src ELSE Ident(b, src)
           d(s) == [src |-> ident, raw |-> src, len |-> len, how |-> state[s]]
<1>1. ident \in Addr
  BY IdentType
<1>2. \A s \in Slot : d(s) \in Dgram
  BY <1>1, NetAssumption DEF TypeOK, Dgram
<1> HIDE DEF d, ident, T
<1>3. rxq' \in [Slot -> Queue]
  <2>1. rxq' = [s \in Slot |->
                  IF s \in T /\ Parked(s) = {} /\ Room(s)
                  THEN Append(rxq[s], d(s)) ELSE rxq[s]]
    BY DEF Recv, T, d, ident
  <2>2. ASSUME NEW s \in Slot
        PROVE  /\ rxq[s] \in Queue
               /\ Room(s) => Append(rxq[s], d(s)) \in Queue
    BY <1>2, NetAssumption DEF TypeOK, Queue, Room
  <2>3. QED
    BY <2>1, <2>2
<1>4. ritem' \in [Reader -> Dgram]
  <2>1. ritem' = [r \in Reader |-> IF r \in W THEN d(rslot[r]) ELSE ritem[r]]
    BY DEF Recv, T, d, ident
  <2>2. QED
    BY <2>1, <1>2 DEF TypeOK
<1>5. rpc' \in [Reader -> {"idle", "called", "parked", "got", "lost"}]
  BY DEF Recv, TypeOK
<1>6. rx' \in Nat
  BY DEF Recv, TypeOK
<1>7. QED
  BY <1>3, <1>4, <1>5, <1>6 DEF Recv, TypeOK, fidVars, procVars

LEMMA NextType == TypeOK /\ [Next]_vars => TypeOK'
<1> SUFFICES ASSUME TypeOK, [Next]_vars
             PROVE  TypeOK'
  OBVIOUS
<1>1. CASE RecvUnicast
  BY <1>1, RecvType DEF RecvUnicast, Addr
<1>2. CASE RecvBroadcast
  BY <1>2, RecvType DEF RecvBroadcast, Addr
<1>3. ASSUME NEW f \in Fid, NEW a \in Addr, Connect(f, a)
      PROVE  TypeOK'
  BY <1>3 DEF Connect, TypeOK, ConvState, fidVars, readVars, procVars
<1>4. ASSUME NEW f \in Fid, ConnectBroadcast(f)
      PROVE  TypeOK'
  BY <1>4 DEF ConnectBroadcast, TypeOK, ConvState, fidVars, readVars, procVars
<1>5. ASSUME NEW f \in Fid, Announce(f)
      PROVE  TypeOK'
  BY <1>5 DEF Announce, TypeOK, ConvState, fidVars, readVars, procVars
<1>6. ASSUME NEW f \in Fid, Hangup(f)
      PROVE  TypeOK'
  <2>1. slotOf[f] \in Slot
    BY DEF TypeOK
  <2>2. PurgeWithEof(slotOf[f])
    BY <1>6 DEF Hangup
  <2>3. QED
    BY <1>6, <2>1, <2>2, PurgeType DEF Hangup, TypeOK, ConvState, fidVars, procVars
<1>7. ASSUME NEW f \in Fid, WalkClone(f)
      PROVE  TypeOK'
  <2>1. PICK s \in Slot : /\ ConvAlloc(s)
                          /\ node' = [node EXCEPT ![f] = "ctl"]
                          /\ slotOf' = [slotOf EXCEPT ![f] = s]
    BY <1>7 DEF WalkClone
  <2>2. QED
    BY <1>7, <2>1, ConvAllocType DEF WalkClone, TypeOK, procVars
<1>8. ASSUME NEW f \in Fid, NEW s \in Slot, NEW kind \in {"ctl", "data"},
             WalkConv(f, s, kind)
      PROVE  TypeOK'
  BY <1>8 DEF WalkConv, TypeOK, connVars, readVars, procVars
<1>9. ASSUME NEW f \in Fid, Clunk(f)
      PROVE  TypeOK'
  <2>1. slotOf[f] \in Slot
    BY DEF TypeOK
  <2>2. /\ node' \in [Fid -> {"none", "ctl", "data"}]
        /\ slotOf' \in [Fid -> Slot]
        /\ UNCHANGED <<procVars, rx>>
    BY <1>9, ZeroIsSlot DEF Clunk, TypeOK
  <2>3. CASE ConvFree(slotOf[f])
    BY <2>1, <2>2, <2>3, ConvFreeType DEF TypeOK, procVars
  <2>4. CASE UNCHANGED <<connVars, readVars>>
    BY <2>2, <2>4 DEF TypeOK, procVars, connVars, readVars
  <2>5. QED
    BY <1>9, <2>3, <2>4 DEF Clunk
<1>10. ASSUME NEW se \in Session, Tversion(se)
       PROVE  TypeOK'
  BY <1>10, ZeroIsSlot DEF Tversion, TypeOK, connVars, readVars, procVars
<1>11. ASSUME NEW f \in Fid, NEW r \in Reader, ReadCall(f, r)
       PROVE  TypeOK'
  BY <1>11 DEF ReadCall, TypeOK, SinceStart, connVars, fidVars, procVars
<1>18. ASSUME NEW r \in Reader, ReadGet(r)
       PROVE  TypeOK'
  <2> DEFINE s == rslot[r]
  <2>1. s \in Slot
    BY DEF TypeOK
  <2>2. UNCHANGED <<inUse, state, peer, fidVars, rslot, procVars, rx>>
    BY <1>18 DEF ReadGet
  <2>3. CASE rxq[s] # <<>>
    <3>1. Head(rxq[s]) \in Dgram /\ Tail(rxq[s]) \in Queue
      BY <2>1, <2>3, NetAssumption DEF TypeOK, Queue
    <3>2. /\ rpc' = [rpc EXCEPT ![r] = "got"]
          /\ ritem' = [ritem EXCEPT ![r] = Head(rxq[s])]
          /\ rxq' = [rxq EXCEPT ![s] = Tail(rxq[s])]
          /\ IF Head(rxq[s]) = Eof THEN SentinelGone(s, {r}) ELSE UNCHANGED since
      BY <1>18, <2>1, <2>3 DEF ReadGet, TypeOK
    <3>3. since' \in [Reader -> {"free", "unbound", "bound", "hungup", "beaten"}]
      BY <2>1, <3>2, GoneMarks DEF TypeOK
    <3>4. QED
      BY <2>1, <2>2, <3>1, <3>2, <3>3 DEF TypeOK, fidVars, procVars
  <2>4. CASE rxq[s] = <<>>
    BY <1>18, <2>1, <2>2, <2>4 DEF ReadGet, TypeOK, fidVars, procVars
  <2>5. QED
    BY <2>3, <2>4
<1>12. ASSUME NEW r \in Reader, ReadReturn(r)
       PROVE  TypeOK'
  BY <1>12, ZeroIsSlot, EofType DEF ReadReturn, TypeOK, connVars, fidVars, procVars
<1>13. ASSUME NEW u \in InProc, ProcAlloc(u)
       PROVE  TypeOK'
  <2>1. PICK s \in Slot : ConvAlloc(s) /\ kslot' = [kslot EXCEPT ![u] = s]
    BY <1>13 DEF ProcAlloc
  <2>2. QED
    BY <1>13, <2>1, ConvAllocType DEF ProcAlloc, TypeOK, fidVars
<1>14. ASSUME NEW u \in InProc, NEW e \in Eui, ProcBind(u, e)
       PROVE  TypeOK'
  BY <1>14 DEF ProcBind, TypeOK, ConvState, Addr, fidVars, readVars
<1>15. ASSUME NEW u \in InProc, ProcGet(u)
       PROVE  TypeOK'
  <2>1. Tail(rxq[kslot[u]]) \in Queue
    BY <1>15, NetAssumption DEF ProcGet, TypeOK, Queue
  <2>2. since' \in [Reader -> {"free", "unbound", "bound", "hungup", "beaten"}]
    <3>1. CASE SentinelGone(kslot[u], {})
      BY <3>1, GoneMarks DEF TypeOK
    <3>2. CASE UNCHANGED since
      BY <3>2 DEF TypeOK
    <3>3. QED
      BY <1>15, <3>1, <3>2 DEF ProcGet
  <2>3. QED
    BY <1>15, <2>1, <2>2 DEF ProcGet, TypeOK, fidVars, procVars
<1>16. ASSUME NEW u \in InProc, ProcFree(u)
       PROVE  TypeOK'
  <2>1. kslot[u] \in Slot
    BY DEF TypeOK
  <2>2. QED
    BY <1>16, <2>1, ConvFreeType, ZeroIsSlot DEF ProcFree, TypeOK, fidVars
<1>17. CASE UNCHANGED vars
  BY <1>17 DEF vars, TypeOK
<1>19. QED
  BY <1>1, <1>2, <1>3, <1>4, <1>5, <1>6, <1>7, <1>8, <1>9, <1>10, <1>11, <1>12,
     <1>13, <1>14, <1>15, <1>16, <1>17, <1>18 DEF Next

LEMMA InitType == Init => TypeOK
BY NetAssumption, ZeroIsSlot, EofType DEF Init, TypeOK, ConvState, Queue

(* Every variable keeps its type in every reachable state.                  *)
THEOREM TypeCorrect == Spec => []TypeOK
BY InitType, NextType, PTL DEF Spec

-----------------------------------------------------------------------------
(* Safety *)

(* What is to be preserved besides the types.                               *)
Safe ==
  /\ QueueIsolation
  /\ FreeSlotDrained
  /\ HandIsolation
  /\ HangupWakesReaders
  /\ ReuseStrandsNoLiveRead
  /\ LiveReadLiveSlot
  /\ SentinelWaits

LEMMA IInvIsSafe == IInv <=> TypeOK /\ Safe
BY DEF IInv, Safe, DeliveryIsolation

(* A step that moves neither conversations nor readers, and gives up no     *)
(* slot in use, keeps everything.                                           *)
LEMMA CalmStep ==
  ASSUME TypeOK, Safe, UNCHANGED <<connVars, readVars>>,
         \A t \in Slot : inUse[t] /\ Unheld(t)' => Unheld(t)
  PROVE  Safe'
<1> USE DEF connVars, readVars
<1>1. QueueIsolation'
  BY DEF Safe, QueueIsolation, Belongs
<1>2. FreeSlotDrained'
  BY DEF Safe, FreeSlotDrained
<1>3. HandIsolation'
  BY DEF Safe, HandIsolation, Belongs, LiveReadLiveSlot, TypeOK
<1>4. (HangupWakesReaders /\ ReuseStrandsNoLiveRead /\ LiveReadLiveSlot /\ SentinelWaits)'
  BY DEF Safe, HangupWakesReaders, ReuseStrandsNoLiveRead, LiveReadLiveSlot, SentinelWaits, Coming
<1>5. QED
  BY <1>1, <1>2, <1>3, <1>4 DEF Safe

(* hangup and conv_free: the purged slot holds the sentinel alone and every *)
(* read on it is marked.                                                    *)
LEMMA PurgeStep ==
  ASSUME TypeOK, Safe, NEW s \in Slot, PurgeWithEof(s),
         inUse' \in [Slot -> BOOLEAN],
         \A t \in Slot \ {s} :
           /\ inUse'[t] = inUse[t]
           /\ state'[t] = state[t]
           /\ peer'[t] = peer[t]
           /\ Unheld(t)' => Unheld(t)
  PROVE  Safe'
<1>1. \A t \in Slot : rxq'[t] = IF t = s THEN <<Eof>> ELSE rxq[t]
  BY DEF PurgeWithEof, TypeOK
<1>2. rxq'[s] = <<Eof>> /\ \A i \in 1 .. Len(<<Eof>>) : <<Eof>>[i] = Eof
  BY <1>1
<1>3. QueueIsolation'
  <2> SUFFICES ASSUME NEW t \in Slot, Unheld(t)', inUse'[t], NEW i \in 1 .. Len(rxq'[t])
               PROVE  rxq'[t][i] = Eof \/ Belongs(rxq[t][i], t)'
    BY DEF QueueIsolation, Belongs
  <2>1. CASE t = s
    BY <1>2, <2>1
  <2>2. CASE t # s
    BY <1>1, <2>2 DEF Safe, QueueIsolation, Belongs
  <2>3. QED
    BY <2>1, <2>2
<1>4. FreeSlotDrained'
  <2> SUFFICES ASSUME NEW t \in Slot, ~inUse'[t], NEW i \in 1 .. Len(rxq'[t])
               PROVE  rxq'[t][i] = Eof
    BY DEF FreeSlotDrained
  <2>1. CASE t = s
    BY <1>2, <2>1
  <2>2. CASE t # s
    BY <1>1, <2>2 DEF Safe, FreeSlotDrained
  <2>3. QED
    BY <2>1, <2>2
<1>5. \A r \in Reader :
        /\ rslot'[r] = rslot[r]
        /\ rslot[r] \in Slot
        /\ rslot[r] = s /\ rpc'[r] \in {"called", "parked", "got"} =>
              rpc'[r] \in {"called", "got"} /\ since'[r] = "hungup"
        /\ rslot[r] # s =>
              rpc'[r] = rpc[r] /\ ritem'[r] = ritem[r] /\ since'[r] = since[r]
        /\ rpc'[r] = "lost" => rpc[r] = "lost" /\ since'[r] = since[r]
  BY DEF PurgeWithEof, Parked, Reading, TypeOK
<1>6. HandIsolation'
  <2> SUFFICES ASSUME NEW r \in Reader, rpc'[r] = "got",
                      since'[r] \in {"unbound", "bound"}, Unheld(rslot[r])'
               PROVE  ritem'[r] = Eof \/ Belongs(ritem[r], rslot[r])'
    BY DEF HandIsolation, Belongs
  <2>1. rslot[r] # s
    BY <1>5
  <2>2. QED
    BY <1>5, <2>1 DEF Safe, HandIsolation, Belongs
<1>7. HangupWakesReaders'
  BY <1>5 DEF Safe, HangupWakesReaders
<1>8. ReuseStrandsNoLiveRead'
  BY <1>5 DEF Safe, ReuseStrandsNoLiveRead
<1>9. LiveReadLiveSlot'
  <2> SUFFICES ASSUME NEW r \in Reader, rpc'[r] \in {"called", "parked", "got"},
                      since'[r] \in {"unbound", "bound"}
               PROVE  inUse'[rslot'[r]]
    BY DEF LiveReadLiveSlot
  <2>1. rslot[r] # s
    BY <1>5
  <2>2. QED
    BY <1>5, <2>1 DEF Safe, LiveReadLiveSlot
<1>10. SentinelWaits'
  <2> SUFFICES ASSUME NEW t \in Slot, Coming(t)' # {}
               PROVE  rxq'[t] # <<>> /\ rxq'[t][1] = Eof
    BY DEF SentinelWaits
  <2>1. CASE t = s
    BY <1>1, <2>1
  <2>2. CASE t # s
    <3>1. Coming(t)' = Coming(t)
      BY <1>5, <2>2 DEF Coming
    <3>2. QED
      BY <1>1, <2>2, <3>1 DEF Safe, SentinelWaits
  <2>3. QED
    BY <2>1, <2>2
<1>11. QED
  BY <1>3, <1>4, <1>6, <1>7, <1>8, <1>9, <1>10 DEF Safe

(* conv_free by anyone, once it no longer counts on the slot.               *)
LEMMA ConvFreeStep ==
  ASSUME TypeOK, Safe, NEW s \in Slot, ConvFree(s),
         \A t \in Slot : t # s /\ Unheld(t)' => Unheld(t)
  PROVE  Safe'
<1>1. CASE ~inUse[s]
  <2>1. UNCHANGED <<connVars, readVars>>
    BY <1>1 DEF ConvFree
  <2>2. QED
    BY <1>1, <2>1, CalmStep
<1>2. CASE inUse[s]
  <2>1. /\ PurgeWithEof(s)
        /\ inUse' = [inUse EXCEPT ![s] = FALSE]
        /\ state' = [state EXCEPT ![s] = "UNCONNECTED"]
        /\ UNCHANGED peer
    BY <1>2 DEF ConvFree
  <2>2. QED
    BY <2>1, PurgeStep DEF TypeOK
<1>3. QED
  BY <1>1, <1>2

(* conv_alloc: the new conversation starts empty, and the readers it        *)
(* strands were parked on a free slot.                                      *)
LEMMA ConvAllocStep ==
  ASSUME TypeOK, Safe, NEW s \in Slot, ConvAlloc(s),
         \A t \in Slot : Unheld(t)' => Unheld(t)
  PROVE  Safe'
<1>1. \A t \in Slot :
        IF t = s THEN inUse'[t] /\ rxq'[t] = <<>>
        ELSE /\ inUse'[t] = inUse[t] /\ rxq'[t] = rxq[t]
             /\ state'[t] = state[t] /\ peer'[t] = peer[t]
  BY DEF ConvAlloc, TypeOK
<1>2. \A r \in Reader :
        /\ rslot'[r] = rslot[r] /\ ritem'[r] = ritem[r]
        /\ since'[r] = IF r \in Coming(s) THEN "beaten" ELSE since[r]
        /\ rslot[r] \in Slot
        /\ rpc'[r] = IF rpc[r] = "parked" /\ rslot[r] = s THEN "lost" ELSE rpc[r]
        /\ rslot[r] = s /\ rpc[r] \in {"called", "parked", "got"} =>
             since[r] \notin {"unbound", "bound"}
  <2>1. SentinelGone(s, {}) /\ UNCHANGED <<rslot, ritem>>
        /\ rpc' = [r \in Reader |-> IF r \in Parked(s) THEN "lost" ELSE rpc[r]]
        /\ ~inUse[s]
    BY DEF ConvAlloc
  <2>2. \A r \in Reader : since'[r] = IF r \in Coming(s) THEN "beaten" ELSE since[r]
    BY <2>1, GoneMarks
  <2>3. QED
    BY <2>1, <2>2 DEF Parked, TypeOK, Safe, LiveReadLiveSlot
<1>3. QueueIsolation'
  <2> SUFFICES ASSUME NEW t \in Slot, Unheld(t)', inUse'[t], NEW i \in 1 .. Len(rxq'[t])
               PROVE  rxq'[t][i] = Eof \/ Belongs(rxq[t][i], t)'
    BY DEF QueueIsolation, Belongs
  <2>1. t # s
    BY <1>1
  <2>2. QED
    BY <1>1, <2>1 DEF Safe, QueueIsolation, Belongs
<1>4. FreeSlotDrained'
  BY <1>1 DEF Safe, FreeSlotDrained
<1>5. HandIsolation'
  BY <1>1, <1>2 DEF Safe, HandIsolation, Belongs
<1>6. HangupWakesReaders'
  BY <1>2 DEF Safe, HangupWakesReaders
<1>7. ReuseStrandsNoLiveRead'
  BY <1>2 DEF Safe, ReuseStrandsNoLiveRead, HangupWakesReaders, TypeOK
<1>8. LiveReadLiveSlot'
  BY <1>1, <1>2 DEF Safe, LiveReadLiveSlot
<1>9. SentinelWaits'
  <2> SUFFICES ASSUME NEW t \in Slot, NEW r \in Reader, rpc'[r] = "called", rslot'[r] = t,
                      since'[r] = "hungup"
               PROVE  rxq'[t] # <<>> /\ rxq'[t][1] = Eof
    BY DEF SentinelWaits, Coming
  <2>1. rpc[r] = "called" /\ rslot[r] = t /\ since[r] = "hungup" /\ r \notin Coming(s)
    BY <1>2
  <2>2. r \in Coming(t) /\ t # s
    BY <2>1 DEF Coming
  <2>3. QED
    BY <1>1, <2>2 DEF Safe, SentinelWaits
<1>10. QED
  BY <1>3, <1>4, <1>5, <1>6, <1>7, <1>8, <1>9 DEF Safe

(* connect, announce and an in-process bind: the slot was unbound, so its   *)
(* queue held no datagram, or it is excepted.                               *)
LEMMA RebindStep ==
  ASSUME TypeOK, Safe, NEW s \in Slot,
         UNCHANGED <<inUse, rxq, readVars>>,
         state[s] = "UNCONNECTED" \/ ~Unheld(s)',
         \A t \in Slot : Unheld(t)' => Unheld(t),
         \A t \in Slot \ {s} : state'[t] = state[t] /\ peer'[t] = peer[t]
  PROVE  Safe'
<1> USE DEF readVars
<1>1. QueueIsolation'
  <2> SUFFICES ASSUME NEW t \in Slot, Unheld(t)', inUse[t], NEW i \in 1 .. Len(rxq[t])
               PROVE  rxq[t][i] = Eof \/ Belongs(rxq[t][i], t)'
    BY DEF QueueIsolation, Belongs
  <2>1. rxq[t][i] = Eof \/ Belongs(rxq[t][i], t)
    BY DEF Safe, QueueIsolation
  <2>2. CASE t = s
    BY <2>1, <2>2 DEF Belongs
  <2>3. CASE t # s
    BY <2>1, <2>3 DEF Belongs
  <2>4. QED
    BY <2>2, <2>3
<1>2. FreeSlotDrained'
  BY DEF Safe, FreeSlotDrained
<1>3. HandIsolation'
  <2> SUFFICES ASSUME NEW r \in Reader, rpc[r] = "got",
                      since[r] \in {"unbound", "bound"}, Unheld(rslot[r])'
               PROVE  ritem[r] = Eof \/ Belongs(ritem[r], rslot[r])'
    BY DEF HandIsolation, Belongs
  <2>1. rslot[r] \in Slot
    BY DEF TypeOK
  <2>2. ritem[r] = Eof \/ Belongs(ritem[r], rslot[r])
    BY <2>1 DEF Safe, HandIsolation
  <2>3. CASE rslot[r] = s
    BY <2>2, <2>3 DEF Belongs
  <2>4. CASE rslot[r] # s
    BY <2>1, <2>2, <2>4 DEF Belongs
  <2>5. QED
    BY <2>3, <2>4
<1>4. (HangupWakesReaders /\ ReuseStrandsNoLiveRead /\ LiveReadLiveSlot /\ SentinelWaits)'
  BY DEF Safe, HangupWakesReaders, ReuseStrandsNoLiveRead, LiveReadLiveSlot, SentinelWaits, Coming
<1>5. QED
  BY <1>1, <1>2, <1>3, <1>4 DEF Safe

(* The filter of aether_recv_cb lets in only what belongs to the slot: when  *)
(* the current route of the bound identity is the frame's source, that      *)
(* identity is the one the source resolves to.                              *)
LEMMA TakenBelongs ==
  ASSUME TypeOK, NEW b \in Binding, NEW src \in Addr, NEW bcast \in BOOLEAN,
         bcast \/ src \in Route,
         NEW len \in Sizes, NEW s \in Slot, Takes(s, b, src, bcast),
         NEW d, d = [src |-> IF bcast THEN src ELSE Ident(b, src), raw |-> src,
                     len |-> len, how |-> state[s]]
  PROVE  Belongs(d, s)
<1>1. d.how = state[s] /\ d.raw = src /\ d.src = IF bcast THEN src ELSE Ident(b, src)
  OBVIOUS
<1>2. state[s] # "UNCONNECTED"
  BY DEF Takes
<1>3. ASSUME state[s] = "CONNECTED"
      PROVE  peer[s] \in {d.src, d.raw}
  <2>1. ~bcast
    BY <1>3 DEF Takes
  <2>2. CASE peer[s] \in Eui /\ b[peer[s]] = src
    <3>1. src # NoAddr
      BY <2>1, NetAssumption DEF Addr
    <3>2. \A e \in Eui : b[e] = src => e = peer[s]
      BY <2>2, <3>1 DEF Binding
    <3>3. Ident(b, src) = peer[s]
      BY <2>2, <3>2 DEF Ident
    <3>4. QED
      BY <1>1, <2>1, <3>3
  <2>3. CASE peer[s] \in {Ident(b, src), src}
    BY <1>1, <2>1, <2>3
  <2>4. QED
    BY <1>3, <2>1, <2>2, <2>3 DEF Takes
<1>4. QED
  BY <1>1, <1>2, <1>3 DEF Belongs

LEMMA RecvStep ==
  ASSUME TypeOK, Safe, NEW b \in Binding, NEW src \in Addr, NEW bcast \in BOOLEAN,
         bcast \/ src \in Route,
         NEW len \in Sizes, NEW W \in SUBSET Reader, Recv(b, src, bcast, len, W)
  PROVE  Safe'
<1> DEFINE T == Takers(b, src, bcast)
           d(s) == [src |-> IF bcast THEN src ELSE Ident(b, src), raw |-> src,
                    len |-> len, how |-> state[s]]
<1>1. \A s \in T : s \in Slot /\ inUse[s] /\ Belongs(d(s), s)
  BY TakenBelongs DEF Takes, Takers
<1>2. \A s \in Slot : d(s) \in Dgram
  <2>1. (IF bcast THEN src ELSE Ident(b, src)) \in Addr
    BY IdentType
  <2>2. QED
    BY <2>1, NetAssumption DEF Dgram, TypeOK
<1>3. \A s \in Slot : rxq'[s] = IF s \in T /\ Parked(s) = {} /\ Room(s)
                                THEN Append(rxq[s], d(s)) ELSE rxq[s]
  BY DEF Recv
<1>4. \A r \in Reader :
        /\ rpc'[r] = IF r \in W THEN "got" ELSE rpc[r]
        /\ ritem'[r] = IF r \in W THEN d(rslot[r]) ELSE ritem[r]
  BY DEF Recv
<1>5. \A r \in W : r \in Reader /\ rslot[r] \in T /\ rpc[r] = "parked"
  BY DEF Recv, OneReaderEach, Parked
<1>6. UNCHANGED <<inUse, state, peer, rslot, since, kpc, kslot>>
  BY DEF Recv, procVars
<1> HIDE DEF T, d
<1>7. QueueIsolation'
  <2> SUFFICES ASSUME NEW s \in Slot, Unheld(s), inUse[s], NEW i \in 1 .. Len(rxq'[s])
               PROVE  rxq'[s][i] = Eof \/ Belongs(rxq'[s][i], s)
    BY <1>6 DEF QueueIsolation, Belongs, Unheld
  <2>1. \A j \in 1 .. Len(rxq[s]) : rxq[s][j] = Eof \/ Belongs(rxq[s][j], s)
    BY DEF Safe, QueueIsolation
  <2>2. CASE rxq'[s] = rxq[s]
    BY <2>1, <2>2
  <2>3. CASE s \in T /\ rxq'[s] = Append(rxq[s], d(s))
    <3>1. rxq[s] \in Seq(Dgram) /\ d(s) \in Dgram
      BY <1>2 DEF TypeOK, Queue
    <3>2. rxq'[s][i] = d(s) \/ (i \in 1 .. Len(rxq[s]) /\ rxq'[s][i] = rxq[s][i])
      BY <2>3, <3>1
    <3>3. Belongs(d(s), s)
      BY <1>1, <2>3
    <3>4. CASE rxq'[s][i] = d(s)
      BY <3>3, <3>4
    <3>5. CASE i \in 1 .. Len(rxq[s]) /\ rxq'[s][i] = rxq[s][i]
      <4>1. rxq[s][i] = Eof \/ Belongs(rxq[s][i], s)
        BY <2>1, <3>5
      <4>2. QED
        BY <3>5, <4>1
    <3>6. QED
      BY <3>2, <3>4, <3>5
  <2>4. QED
    BY <1>3, <2>2, <2>3
<1>8. FreeSlotDrained'
  BY <1>1, <1>3, <1>6 DEF Safe, FreeSlotDrained
<1>9. HandIsolation'
  <2> SUFFICES ASSUME NEW r \in Reader, rpc'[r] = "got",
                      since[r] \in {"unbound", "bound"}, Unheld(rslot[r])
               PROVE  ritem'[r] = Eof \/ Belongs(ritem'[r], rslot[r])
    BY <1>6 DEF HandIsolation, Belongs, Unheld
  <2>1. CASE r \in W
    BY <1>1, <1>4, <1>5, <2>1
  <2>2. CASE r \notin W
    BY <1>4, <2>2 DEF Safe, HandIsolation
  <2>3. QED
    BY <2>1, <2>2
<1>10. HangupWakesReaders'
  BY <1>4, <1>6 DEF Safe, HangupWakesReaders
<1>11. ReuseStrandsNoLiveRead'
  BY <1>4, <1>6 DEF Safe, ReuseStrandsNoLiveRead
<1>12. LiveReadLiveSlot'
  BY <1>4, <1>5, <1>6 DEF Safe, LiveReadLiveSlot
<1>13. SentinelWaits'
  <2> SUFFICES ASSUME NEW t \in Slot, NEW r \in Coming(t)'
               PROVE  rxq'[t] # <<>> /\ rxq'[t][1] = Eof
    BY DEF SentinelWaits
  <2>1. r \in Coming(t)
    BY <1>4, <1>5, <1>6 DEF Coming
  <2>2. rxq[t] # <<>> /\ rxq[t][1] = Eof /\ rxq[t] \in Seq(Dgram)
    BY <2>1 DEF Safe, SentinelWaits, TypeOK, Queue
  <2>3. CASE rxq'[t] = rxq[t]
    BY <2>2, <2>3
  <2>4. CASE rxq'[t] = Append(rxq[t], d(t))
    BY <1>2, <2>2, <2>4
  <2>5. QED
    BY <1>3, <2>3, <2>4
<1>14. QED
  BY <1>7, <1>8, <1>9, <1>10, <1>11, <1>12, <1>13 DEF Safe

(* What is left when the head of a queue is taken was in it before.         *)
LEMMA TailSub ==
  ASSUME NEW q \in Seq(Dgram), q # <<>>, NEW i \in 1 .. Len(Tail(q))
  PROVE  \E j \in 1 .. Len(q) : Tail(q)[i] = q[j]
<1>1. i + 1 \in 1 .. Len(q) /\ Tail(q)[i] = q[i + 1]
  OBVIOUS
<1>2. QED
  BY <1>1

(* A worker takes the read up.                                              *)
LEMMA ReadCallStep ==
  ASSUME TypeOK, Safe, NEW f \in Fid, NEW w \in Reader, ReadCall(f, w)
  PROVE  Safe'
<1> DEFINE s == slotOf[f]
<1>1. UNCHANGED <<inUse, state, peer, rxq, ritem, kpc, kslot>>
  BY DEF ReadCall, connVars, procVars
<1>2. rpc'[w] = "called" /\ rslot'[w] = s /\ since'[w] = SinceStart(s) /\ s \in Slot
  BY DEF ReadCall, TypeOK
<1>3. /\ SinceStart(s) \in {"free", "unbound", "bound"}
      /\ SinceStart(s) = "free" <=> ~inUse[s]
  BY DEF SinceStart
<1>4. \A r \in Reader \ {w} : rpc'[r] = rpc[r] /\ rslot'[r] = rslot[r] /\ since'[r] = since[r]
  BY DEF ReadCall, TypeOK
<1> HIDE DEF s
<1>5. QueueIsolation' /\ FreeSlotDrained'
  BY <1>1 DEF Safe, QueueIsolation, FreeSlotDrained, Belongs, Unheld
<1>6. HandIsolation'
  BY <1>1, <1>2, <1>4 DEF Safe, HandIsolation, Belongs, Unheld
<1>7. (HangupWakesReaders /\ ReuseStrandsNoLiveRead)'
  BY <1>2, <1>4 DEF Safe, HangupWakesReaders, ReuseStrandsNoLiveRead
<1>8. LiveReadLiveSlot'
  BY <1>1, <1>2, <1>3, <1>4 DEF Safe, LiveReadLiveSlot
<1>9. SentinelWaits'
  <2>1. \A t \in Slot : Coming(t)' \subseteq Coming(t)
    BY <1>2, <1>3, <1>4 DEF Coming
  <2>2. QED
    BY <1>1, <2>1 DEF Safe, SentinelWaits
<1>10. QED
  BY <1>5, <1>6, <1>7, <1>8, <1>9 DEF Safe

(* Taking the head of a queue leaves the sentinel for those who count on it.  *)
LEMMA HeadTaken ==
  ASSUME TypeOK, Safe, NEW s \in Slot, rxq[s] # <<>>, NEW T \in SUBSET Reader,
         rxq' = [rxq EXCEPT ![s] = Tail(@)],
         IF Head(rxq[s]) = Eof THEN SentinelGone(s, T) ELSE UNCHANGED since,
         rslot' = rslot,
         \A r \in Reader : rpc'[r] = "called" => rpc[r] = "called" /\ r \notin T
  PROVE  SentinelWaits'
<1> SUFFICES ASSUME NEW t \in Slot, NEW r \in Reader, rpc'[r] = "called", rslot[r] = t,
                    since'[r] = "hungup"
             PROVE  rxq'[t] # <<>> /\ rxq'[t][1] = Eof
  BY DEF SentinelWaits, Coming
<1>1. rpc[r] = "called" /\ r \notin T
  OBVIOUS
<1>2. since[r] = "hungup" /\ ~(Head(rxq[s]) = Eof /\ r \in Coming(s))
  <2>1. CASE Head(rxq[s]) = Eof
    <3>1. since'[r] = IF r \in Coming(s) \ T THEN "beaten" ELSE since[r]
      BY <2>1, GoneMarks
    <3>2. QED
      BY <1>1, <3>1
  <2>2. CASE Head(rxq[s]) # Eof
    BY <2>2
  <2>3. QED
    BY <2>1, <2>2
<1>3. r \in Coming(t)
  BY <1>1, <1>2 DEF Coming
<1>4. rxq[t] # <<>> /\ rxq[t][1] = Eof
  BY <1>3 DEF Safe, SentinelWaits
<1>5. Head(rxq[s]) = rxq[s][1]
  <2>1. rxq[s] \in Seq(Dgram)
    BY DEF TypeOK, Queue
  <2>2. QED
    BY <2>1
<1>6. t # s
  BY <1>2, <1>3, <1>4, <1>5
<1>7. QED
  BY <1>4, <1>6 DEF TypeOK

(* A data read takes the head of its slot's queue, or parks.                 *)
LEMMA ReadGetStep ==
  ASSUME TypeOK, Safe, NEW w \in Reader, ReadGet(w)
  PROVE  Safe'
<1> DEFINE s == rslot[w]
<1>1. s \in Slot /\ rpc[w] = "called" /\ rslot[w] = s
  BY DEF ReadGet, TypeOK
<1>2. UNCHANGED <<inUse, state, peer, kpc, kslot, rslot>>
  BY DEF ReadGet, procVars
<1>3. \A r \in Reader \ {w} :
        rpc'[r] = rpc[r] /\ rslot'[r] = rslot[r] /\ ritem'[r] = ritem[r]
  BY DEF ReadGet, TypeOK
<1>4. /\ rslot'[w] = s
      /\ \/ /\ rxq[s] # <<>> /\ rpc'[w] = "got" /\ ritem'[w] = Head(rxq[s])
            /\ rxq' = [rxq EXCEPT ![s] = Tail(@)]
            /\ IF Head(rxq[s]) = Eof THEN SentinelGone(s, {w}) ELSE UNCHANGED since
         \/ rxq[s] = <<>> /\ rpc'[w] = "parked" /\ rxq' = rxq /\ since' = since
  BY DEF ReadGet, TypeOK
<1>5. /\ since'[w] = since[w]
      /\ \A r \in Reader : since'[r] = since[r]
                           \/ (since[r] = "hungup" /\ since'[r] = "beaten")
  <2>1. CASE SentinelGone(s, {w})
    <3>1. \A r \in Reader : since'[r] = IF r \in Coming(s) \ {w} THEN "beaten" ELSE since[r]
      BY <1>1, <2>1, GoneMarks
    <3>2. QED
      BY <3>1 DEF Coming
  <2>2. CASE UNCHANGED since
    BY <2>2
  <2>3. QED
    BY <1>4, <2>1, <2>2
<1>6. \A t \in Slot : \A i \in 1 .. Len(rxq'[t]) :
        \E j \in 1 .. Len(rxq[t]) : rxq'[t][i] = rxq[t][j]
  <2> SUFFICES ASSUME NEW t \in Slot, NEW i \in 1 .. Len(rxq'[t])
               PROVE  \E j \in 1 .. Len(rxq[t]) : rxq'[t][i] = rxq[t][j]
    OBVIOUS
  <2>1. CASE rxq'[t] = rxq[t]
    BY <2>1
  <2>2. CASE rxq[t] # <<>> /\ rxq'[t] = Tail(rxq[t])
    <3>1. rxq[t] \in Seq(Dgram)
      BY DEF TypeOK, Queue
    <3>2. QED
      BY <2>2, <3>1, TailSub
  <2>3. QED
    BY <1>1, <1>4, <2>1, <2>2 DEF TypeOK
<1> HIDE DEF s
<1>7. QueueIsolation'
  BY <1>2, <1>6 DEF Safe, QueueIsolation, Belongs, Unheld
<1>8. FreeSlotDrained'
  BY <1>2, <1>6 DEF Safe, FreeSlotDrained
<1>9. HandIsolation'
  <2> SUFFICES ASSUME NEW r \in Reader, rpc'[r] = "got",
                      since'[r] \in {"unbound", "bound"}, Unheld(rslot'[r])
               PROVE  ritem'[r] = Eof \/ Belongs(ritem'[r], rslot'[r])
    BY <1>2 DEF HandIsolation, Belongs, Unheld
  <2>1. CASE r = w
    <3>1. /\ rxq[s] # <<>> /\ ritem'[w] = Head(rxq[s]) /\ rslot'[w] = s /\ inUse[s]
      BY <1>1, <1>2, <1>4, <1>5, <2>1 DEF Safe, LiveReadLiveSlot
    <3>2. 1 \in 1 .. Len(rxq[s]) /\ Head(rxq[s]) = rxq[s][1]
      <4>1. rxq[s] \in Seq(Dgram)
        BY <1>1 DEF TypeOK, Queue
      <4>2. QED
        BY <3>1, <4>1
    <3>3. rxq[s][1] = Eof \/ Belongs(rxq[s][1], s)
      BY <1>1, <2>1, <3>1, <3>2 DEF Safe, QueueIsolation
    <3>4. QED
      BY <2>1, <3>1, <3>2, <3>3
  <2>2. CASE r # w
    BY <1>3, <1>5, <2>2 DEF Safe, HandIsolation
  <2>3. QED
    BY <2>1, <2>2
<1>10. HangupWakesReaders'
  <2> SUFFICES ASSUME NEW r \in Reader, rpc'[r] = "parked", since'[r] = "hungup"
               PROVE  FALSE
    BY DEF HangupWakesReaders
  <2>1. CASE r = w
    <3>1. rxq[s] = <<>> /\ since[w] = "hungup"
      BY <1>4, <1>5, <2>1
    <3>2. w \in Coming(s)
      BY <1>1, <3>1 DEF Coming
    <3>3. QED
      BY <1>1, <3>1, <3>2 DEF Safe, SentinelWaits
  <2>2. CASE r # w
    BY <1>3, <2>2, <1>5 DEF Safe, HangupWakesReaders
  <2>3. QED
    BY <2>1, <2>2
<1>11. ReuseStrandsNoLiveRead'
  BY <1>3, <1>4, <1>5 DEF Safe, ReuseStrandsNoLiveRead
<1>12. LiveReadLiveSlot'
  BY <1>1, <1>2, <1>3, <1>4, <1>5 DEF Safe, LiveReadLiveSlot
<1>13. SentinelWaits'
  <2>1. CASE rxq[s] # <<>>
    <3>1. \A r \in Reader : rpc'[r] = "called" => rpc[r] = "called" /\ r \notin {w}
      BY <1>3, <1>4, <2>1
    <3>2. QED
      BY <1>1, <1>2, <1>4, <2>1, <3>1, HeadTaken
  <2>2. CASE rxq[s] = <<>>
    <3>1. \A t \in Slot : Coming(t)' \subseteq Coming(t)
      BY <1>2, <1>3, <1>4, <2>2 DEF Coming
    <3>2. QED
      BY <1>4, <2>2, <3>1 DEF Safe, SentinelWaits
  <2>3. QED
    BY <2>1, <2>2
<1>14. QED
  BY <1>7, <1>8, <1>9, <1>10, <1>11, <1>12, <1>13 DEF Safe

LEMMA ReadReturnStep ==
  ASSUME TypeOK, Safe, NEW w \in Reader, ReadReturn(w)
  PROVE  Safe'
<1>1. UNCHANGED <<inUse, state, peer, rxq, kpc, kslot>>
  BY DEF ReadReturn, connVars, procVars
<1>2. rpc'[w] = "idle"
  BY DEF ReadReturn, TypeOK
<1>3. \A r \in Reader \ {w} :
        /\ rpc'[r] = rpc[r] /\ rslot'[r] = rslot[r]
        /\ ritem'[r] = ritem[r] /\ since'[r] = since[r]
  BY DEF ReadReturn, TypeOK
<1>4. QueueIsolation' /\ FreeSlotDrained'
  BY <1>1 DEF Safe, QueueIsolation, FreeSlotDrained, Belongs, Unheld
<1>5. HandIsolation'
  BY <1>1, <1>2, <1>3 DEF Safe, HandIsolation, Belongs, Unheld
<1>6. (HangupWakesReaders /\ ReuseStrandsNoLiveRead /\ LiveReadLiveSlot /\ SentinelWaits)'
  BY <1>1, <1>2, <1>3
     DEF Safe, HangupWakesReaders, ReuseStrandsNoLiveRead, LiveReadLiveSlot, SentinelWaits, Coming
<1>7. QED
  BY <1>4, <1>5, <1>6 DEF Safe

LEMMA ProcGetStep ==
  ASSUME TypeOK, Safe, NEW u \in InProc, ProcGet(u)
  PROVE  Safe'
<1>1. UNCHANGED <<inUse, state, peer, rpc, rslot, ritem, kpc, kslot>>
  BY DEF ProcGet, procVars
<1>2. kslot[u] \in Slot /\ rxq[kslot[u]] # <<>> /\ rxq[kslot[u]] \in Seq(Dgram)
  BY DEF ProcGet, TypeOK, Queue
<1>3. \A t \in Slot : rxq'[t] = IF t = kslot[u] THEN Tail(rxq[t]) ELSE rxq[t]
  BY DEF ProcGet, TypeOK
<1>4. \A t \in Slot : \A i \in 1 .. Len(rxq'[t]) :
        \E j \in 1 .. Len(rxq[t]) : rxq'[t][i] = rxq[t][j]
  <2> SUFFICES ASSUME NEW t \in Slot, NEW i \in 1 .. Len(rxq'[t])
               PROVE  \E j \in 1 .. Len(rxq[t]) : rxq'[t][i] = rxq[t][j]
    OBVIOUS
  <2>1. CASE t # kslot[u]
    BY <1>3, <2>1
  <2>2. CASE t = kslot[u]
    <3>1. rxq'[t] = Tail(rxq[t]) /\ rxq[t] # <<>> /\ rxq[t] \in Seq(Dgram)
      BY <1>2, <1>3, <2>2
    <3>2. QED
      BY <3>1, TailSub
  <2>3. QED
    BY <2>1, <2>2
<1>5. QueueIsolation' /\ FreeSlotDrained'
  <2>1. \A t \in Slot : Unheld(t)' <=> Unheld(t)
    BY <1>1 DEF Unheld
  <2>2. QueueIsolation'
    BY <1>1, <1>4, <2>1 DEF Safe, QueueIsolation, Belongs
  <2>3. FreeSlotDrained'
    BY <1>1, <1>4 DEF Safe, FreeSlotDrained
  <2>4. QED
    BY <2>2, <2>3
<1>6. IF Head(rxq[kslot[u]]) = Eof THEN SentinelGone(kslot[u], {}) ELSE UNCHANGED since
  BY DEF ProcGet
<1>7. \A r \in Reader : since'[r] = since[r] \/ (since[r] = "hungup" /\ since'[r] = "beaten")
  <2>1. CASE SentinelGone(kslot[u], {})
    <3>1. \A r \in Reader :
            since'[r] = IF r \in Coming(kslot[u]) \ {} THEN "beaten" ELSE since[r]
      BY <1>2, <2>1, GoneMarks
    <3>2. QED
      BY <3>1 DEF Coming
  <2>2. QED
    BY <1>6, <2>1
<1>8. HandIsolation'
  BY <1>1, <1>7 DEF Safe, HandIsolation, Belongs, Unheld
<1>9. (HangupWakesReaders /\ ReuseStrandsNoLiveRead /\ LiveReadLiveSlot)'
  BY <1>1, <1>7 DEF Safe, HangupWakesReaders, ReuseStrandsNoLiveRead, LiveReadLiveSlot
<1>10. SentinelWaits'
  <2>1. rxq' = [rxq EXCEPT ![kslot[u]] = Tail(@)]
    BY DEF ProcGet
  <2>2. {} \in SUBSET Reader /\ rslot' = rslot
        /\ \A r \in Reader : rpc'[r] = "called" => rpc[r] = "called" /\ r \notin {}
    BY <1>1
  <2> DEFINE s == kslot[u]
  <2>3. s \in Slot /\ rxq[s] # <<>> /\ rxq' = [rxq EXCEPT ![s] = Tail(@)]
        /\ IF Head(rxq[s]) = Eof THEN SentinelGone(s, {}) ELSE UNCHANGED since
    BY <1>2, <1>6, <2>1
  <2> HIDE DEF s
  <2>4. QED
    BY <2>2, <2>3, HeadTaken
<1>11. QED
  BY <1>5, <1>8, <1>9, <1>10 DEF Safe

(* Every step keeps the safety invariants.                                  *)
LEMMA NextSafe == TypeOK /\ Safe /\ [Next]_vars => Safe'
<1> SUFFICES ASSUME TypeOK, Safe, [Next]_vars
             PROVE  Safe'
  OBVIOUS
<1>1. CASE UNCHANGED vars
  BY <1>1, CalmStep DEF vars, connVars, readVars, procVars, Unheld
<1>2. CASE RecvUnicast
  <2>1. PICK b \in Binding, src \in Route, len \in Sizes, W \in SUBSET Reader :
          Recv(b, src, FALSE, len, W)
    BY <1>2 DEF RecvUnicast
  <2>2. src \in Addr
    BY DEF Addr
  <2>3. QED
    BY <2>1, <2>2, RecvStep
<1>3. CASE RecvBroadcast
  <2>1. PICK b \in Binding, src \in Eui, len \in Sizes, W \in SUBSET Reader :
          Recv(b, src, TRUE, len, W)
    BY <1>3 DEF RecvBroadcast
  <2>2. src \in Addr
    BY DEF Addr
  <2>3. QED
    BY <2>1, <2>2, RecvStep
<1>4. ASSUME NEW f \in Fid, NEW a \in Addr, Connect(f, a)
      PROVE  Safe'
  <2>1. slotOf[f] \in Slot
    BY DEF TypeOK
  <2>2. QED
    BY <1>4, <2>1, RebindStep DEF Connect, TypeOK, Unheld, procVars
<1>5. ASSUME NEW f \in Fid, ConnectBroadcast(f)
      PROVE  Safe'
  <2>1. slotOf[f] \in Slot
    BY DEF TypeOK
  <2>2. QED
    BY <1>5, <2>1, RebindStep DEF ConnectBroadcast, TypeOK, Unheld, procVars
<1>6. ASSUME NEW f \in Fid, Announce(f)
      PROVE  Safe'
  <2>1. slotOf[f] \in Slot
    BY DEF TypeOK
  <2>2. QED
    BY <1>6, <2>1, RebindStep DEF Announce, TypeOK, Unheld, procVars
<1>7. ASSUME NEW f \in Fid, Hangup(f)
      PROVE  Safe'
  <2>1. slotOf[f] \in Slot
    BY DEF TypeOK
  <2>2. QED
    BY <1>7, <2>1, PurgeStep DEF Hangup, TypeOK, Unheld, procVars
<1>8. ASSUME NEW f \in Fid, WalkClone(f)
      PROVE  Safe'
  <2>1. PICK s \in Slot : ConvAlloc(s)
    BY <1>8 DEF WalkClone
  <2>2. QED
    BY <1>8, <2>1, ConvAllocStep DEF WalkClone, Unheld, procVars
<1>9. ASSUME NEW f \in Fid, NEW s \in Slot, NEW kind \in {"ctl", "data"},
             WalkConv(f, s, kind)
      PROVE  Safe'
  BY <1>9, CalmStep DEF WalkConv, Unheld, procVars
<1>10. ASSUME NEW f \in Fid, Clunk(f)
       PROVE  Safe'
  <2>1. slotOf[f] \in Slot /\ UNCHANGED <<kpc, kslot>>
    BY <1>10 DEF TypeOK, Clunk, procVars
  <2>2. CASE ConvFree(slotOf[f])
    BY <2>1, <2>2, ConvFreeStep DEF Unheld
  <2>3. CASE UNCHANGED <<connVars, readVars>>
    BY <2>1, <2>3, CalmStep DEF Unheld
  <2>4. QED
    BY <1>10, <2>2, <2>3 DEF Clunk
<1>11. ASSUME NEW se \in Session, Tversion(se)
       PROVE  Safe'
  BY <1>11, CalmStep DEF Tversion, Unheld, procVars
<1>12. ASSUME NEW f \in Fid, NEW r \in Reader, ReadCall(f, r)
       PROVE  Safe'
  BY <1>12, ReadCallStep
<1>18. ASSUME NEW r \in Reader, ReadGet(r)
       PROVE  Safe'
  BY <1>18, ReadGetStep
<1>13. ASSUME NEW r \in Reader, ReadReturn(r)
       PROVE  Safe'
  BY <1>13, ReadReturnStep
<1>14. ASSUME NEW u \in InProc, ProcAlloc(u)
       PROVE  Safe'
  <2>1. PICK s \in Slot : ConvAlloc(s) /\ kslot' = [kslot EXCEPT ![u] = s]
    BY <1>14 DEF ProcAlloc
  <2>2. kpc[u] = "idle" /\ kpc' = [kpc EXCEPT ![u] = "alloced"]
    BY <1>14 DEF ProcAlloc
  <2>3. \A t \in Slot : Unheld(t)' => Unheld(t)
    BY <2>1, <2>2 DEF Unheld, TypeOK
  <2>4. QED
    BY <2>1, <2>3, ConvAllocStep
<1>15. ASSUME NEW u \in InProc, NEW e \in Eui, ProcBind(u, e)
       PROVE  Safe'
  <2>1. /\ kslot[u] \in Slot /\ kslot' = kslot /\ kpc[u] = "alloced"
        /\ kpc' = [kpc EXCEPT ![u] = "bound"]
    BY <1>15 DEF TypeOK, ProcBind
  <2>2. ~Unheld(kslot[u])' /\ \A t \in Slot : Unheld(t)' => Unheld(t)
    BY <2>1 DEF Unheld, TypeOK
  <2>3. UNCHANGED <<inUse, rxq, readVars>>
    BY <1>15 DEF ProcBind
  <2>4. \A t \in Slot \ {kslot[u]} : state'[t] = state[t] /\ peer'[t] = peer[t]
    BY <1>15 DEF ProcBind, TypeOK
  <2>5. QED
    BY <2>1, <2>2, <2>3, <2>4, RebindStep
<1>16. ASSUME NEW u \in InProc, ProcGet(u)
       PROVE  Safe'
  BY <1>16, ProcGetStep
<1>17. ASSUME NEW u \in InProc, ProcFree(u)
       PROVE  Safe'
  <2>1. kslot[u] \in Slot /\ ConvFree(kslot[u])
    BY <1>17 DEF TypeOK, ProcFree
  <2>2. QED
    <3>1. kslot' = [kslot EXCEPT ![u] = 0] /\ kpc' = [kpc EXCEPT ![u] = "idle"]
      BY <1>17 DEF ProcFree
    <3>2. \A t \in Slot : t # kslot[u] /\ Unheld(t)' => Unheld(t)
      BY <3>1 DEF Unheld, TypeOK
    <3>3. QED
      BY <2>1, <3>2, ConvFreeStep
<1>19. QED
  BY <1>1, <1>2, <1>3, <1>4, <1>5, <1>6, <1>7, <1>8, <1>9, <1>10, <1>11, <1>12,
     <1>13, <1>14, <1>15, <1>16, <1>17, <1>18 DEF Next

LEMMA InitSafe == Init => Safe
BY DEF Init, Safe, QueueIsolation, FreeSlotDrained, HandIsolation,
       HangupWakesReaders, ReuseStrandsNoLiveRead, LiveReadLiveSlot, SentinelWaits, Coming

(* The inductive invariant: the types, the three isolation facts, the two   *)
(* facts about blocked readers, LiveReadLiveSlot, which ties a reader to a   *)
(* slot nobody has freed and so lets the reuse of a slot be analysed, and   *)
(* SentinelWaits: the sentinel heads the queue that a hungup read comes to. *)
THEOREM Invariance == Spec => []IInv
<1>1. Init => TypeOK /\ Safe
  BY InitSafe, InitType
<1>2. TypeOK /\ Safe /\ [Next]_vars => (TypeOK /\ Safe)'
  BY NextType, NextSafe
<1>3. Spec => [](TypeOK /\ Safe)
  BY <1>1, <1>2, PTL DEF Spec
<1>4. QED
  BY <1>3, IInvIsSafe, PTL

(* A conversation only ever holds and hands out what came from what it is    *)
(* bound to (aether_recv_cb, ctl_exec, conv_alloc, conv_free), for every     *)
(* pool, queue depth, set of fids, readers and in-process sessions.          *)
THEOREM DeliveryIsolated == Spec => []DeliveryIsolation
BY Invariance, PTL DEF IInv

(* hangup and conv_free leave no reader of the conversation blocked, parked  *)
(* or still on its way to the queue, unless it was beaten to the sentinel.   *)
THEOREM ReadersWoken == Spec => []HangupWakesReaders
BY Invariance, PTL DEF IInv

(* conv_alloc strands no read that parked on a live conversation.            *)
THEOREM LiveReadsSurviveReuse == Spec => []ReuseStrandsNoLiveRead
BY Invariance, PTL DEF IInv
(* Only a frame counts.                                                      *)
LEMMA OnlyRecvCounts ==
  ASSUME [Next]_vars, rx' # rx
  PROVE  \E b \in Binding, src \in Addr, bcast \in BOOLEAN, len \in Sizes, W \in SUBSET Reader :
           Recv(b, src, bcast, len, W)
<1>1. RecvUnicast \/ RecvBroadcast
  BY DEF Next, vars, Connect, ConnectBroadcast, Announce, Hangup, WalkClone, WalkConv, Clunk,
         Tversion, ReadCall, ReadGet, ReadReturn, ProcAlloc, ProcBind, ProcGet, ProcFree
<1>2. QED
  BY <1>1 DEF RecvUnicast, RecvBroadcast, Addr

(* A frame that a party line takes is a broadcast.                           *)
LEMMA PartyLineGot ==
  ASSUME TypeOK, NEW b, NEW src, NEW bcast, NEW len, NEW W \in SUBSET Reader,
         Recv(b, src, bcast, len, W),
         NEW s \in Slot, inUse[s], state[s] = "BCAST", Got(s)
  PROVE  bcast
<1>1. s \in Takers(b, src, bcast)
  <2>1. CASE rxq'[s] # rxq[s]
    BY <2>1 DEF Recv
  <2>2. CASE \E r \in Parked(s) : rpc'[r] = "got"
    <3>1. PICK r \in Reader : rpc[r] = "parked" /\ rslot[r] = s /\ rpc'[r] = "got"
      BY <2>2 DEF Parked
    <3>2. r \in W
      BY <3>1 DEF Recv
    <3>3. QED
      BY <3>1, <3>2 DEF Recv, OneReaderEach
  <2>3. QED
    BY <2>1, <2>2 DEF Got
<1>2. QED
  BY <1>1 DEF Takers, Takes

(* A broadcast reaches every party line that has room.                       *)
LEMMA PartyLineGets ==
  ASSUME TypeOK, NEW b, NEW src \in Addr, NEW len \in Sizes, NEW W \in SUBSET Reader,
         Recv(b, src, TRUE, len, W),
         NEW t \in Slot, inUse[t], state[t] = "BCAST", Room(t)
  PROVE  Got(t)
<1>1. t \in Takers(b, src, TRUE)
  BY DEF Takers, Takes
<1>2. CASE Parked(t) = {}
  <2>1. PICK d : rxq'[t] = Append(rxq[t], d)
    BY <1>1, <1>2 DEF Recv
  <2>2. Len(rxq[t]) \in Nat /\ rxq[t] \in Seq(Dgram)
    BY DEF TypeOK, Queue
  <2>3. Len(Append(rxq[t], d)) = Len(rxq[t]) + 1
    BY <2>2
  <2>4. rxq'[t] # rxq[t]
    BY <2>1, <2>2, <2>3
  <2>5. QED
    BY <2>4 DEF Got
<1>3. CASE Parked(t) # {}
  <2>1. PICK r \in W : rslot[r] = t /\ r \in Parked(t)
    BY <1>1, <1>3 DEF Recv, OneReaderEach
  <2>2. rpc'[r] = "got"
    BY <2>1 DEF Recv
  <2>3. QED
    BY <2>1, <2>2 DEF Got
<1>4. QED
  BY <1>2, <1>3

(* The loop of aether_recv_cb does not stop at the first match: whatever       *)
(* conversations there are and whoever waits on them, a broadcast that one   *)
(* party line takes goes to all that have room.                              *)
THEOREM BroadcastsFanOut == Spec => FanOutUniform
<1>1. ASSUME TypeOK, [Next]_vars, rx' # rx, NEW s \in Slot, NEW t \in Slot,
             inUse[s], state[s] = "BCAST", Got(s), inUse[t], state[t] = "BCAST", Room(t)
      PROVE  Got(t)
  <2>1. PICK b \in Binding, src \in Addr, bcast \in BOOLEAN, len \in Sizes, W \in SUBSET Reader :
          Recv(b, src, bcast, len, W)
    BY <1>1, OnlyRecvCounts
  <2>2. bcast = TRUE
    BY <1>1, <2>1, PartyLineGot
  <2>3. QED
    BY <1>1, <2>1, <2>2, PartyLineGets
<1>2. TypeOK /\ [Next]_vars =>
        [rx' # rx =>
           \A s, t \in Slot :
             /\ inUse[s] /\ state[s] = "BCAST" /\ Got(s)
             /\ inUse[t] /\ state[t] = "BCAST" /\ Room(t)
             => Got(t)]_vars
  BY <1>1
<1>3. IInv => TypeOK
  BY DEF IInv
<1>4. QED
  BY <1>2, <1>3, Invariance, PTL DEF Spec, FanOutUniform

=============================================================================

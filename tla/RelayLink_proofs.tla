---------------------------- MODULE RelayLink_proofs ----------------------------
(* The relay's link to its 9151, for every size of image, every set of host   *)
(* threads, operations and faults: the session heals for an operation that  *)
(* nothing happens to, attaching again never drops a conversation, and the  *)
(* 9151 is asked to upgrade only to a whole image.                          *)
EXTENDS RelayLink, TLAPS

-----------------------------------------------------------------------------
(* Threads                                                                   *)

Others(t) == \A u \in Thread \ {t} : th'[u] = th[u]

(* Thread t goes to pc, with its operation and what happened to it.           *)
Goes(t, pc) ==
  /\ th' \in [Thread -> ThreadState] /\ Others(t)
  /\ th'[t].pc = pc /\ th'[t].op = th[t].op /\ th'[t].hit = th[t].hit

LEMMA GotoThread ==
  ASSUME TypeOK, NEW t \in Thread, NEW pc \in Pc, Goto(t, pc)
  PROVE  Goes(t, pc) /\ th'[t].tries = th[t].tries
BY DEF TypeOK, Goto, ThreadState, Others, Goes

LEMMA FinishThread ==
  ASSUME TypeOK, NEW t \in Thread, NEW pc \in Pc, Finish(t, pc)
  PROVE  Goes(t, pc) /\ th'[t].tries = 0 /\ wr' \in Thread \cup {NoOne}
<1>1. th \in [Thread -> ThreadState] /\ th[t] \in ThreadState
  BY DEF TypeOK
<1>2. [th[t] EXCEPT !.pc = pc, !.tries = 0] \in ThreadState
  BY <1>1 DEF ThreadState
<1>3. /\ th' = [th EXCEPT ![t] = [th[t] EXCEPT !.pc = pc, !.tries = 0]]
      /\ wr' \in Thread \cup {NoOne}
  BY <1>1 DEF TypeOK, Finish
<1>4. th' \in [Thread -> ThreadState] /\ Others(t)
  BY <1>1, <1>2, <1>3 DEF Others
<1>5. /\ th'[t].pc = pc /\ th'[t].op = th[t].op /\ th'[t].hit = th[t].hit
      /\ th'[t].tries = 0
  BY <1>1, <1>3 DEF ThreadState
<1>6. QED
  BY <1>3, <1>4, <1>5 DEF Goes

LEMMA StartThread ==
  ASSUME TypeOK, NEW t \in Thread, NEW op \in OpName, Start(t, op)
  PROVE  /\ th' \in [Thread -> ThreadState] /\ Others(t)
         /\ th'[t].pc = IF op \in {"write", "clunk"} THEN "wr" ELSE "sess"
         /\ th'[t].op = op /\ th'[t].tries = 0
         /\ th'[t].hit = (op \in OneShot /\ ~node.up)
BY DEF TypeOK, Start, ThreadState, Others, Pc, OpName

LEMMA RestThread ==
  ASSUME TypeOK, NEW t \in Thread, Rest(t)
  PROVE  /\ th' \in [Thread -> ThreadState] /\ Others(t)
         /\ th'[t].pc = "idle" /\ th'[t].op = "none"
BY DEF TypeOK, Rest, Idle, ThreadState, Others, Pc, OpName

(* Something that happens to the link touches every one-shot operation.      *)
LEMMA MarkedThreads ==
  ASSUME TypeOK
  PROVE  /\ Marked \in [Thread -> ThreadState]
         /\ \A u \in Thread :
              /\ Marked[u].pc = th[u].pc /\ Marked[u].op = th[u].op
              /\ Marked[u].tries = th[u].tries
              /\ Marked[u].op \in OneShot => Marked[u].hit
<1>1. ASSUME NEW u \in Thread
      PROVE  /\ Marked[u] \in ThreadState
             /\ Marked[u].pc = th[u].pc /\ Marked[u].op = th[u].op
             /\ Marked[u].tries = th[u].tries
             /\ Marked[u].op \in OneShot => Marked[u].hit
  <2>1. th[u] \in ThreadState
    BY DEF TypeOK
  <2>2. Marked[u] = [th[u] EXCEPT !.hit = @ \/ th[u].op \in OneShot]
    BY DEF Marked
  <2>3. QED
    BY <2>1, <2>2 DEF ThreadState
<1>2. Marked \in [Thread -> ThreadState]
  BY <1>1 DEF Marked
<1>3. QED
  BY <1>1, <1>2

(* The fids of the session, the stream and a conversation are no thread's.    *)
LEMMA FidsApart ==
  /\ \A t \in Thread : t \notin {"root", "stream", "conv", NoOne}
  /\ "mon" \in Thread /\ "up" \in Thread
BY RelayAssumption DEF Thread

NodeState ==
  [up : BOOLEAN, versioned : BOOLEAN, running : {"old", "new"},
   confirmed : BOOLEAN, slot : 0 .. N, upgrade : BOOLEAN]

LEMMA FidTypes ==
  /\ {"root", "stream", "conv"} \subseteq Fid
  /\ \A t \in Thread : t \in Fid
BY DEF Fid

-----------------------------------------------------------------------------
(* What a step of thread t leaves of the invariant                           *)

(* The mutex passes between t and no one; t alone is in a new place.          *)
LEMMA SessionFrame ==
  ASSUME TypeOK, SessionLocked, NEW t \in Thread, Others(t),
         sess' = sess \/ {sess, sess'} \subseteq {t, NoOne},
         versioned' = versioned \/ sess = t,
         sess' = t <=> th'[t].pc \in Handshake,
         th'[t].pc \in {"reattach", "attach"} => versioned',
         th'[t].pc = "version" => ~versioned',
         sess' # NoOne => ~attached',
         attached' => versioned'
  PROVE  SessionLocked'
<1>1. t # NoOne
  BY FidsApart
<1>2. ASSUME NEW u \in Thread \ {t}
      PROVE  /\ sess' = u <=> th'[u].pc \in Handshake
             /\ th'[u].pc \in {"reattach", "attach"} => versioned'
             /\ th'[u].pc = "version" => ~versioned'
  <2>1. th'[u] = th[u] /\ (sess' = u <=> sess = u)
    BY <1>1, FidsApart DEF Others
  <2>2. QED
    BY <2>1 DEF SessionLocked, Handshake
<1>3. QED
  BY <1>2 DEF SessionLocked

LEMMA ExcuseFrame ==
  ASSUME TypeOK, DropIsExcused, NEW t \in Thread, Others(t),
         pool' = "reset" => excuse',
         aborted' \subseteq aborted, t \notin aborted',
         sess' = sess \/ sess' \in {t, NoOne},
         excuse => excuse' \/ sess' = NoOne
  PROVE  DropIsExcused'
<1>1. ASSUME NEW u \in Thread, u \in aborted'
      PROVE  th'[u].pc \in CallPc /\ (sess' = u => excuse')
  <2>1. u # t /\ th'[u] = th[u] /\ u \in aborted
    BY <1>1 DEF Others
  <2>2. QED
    BY <2>1, FidsApart DEF DropIsExcused
<1>2. QED
  BY <1>1 DEF DropIsExcused

(* The other operations go on as before.                                     *)
LEMMA HealingFrame ==
  ASSUME TypeOK, Healing, NEW t \in Thread, Others(t),
         node'.up = node.up, Attachable => Attachable',
         aborted' \subseteq aborted, sess' \in aborted' => sess' = sess,
         attached' /\ (attached => "root" \in live) => "root" \in live',
         \A u \in Thread \ {t} : u \in live' <=> u \in live,
         versioned => versioned',
         Untouched(t)' => HealsFrom(t)'
  PROVE  Healing'
<1>1. ASSUME NEW u \in Thread \ {t}, Untouched(u)'
      PROVE  HealsFrom(u)'
  <2>1. th'[u] = th[u] /\ HealsFrom(u)
    BY <1>1 DEF Others, Healing, Untouched
  <2>2. QED
    BY <2>1 DEF HealsFrom
<1>2. QED
  BY <1>1 DEF Healing

(* Operations that something has happened to promise nothing.                *)
LEMMA AllTouched ==
  ASSUME \A u \in Thread : th'[u].op \in OneShot => th'[u].hit
  PROVE  Healing'
BY DEF Healing, Untouched, OneShot

LEMMA StreamUpsFrame ==
  ASSUME StreamIsUps, NEW t \in Thread, Others(t),
         th'[t].op \in {"write", "clunk"} => t = "up",
         th'[t].pc = "wr" => th'[t].op \in {"write", "clunk"},
         th'[t].op = "clunk" => th'[t].pc \in {"wr", "body", "ok", "err"},
         th'[t].op = "write" => th'[t].pc # "forget"
  PROVE  StreamIsUps'
BY DEF StreamIsUps, Others

(* What the host's write is to bring lies within the image.                  *)
LEMMA WantedKept ==
  ASSUME host'.off = host.off
  PROVE  Wanted' = Wanted
BY DEF Wanted

LEMMA WantedBounds ==
  ASSUME TypeOK
  PROVE  /\ Wanted \in Nat /\ Wanted <= Batch /\ host.off + Wanted <= N
         /\ host.off < N => Wanted >= 1
<1>1. host.off \in 0 .. N /\ N \in Nat /\ Batch \in Nat \ {0}
  BY RelayAssumption DEF TypeOK
<1>2. QED
  BY <1>1 DEF Wanted, Smaller

(* Only steps of "up" move the stream's offset.                              *)
LEMMA OffsetsFrame ==
  ASSUME OffsetsAgree, th'["up"].pc = th["up"].pc, th'["up"].op = th["up"].op,
         UNCHANGED <<writing, woff, fwd, host>>
  PROVE  OffsetsAgree'
BY WantedKept DEF OffsetsAgree, Over

(* Nor do others close it, or ask for an upgrade.                            *)
LEMMA ClosedFrame ==
  ASSUME ClosedIsWhole, UNCHANGED host,
         node'.upgrade => node.upgrade /\ node'.slot = node.slot,
         th'["up"].op = "clunk" /\ th'["up"].pc = "ok"
           => th["up"].op = "clunk" /\ th["up"].pc = "ok"
  PROVE  ClosedIsWhole'
BY DEF ClosedIsWhole, GotThrough

(* The way of an operation to its body.                                      *)
Way == Handshake \cup {"sess", "walk", "open", "drop"}

(* On its way an operation leaves the stream alone, to which only "up" has    *)
(* come.                                                                     *)
LEMMA OnItsWay ==
  ASSUME OffsetsAgree, StreamIsUps, NEW t \in Thread, NEW pc \in Pc, Goes(t, pc),
         th[t].pc \in Way, pc \in Way \cup {"err"} \/ th[t].op \notin {"write", "clunk"},
         pc # "wr", UNCHANGED <<writing, woff, fwd, host>>,
         ClosedIsWhole, node'.upgrade = node.upgrade, node'.slot = node.slot
  PROVE  OffsetsAgree' /\ StreamIsUps' /\ ClosedIsWhole'
<1>1. th[t].op # "clunk"
  BY DEF StreamIsUps, Way, Handshake
<1>2. StreamIsUps'
  BY <1>1, StreamUpsFrame DEF Goes, StreamIsUps, Way, Handshake
<1>3. OffsetsAgree'
  <2>1. CASE t # "up"
    BY <2>1, FidsApart, OffsetsFrame DEF Goes, Others
  <2>2. CASE t = "up"
    <3>1. /\ th'["up"].pc = pc /\ th'["up"].op = th["up"].op
          /\ th["up"].pc \in Way /\ th["up"].op # "clunk"
          /\ pc \in Way \cup {"err"} \/ th["up"].op # "write"
      BY <1>1, <2>2 DEF Goes
    <3>2. QED
      BY <3>1, WantedKept DEF OffsetsAgree, Over, Way, Handshake
  <2>3. QED
    BY <2>1, <2>2
<1>4. ClosedIsWhole'
  <2>1. th'["up"] = th["up"] \/ th'["up"].op # "clunk"
    BY <1>1, FidsApart DEF Goes, Others
  <2>2. QED
    BY <2>1, ClosedFrame
<1>5. QED
  BY <1>2, <1>3, <1>4

(* Any other step of a thread that is not at the stream.                      *)
LEMMA NotAtStream ==
  ASSUME OffsetsAgree, StreamIsUps, NEW t \in Thread, Others(t),
         th[t].op \notin {"write", "clunk"}, th'[t].op \notin {"write", "clunk"},
         t = "up" => th'[t].op = "reboot",
         th'[t].pc # "wr", UNCHANGED <<writing, woff, fwd, host>>,
         ClosedIsWhole, node'.upgrade = node.upgrade, node'.slot = node.slot
  PROVE  OffsetsAgree' /\ StreamIsUps' /\ ClosedIsWhole'
<1>1. StreamIsUps'
  BY StreamUpsFrame
<1>2. OffsetsAgree'
  <2>1. CASE t # "up"
    BY <2>1, FidsApart, OffsetsFrame DEF Others
  <2>2. CASE t = "up"
    <3>1. /\ {th["up"].op, th'["up"].op} \cap {"write", "clunk"} = {}
          /\ th'["up"].op = "reboot"
      BY <2>2
    <3>2. QED
      BY <3>1, WantedKept DEF OffsetsAgree, Over
  <2>3. QED
    BY <2>1, <2>2
<1>3. ClosedIsWhole'
  <2>1. th'["up"] = th["up"] \/ th'["up"].op # "clunk"
    BY FidsApart DEF Others
  <2>2. QED
    BY <2>1, ClosedFrame
<1>4. QED
  BY <1>1, <1>2, <1>3

-----------------------------------------------------------------------------
(* mesh_ensure_attached and fw9151_open_remote                               *)

LEMMA EnsureInv ==
  ASSUME IInv, NEW t \in Thread, Ensure(t)
  PROVE  IInv'
<1>0. /\ TypeOK /\ SessionLocked /\ FidsAreServed /\ DropIsExcused
      /\ Healing /\ StreamIsUps /\ OffsetsAgree /\ StreamInSlot /\ ClosedIsWhole
  BY DEF IInv
<1>1. /\ th[t].pc = "sess" /\ sess = NoOne
      /\ UNCHANGED <<attached, versioned, wr, aborted, pool, excuse, writing, woff, fwd, armed, host, node>>
      /\ t \notin aborted
  BY <1>0 DEF Ensure, poolVars, streamVars, DropIsExcused, CallPc
<1>2. PICK pc \in {"ok", "walk", "reattach", "version"} :
        /\ Goes(t, pc) /\ th'[t].tries = th[t].tries
        /\ \/ /\ attached /\ pc = Granted(t) /\ sess' = sess
              /\ live' = IF "root" \in live THEN live \cup {t} ELSE live \ {t}
           \/ /\ ~attached /\ pc = (IF versioned THEN "reattach" ELSE "version")
              /\ sess' = t /\ live' = live
  BY <1>0, GotoThread DEF Pc, CallPc, Ensure, Granted
<1>3. TypeOK'
  BY <1>0, <1>1, <1>2, FidTypes DEF TypeOK, Goes
<1>4. SessionLocked'
  BY <1>0, <1>1, <1>2, SessionFrame, FidsApart DEF Goes, SessionLocked, Handshake, Granted
<1>5. FidsAreServed'
  BY <1>0, <1>1, <1>2 DEF FidsAreServed, Attachable, SessionLocked
<1>6. DropIsExcused'
  BY <1>0, <1>1, <1>2, ExcuseFrame DEF Goes, DropIsExcused
<1>7. Untouched(t)' => HealsFrom(t)'
  <2>1. SUFFICES ASSUME Untouched(t)'
                 PROVE  HealsFrom(t)'
    OBVIOUS
  <2>2. Untouched(t) /\ HealsFrom(t)
    BY <1>0, <1>2, <2>1 DEF Healing, Untouched, Goes
  <2>3. pc = Granted(t) => attached /\ versioned /\ (th[t].tries = 1 => t \in live')
    BY <1>0, <1>1, <1>2, <2>2 DEF HealsFrom, SessionLocked, Granted
  <2>4. QED
    BY <1>0, <1>1, <1>2, <2>2, <2>3, FidsApart DEF HealsFrom, Goes, Attachable, Granted, TypeOK
<1>8. Healing'
  BY <1>0, <1>1, <1>2, <1>7, FidsApart, HealingFrame DEF Goes, Attachable
<1>9. OffsetsAgree' /\ StreamIsUps' /\ ClosedIsWhole'
  BY <1>0, <1>1, <1>2, OnItsWay DEF Pc, CallPc, Way, Handshake, Granted
<1>10. StreamInSlot'
  BY <1>0, <1>1, <1>2, FidsApart DEF StreamInSlot
<1>11. QED
  BY <1>3, <1>4, <1>5, <1>6, <1>8, <1>9, <1>10 DEF IInv

(* The session is attached: t has a fid, and the link is versioned.           *)
LEMMA AttachOkInv ==
  ASSUME IInv, NEW t \in Thread, th[t].pc \in {"reattach", "attach"}, Answers(t, Attachable),
         AttachOk(t), CallOver(t), UNCHANGED <<pool, streamVars, armed, host, node>>
  PROVE  IInv'
<1>0. /\ TypeOK /\ SessionLocked /\ FidsAreServed /\ DropIsExcused
      /\ Healing /\ StreamIsUps /\ OffsetsAgree /\ StreamInSlot /\ ClosedIsWhole
  BY DEF IInv
<1>1. /\ th[t].pc \in {"reattach", "attach"} /\ sess = t /\ versioned /\ node.up /\ Attachable
      /\ UNCHANGED <<versioned, wr, pool, writing, woff, fwd, armed, host, node>>
      /\ attached' /\ sess' = NoOne /\ live' = live \cup {"root", t}
      /\ excuse' = (excuse /\ pool # "idle") /\ aborted' = aborted \ {t}
  BY <1>0 DEF AttachOk, CallOver, Answers, streamVars, SessionLocked, Handshake
<1>2. PICK pc \in {"ok", "walk"} :
        Goes(t, pc) /\ th'[t].tries = th[t].tries /\ pc = Granted(t)
  BY <1>0, GotoThread DEF Pc, CallPc, AttachOk, Granted
<1>3. TypeOK'
  BY <1>0, <1>1, <1>2, FidTypes DEF TypeOK, Goes
<1>4. SessionLocked'
  BY <1>0, <1>1, <1>2, SessionFrame, FidsApart DEF Goes, Handshake
<1>5. FidsAreServed'
  BY <1>0, <1>1 DEF FidsAreServed, Attachable
<1>6. DropIsExcused'
  BY <1>0, <1>1, <1>2, ExcuseFrame DEF Goes, DropIsExcused, TypeOK
<1>7. Untouched(t)' => HealsFrom(t)'
  BY <1>0, <1>1, <1>2, FidsApart DEF Untouched, HealsFrom, Goes, TypeOK
<1>8. Healing'
  BY <1>0, <1>1, <1>2, <1>7, FidsApart, HealingFrame DEF Goes, Attachable, TypeOK
<1>9. OffsetsAgree' /\ StreamIsUps' /\ ClosedIsWhole'
  BY <1>0, <1>1, <1>2, OnItsWay DEF Pc, CallPc, Way, Handshake, Granted
<1>10. StreamInSlot'
  BY <1>0, <1>1, FidsApart DEF StreamInSlot
<1>11. QED
  BY <1>3, <1>4, <1>5, <1>6, <1>8, <1>9, <1>10 DEF IInv

(* A plain Tattach that fails has the link versioned; nobody had a fid on it,  *)
(* or the call was aborted while all that could be hurt were waiting.       *)
LEMMA ReattachInv ==
  ASSUME IInv, NEW t \in Thread, Reattach(t)
  PROVE  IInv'
<1>0. /\ TypeOK /\ SessionLocked /\ FidsAreServed /\ DropIsExcused
      /\ Healing /\ StreamIsUps /\ OffsetsAgree /\ StreamInSlot /\ ClosedIsWhole
  BY DEF IInv
<1>1. CASE Answers(t, Attachable) /\ AttachOk(t)
  BY <1>1, AttachOkInv DEF Reattach
<1>2. CASE Fails(t, Attachable)
  <2>1. /\ th[t].pc = "reattach" /\ sess = t /\ versioned /\ ~attached
        /\ UNCHANGED <<attached, sess, wr, live, excuse, pool, writing, woff, fwd, armed, host, node>>
        /\ versioned' = FALSE /\ versioned' \in BOOLEAN /\ aborted' = aborted \ {t}
    BY <1>0, <1>2, FidsApart DEF Reattach, Fails, CallOver, streamVars, SessionLocked, Handshake
  <2>2. Goes(t, "version") /\ th'[t].tries = th[t].tries
    BY <1>0, <1>2, GotoThread DEF Reattach, Fails, Pc, CallPc
  <2>3. live = {} \/ t \in aborted
    BY <1>0, <1>2 DEF Fails, Answers, FidsAreServed
  <2>4. TypeOK'
    BY <1>0, <2>1, <2>2 DEF TypeOK, Goes
  <2>5. SessionLocked'
    BY <1>0, <2>1, <2>2, SessionFrame DEF Goes, Handshake
  <2>6. FidsAreServed' /\ DropIsExcused'
    BY <1>0, <2>1, <2>2, <2>3, ExcuseFrame DEF FidsAreServed, Attachable, DropIsExcused, Goes
  <2>7. ASSUME NEW u \in Thread, Untouched(u)'
        PROVE  HealsFrom(u)'
    <3>1. Untouched(u) /\ HealsFrom(u)
      BY <1>0, <2>2, <2>7 DEF Healing, Untouched, Goes, Others
    <3>2. CASE u = t
      BY <1>0, <2>1, <2>2, <3>1, <3>2 DEF HealsFrom, Goes, TypeOK, Attachable
    <3>3. CASE u # t
      BY <1>0, <2>1, <2>2, <2>3, <3>1, <3>3 DEF HealsFrom, Goes, Others, Attachable
    <3>4. QED
      BY <3>2, <3>3
  <2>8. OffsetsAgree' /\ StreamIsUps' /\ ClosedIsWhole'
    BY <1>0, <2>1, <2>2, OnItsWay DEF Pc, CallPc, Way, Handshake
  <2>9. StreamInSlot'
    BY <1>0, <2>1 DEF StreamInSlot
  <2>10. QED
    BY <2>4, <2>5, <2>6, <2>7, <2>8, <2>9 DEF IInv, Healing
<1>3. QED
  BY <1>1, <1>2 DEF Reattach, Fails

(* The Tversion takes every fid from its holder: nothing untouched has one    *)
(* while the link is not versioned.                                          *)
LEMMA VersionInv ==
  ASSUME IInv, NEW t \in Thread, Version(t)
  PROVE  IInv'
<1>0. /\ TypeOK /\ SessionLocked /\ FidsAreServed /\ DropIsExcused
      /\ Healing /\ StreamIsUps /\ OffsetsAgree /\ StreamInSlot /\ ClosedIsWhole
  BY DEF IInv
<1>1. /\ th[t].pc = "version" /\ sess = t /\ ~versioned /\ ~attached
      /\ UNCHANGED <<attached, pool, excuse, writing, woff, fwd, armed, host>>
      /\ aborted' = aborted \ {t}
      /\ \/ live' = {} /\ node' = [node EXCEPT !.versioned = TRUE]
         \/ live' = live /\ node' = node
  BY <1>0, FidsApart DEF Version, ServerVersion, CallOver, poolVars, streamVars, SessionLocked, Handshake
<1>2. \/ /\ Goes(t, "attach") /\ th'[t].tries = th[t].tries
         /\ versioned' = TRUE /\ node'.versioned /\ sess' = t /\ wr' = wr
         /\ node.up /\ t \notin aborted
      \/ /\ Goes(t, "err") /\ th'[t].tries = 0 /\ versioned' = FALSE
         /\ sess' = NoOne /\ wr' \in Thread \cup {NoOne}
         /\ ~node.up \/ t \in aborted
  <2>1. CASE Answers(t, TRUE)
    <3>1. Goes(t, "attach") /\ th'[t].tries = th[t].tries
      BY <1>0, <2>1, GotoThread DEF Version, Fails, Pc, CallPc
    <3>2. QED
      BY <1>0, <1>1, <2>1, <3>1 DEF Version, Fails, Answers, ServerVersion, TypeOK
  <2>2. CASE Fails(t, TRUE)
    <3>1. Goes(t, "err") /\ th'[t].tries = 0 /\ wr' \in Thread \cup {NoOne}
      BY <1>0, <2>2, FinishThread DEF Version, Fails, GiveUp, Pc, CallPc
    <3>2. QED
      BY <1>0, <1>1, <2>2, <3>1 DEF Version, Fails, Answers, GiveUp, TypeOK
  <2>3. QED
    BY <2>1, <2>2 DEF Fails
<1>3. /\ node' \in [up : BOOLEAN, versioned : BOOLEAN, running : {"old", "new"},
                    confirmed : BOOLEAN, slot : 0 .. N, upgrade : BOOLEAN]
      /\ node'.up = node.up /\ node'.slot = node.slot /\ node'.upgrade = node.upgrade
      /\ Attachable => Attachable'
  BY <1>0, <1>1 DEF TypeOK, Attachable
<1>4. TypeOK'
  BY <1>0, <1>1, <1>2, <1>3 DEF TypeOK, Goes
<1>5. SessionLocked'
  BY <1>0, <1>1, <1>2, SessionFrame, FidsApart DEF Goes, Handshake
<1>6. FidsAreServed'
  BY <1>0, <1>1, <1>2, <1>3 DEF FidsAreServed
<1>7. DropIsExcused'
  <2>1. Others(t) /\ sess' \in {t, NoOne} /\ (pool' = "reset" => excuse')
    BY <1>0, <1>1, <1>2 DEF DropIsExcused, Goes
  <2>2. QED
    BY <1>0, <1>1, <2>1, ExcuseFrame
<1>8. ASSUME NEW u \in Thread, Untouched(u)'
      PROVE  HealsFrom(u)'
  <2>1. Untouched(u) /\ HealsFrom(u)
    BY <1>0, <1>2, <1>8 DEF Healing, Untouched, Goes, Others
  <2>2. CASE u = t
    BY <1>0, <1>1, <1>2, <1>3, <2>1, <2>2 DEF HealsFrom, Goes, TypeOK, Attachable
  <2>3. CASE u # t
    <3>1. th'[u] = th[u] /\ sess' \notin aborted'
      BY <1>0, <1>1, <1>2, <2>3, FidsApart DEF Goes, Others, TypeOK
    <3>2. ~(th[u].pc \in {"open", "body"}) /\ ~(th[u].pc = "walk" /\ th[u].tries = 1)
      BY <1>1, <2>1 DEF HealsFrom
    <3>3. u \in live' => u \in live /\ ~(th[u].pc \in {"walk", "open", "body"})
      BY <1>1, <2>1 DEF HealsFrom
    <3>4. QED
      BY <1>1, <1>3, <2>1, <3>1, <3>2, <3>3 DEF HealsFrom
  <2>4. QED
    BY <2>2, <2>3
<1>9. OffsetsAgree' /\ StreamIsUps' /\ ClosedIsWhole'
  BY <1>0, <1>1, <1>2, <1>3, OnItsWay DEF Pc, CallPc, Way, Handshake
<1>10. StreamInSlot'
  BY <1>0, <1>1, <1>3 DEF StreamInSlot
<1>11. QED
  BY <1>4, <1>5, <1>6, <1>7, <1>8, <1>9, <1>10 DEF IInv, Healing

LEMMA AttachInv ==
  ASSUME IInv, NEW t \in Thread, Attach(t)
  PROVE  IInv'
<1>0. /\ TypeOK /\ SessionLocked /\ FidsAreServed /\ DropIsExcused
      /\ Healing /\ StreamIsUps /\ OffsetsAgree /\ StreamInSlot /\ ClosedIsWhole
  BY DEF IInv
<1>1. CASE Answers(t, Attachable) /\ AttachOk(t)
  BY <1>1, AttachOkInv DEF Attach
<1>2. CASE Fails(t, Attachable)
  <2>1. /\ th[t].pc = "attach" /\ sess = t /\ versioned /\ ~attached
        /\ UNCHANGED <<attached, versioned, live, excuse, pool, writing, woff, fwd, armed, host, node>>
        /\ sess' = NoOne /\ aborted' = aborted \ {t}
    BY <1>0, <1>2, FidsApart DEF Attach, GiveUp, Fails, CallOver, streamVars, SessionLocked, Handshake
  <2>2. Goes(t, "err") /\ th'[t].tries = 0 /\ wr' \in Thread \cup {NoOne}
    BY <1>0, <1>2, FinishThread DEF Attach, GiveUp, Fails, Pc, CallPc
  <2>3. TypeOK'
    BY <1>0, <2>1, <2>2 DEF TypeOK, Goes
  <2>4. SessionLocked'
    BY <1>0, <2>1, <2>2, SessionFrame, FidsApart DEF Goes, Handshake
  <2>5. FidsAreServed' /\ DropIsExcused'
    BY <1>0, <2>1, <2>2, ExcuseFrame DEF FidsAreServed, Attachable, DropIsExcused, Goes
  <2>6. ~Untouched(t)'
    BY <1>0, <1>2, <2>1, <2>2 DEF Healing, HealsFrom, Untouched, Goes, Fails, Answers
  <2>7. Healing'
    BY <1>0, <2>1, <2>2, <2>6, HealingFrame, FidsApart DEF Goes, Attachable, TypeOK
  <2>8. OffsetsAgree' /\ StreamIsUps' /\ ClosedIsWhole'
    BY <1>0, <2>1, <2>2, OnItsWay DEF Pc, CallPc, Way, Handshake
  <2>9. StreamInSlot'
    BY <1>0, <2>1 DEF StreamInSlot
  <2>10. QED
    BY <2>3, <2>4, <2>5, <2>7, <2>8, <2>9 DEF IInv
<1>3. QED
  BY <1>1, <1>2 DEF Attach, Fails

(* The walk fails only for a fid the 9151 does not know, or an aborted call.   *)
LEMMA WalkInv ==
  ASSUME IInv, NEW t \in Thread, Walk(t)
  PROVE  IInv'
<1>0. /\ TypeOK /\ SessionLocked /\ FidsAreServed /\ DropIsExcused
      /\ Healing /\ StreamIsUps /\ OffsetsAgree /\ StreamInSlot /\ ClosedIsWhole
  BY DEF IInv
<1>1. /\ th[t].pc = "walk" /\ sess # t /\ aborted' = aborted \ {t}
      /\ UNCHANGED <<attached, versioned, sess, wr, pool, excuse, writing, woff, fwd, armed, host, node>>
  BY <1>0 DEF Walk, CallOver, linkVars, poolVars, streamVars, SessionLocked, Handshake
<1>2. PICK pc \in {"open", "drop"} :
        /\ Goes(t, pc) /\ th'[t].tries = th[t].tries
        /\ \/ pc = "open" /\ t \in live /\ live' = live
           \/ pc = "drop" /\ Fails(t, t \in live) /\ live' = live \ {t}
  BY <1>0, GotoThread DEF Pc, CallPc, Walk, Answers
<1>3. TypeOK'
  BY <1>0, <1>1, <1>2 DEF TypeOK, Goes
<1>4. SessionLocked'
  BY <1>0, <1>1, <1>2, SessionFrame DEF Goes, Handshake, SessionLocked
<1>5. FidsAreServed' /\ DropIsExcused'
  BY <1>0, <1>1, <1>2, ExcuseFrame DEF FidsAreServed, Attachable, DropIsExcused, Goes
<1>6. Untouched(t)' => HealsFrom(t)'
  <2>1. SUFFICES ASSUME Untouched(t)'
                 PROVE  HealsFrom(t)'
    OBVIOUS
  <2>2. Untouched(t) /\ HealsFrom(t)
    BY <1>0, <1>2, <2>1 DEF Healing, Untouched, Goes
  <2>3. pc = "drop" => th'[t].tries = 0
    BY <1>0, <1>1, <1>2, <2>2 DEF HealsFrom, Fails, Answers, TypeOK, ThreadState
  <2>4. QED
    BY <1>0, <1>1, <1>2, <2>2, <2>3 DEF HealsFrom, Goes
<1>7. Healing'
  BY <1>0, <1>1, <1>2, <1>6, HealingFrame, FidsApart DEF Goes, Attachable
<1>8. OffsetsAgree' /\ StreamIsUps' /\ ClosedIsWhole'
  BY <1>0, <1>1, <1>2, OnItsWay DEF Pc, CallPc, Way, Handshake
<1>9. StreamInSlot'
  BY <1>0, <1>1, <1>2, FidsApart DEF StreamInSlot
<1>10. QED
  BY <1>3, <1>4, <1>5, <1>7, <1>8, <1>9 DEF IInv

(* A write's stream begins with its first open, at the host's first chunk.    *)
LEMMA OpenInv ==
  ASSUME IInv, NEW t \in Thread, Open(t)
  PROVE  IInv'
<1>0. /\ TypeOK /\ SessionLocked /\ FidsAreServed /\ DropIsExcused
      /\ Healing /\ StreamIsUps /\ OffsetsAgree /\ StreamInSlot /\ ClosedIsWhole
  BY DEF IInv
<1>1. /\ th[t].pc = "open" /\ sess # t /\ aborted' = aborted \ {t}
      /\ UNCHANGED <<attached, versioned, sess, pool, excuse, armed, host, node>>
  BY <1>0 DEF Open, CallOver, linkVars, poolVars, SessionLocked, Handshake
<1>2. \/ /\ Goes(t, "body") /\ th'[t].tries = th[t].tries /\ t \in live /\ wr' = wr
         /\ \/ /\ th[t].op = "write" /\ woff' = 0 /\ fwd' = fwd
               /\ writing' = TRUE /\ writing' \in BOOLEAN
               /\ live' = (live \cup {"stream"}) \ {t}
            \/ th[t].op # "write" /\ UNCHANGED <<writing, woff, fwd, live>>
      \/ /\ Goes(t, "err") /\ th'[t].tries = 0 /\ wr' \in Thread \cup {NoOne}
         /\ Fails(t, t \in live) /\ live' = live \ {t} /\ UNCHANGED <<writing, woff, fwd>>
  BY <1>0, GotoThread, FinishThread DEF Pc, CallPc, Open, Answers, streamVars
<1>3. TypeOK'
  BY <1>0, <1>1, <1>2, FidTypes, RelayAssumption DEF TypeOK, Goes
<1>4. SessionLocked'
  BY <1>0, <1>1, <1>2, SessionFrame DEF Goes, Handshake, SessionLocked
<1>5. FidsAreServed'
  BY <1>0, <1>1, <1>2 DEF FidsAreServed, Attachable
<1>6. DropIsExcused'
  BY <1>0, <1>1, <1>2, ExcuseFrame DEF DropIsExcused, Goes
<1>7. Untouched(t)' => HealsFrom(t)'
  <2>1. SUFFICES ASSUME Untouched(t)'
                 PROVE  HealsFrom(t)'
    OBVIOUS
  <2>2. Untouched(t) /\ HealsFrom(t) /\ th[t].op # "write"
    BY <1>0, <1>2, <2>1 DEF Healing, Untouched, Goes, OneShot
  <2>3. QED
    BY <1>0, <1>1, <1>2, <2>2 DEF HealsFrom, Fails, Answers, Goes
<1>8. Healing'
  BY <1>0, <1>1, <1>2, <1>7, HealingFrame, FidsApart DEF Goes, Attachable
<1>9. OffsetsAgree' /\ StreamIsUps' /\ StreamInSlot' /\ ClosedIsWhole'
  <2>1. CASE /\ Goes(t, "body") /\ th[t].op = "write"
             /\ writing' = TRUE /\ woff' = 0 /\ fwd' = fwd
    <3>1. /\ t = "up" /\ ~writing /\ host.off = 0
          /\ th["up"].op = "write" /\ th'["up"].op = "write" /\ th'["up"].pc = "body"
      BY <1>0, <1>1, <2>1, FidsApart DEF StreamIsUps, OffsetsAgree, Over, Goes
    <3>2. OffsetsAgree'
      <4>1. fwd' = 0 /\ 0 < Wanted
        BY <1>0, <1>1, <2>1, <3>1, WantedBounds DEF OffsetsAgree
      <4>2. QED
        BY <1>0, <1>1, <2>1, <3>1, <4>1, WantedKept DEF OffsetsAgree, Over, Handshake
    <3>3. StreamIsUps'
      BY <1>0, <2>1, <3>1, StreamUpsFrame, FidsApart DEF Goes
    <3>4. StreamInSlot'
      <4>1. node.slot \in Nat /\ host.off = 0 /\ fwd = 0
        BY <1>0, <1>1, <3>1, RelayAssumption DEF OffsetsAgree, TypeOK
      <4>2. QED
        BY <1>1, <2>1, <4>1 DEF StreamInSlot
    <3>5. ClosedIsWhole'
      BY <1>0, <1>1, <3>1, ClosedFrame
    <3>6. QED
      BY <3>2, <3>3, <3>4, <3>5
  <2>2. CASE /\ UNCHANGED <<writing, woff, fwd>>
             /\ \/ Goes(t, "body") /\ th[t].op # "write" /\ live' = live
                \/ Goes(t, "err") /\ live' = live \ {t}
    <3>1. th[t].op # "clunk"
      BY <1>0, <1>1 DEF StreamIsUps
    <3>2. OffsetsAgree' /\ StreamIsUps' /\ ClosedIsWhole'
      BY <1>0, <1>1, <2>2, <3>1, OnItsWay DEF Pc, CallPc, Way, Handshake
    <3>3. StreamInSlot'
      BY <1>0, <1>1, <2>2, FidsApart DEF StreamInSlot
    <3>4. QED
      BY <3>2, <3>3
  <2>3. QED
    BY <1>2, <2>1, <2>2
<1>10. QED
  BY <1>3, <1>4, <1>5, <1>6, <1>8, <1>9 DEF IInv

(* An operation that drops the session attaches anew.                        *)
LEMMA DropInv ==
  ASSUME IInv, NEW t \in Thread, Drop(t)
  PROVE  IInv'
<1>0. /\ TypeOK /\ SessionLocked /\ FidsAreServed /\ DropIsExcused
      /\ Healing /\ StreamIsUps /\ OffsetsAgree /\ StreamInSlot /\ ClosedIsWhole
  BY DEF IInv
<1>1. /\ th[t].pc = "drop" /\ sess = NoOne /\ t \notin aborted
      /\ attached' = FALSE /\ attached' \in BOOLEAN
      /\ UNCHANGED <<versioned, sess, live, aborted, pool, excuse, writing, woff, fwd, armed, host, node>>
  BY <1>0 DEF Drop, poolVars, streamVars, DropIsExcused, CallPc
<1>2. \/ Goes(t, "sess") /\ th[t].tries = 0 /\ th'[t].tries = 1 /\ wr' = wr
      \/ /\ Goes(t, "err") /\ th'[t].tries = 0 /\ wr' \in Thread \cup {NoOne}
         /\ th[t].op # "conv" => th[t].tries = 1
  <2>1. th[t] \in ThreadState /\ th \in [Thread -> ThreadState]
    BY <1>0 DEF TypeOK
  <2>2. CASE /\ th[t].tries + 1 < Attempts(th[t].op)
             /\ th' = [th EXCEPT ![t].pc = "sess", ![t].tries = @ + 1] /\ wr' = wr
    <3>1. th[t].tries = 0
      BY <2>1, <2>2 DEF Attempts, ThreadState
    <3>2. QED
      BY <2>1, <2>2, <3>1 DEF Goes, Others, ThreadState, Pc
  <2>3. CASE th[t].tries + 1 >= Attempts(th[t].op) /\ Finish(t, "err")
    BY <1>0, <2>1, <2>3, FinishThread DEF Attempts, ThreadState, Pc
  <2>4. QED
    BY <2>2, <2>3 DEF Drop
<1>3. TypeOK'
  BY <1>0, <1>1, <1>2 DEF TypeOK, Goes
<1>4. SessionLocked'
  BY <1>0, <1>1, <1>2, SessionFrame, FidsApart DEF Goes, Handshake
<1>5. FidsAreServed' /\ DropIsExcused'
  BY <1>0, <1>1, <1>2, ExcuseFrame DEF FidsAreServed, Attachable, DropIsExcused, Goes
<1>6. Untouched(t)' => HealsFrom(t)'
  BY <1>0, <1>1, <1>2 DEF Healing, Untouched, HealsFrom, Goes, OneShot
<1>7. Healing'
  BY <1>0, <1>1, <1>2, <1>6, HealingFrame DEF Goes, Attachable
<1>8. OffsetsAgree' /\ StreamIsUps' /\ ClosedIsWhole'
  BY <1>0, <1>1, <1>2, OnItsWay DEF Pc, CallPc, Way, Handshake
<1>9. StreamInSlot'
  BY <1>0, <1>1 DEF StreamInSlot
<1>10. QED
  BY <1>3, <1>4, <1>5, <1>7, <1>8, <1>9 DEF IInv

-----------------------------------------------------------------------------
(* The one-shot files                                                        *)

(* A step of t, which uses no stream, that leaves the link alone.             *)
LEMMA BodyFrame ==
  ASSUME IInv, NEW t \in Thread, th' \in [Thread -> ThreadState], Others(t),
         th[t].pc \notin Handshake, th'[t].pc \notin Handshake \cup {"wr"},
         {th[t].op, th'[t].op} \cap {"write", "clunk"} = {},
         t = "up" => th'[t].op = "reboot",
         UNCHANGED <<versioned, sess, pool, excuse, writing, woff, fwd, host>>,
         attached' \in BOOLEAN, attached' => attached,
         wr' \in Thread \cup {NoOne}, armed' \in BOOLEAN,
         \/ live' \in {live, live \ {t}}
         \/ t \in live /\ live' = (live \ {t}) \cup {"conv"},
         \/ aborted' = aborted \ {t}
         \/ aborted' = aborted /\ t \notin aborted,
         node' \in {node, [node EXCEPT !.confirmed = TRUE]},
         Untouched(t)' => HealsFrom(t)'
  PROVE  IInv'
<1>0. /\ TypeOK /\ SessionLocked /\ FidsAreServed /\ DropIsExcused
      /\ Healing /\ StreamIsUps /\ OffsetsAgree /\ StreamInSlot /\ ClosedIsWhole
  BY DEF IInv
<1>1. /\ node' \in [up : BOOLEAN, versioned : BOOLEAN, running : {"old", "new"},
                    confirmed : BOOLEAN, slot : 0 .. N, upgrade : BOOLEAN]
      /\ node'.up = node.up /\ node'.versioned = node.versioned
      /\ node'.slot = node.slot /\ node'.upgrade = node.upgrade
  BY <1>0 DEF TypeOK
<1>2. TypeOK'
  BY <1>0, <1>1, FidTypes DEF TypeOK
<1>3. SessionLocked'
  BY <1>0, SessionFrame DEF SessionLocked, Handshake
<1>4. FidsAreServed'
  BY <1>0, <1>1 DEF FidsAreServed, Attachable
<1>5. DropIsExcused'
  BY <1>0, ExcuseFrame DEF DropIsExcused
<1>6. Healing'
  BY <1>0, <1>1, HealingFrame, FidsApart DEF Attachable
<1>7. OffsetsAgree' /\ StreamIsUps' /\ ClosedIsWhole'
  BY <1>0, <1>1, NotAtStream
<1>8. StreamInSlot'
  BY <1>0, <1>1, FidsApart DEF StreamInSlot
<1>9. QED
  BY <1>2, <1>3, <1>4, <1>5, <1>6, <1>7, <1>8 DEF IInv

(* An operation that ends, well unless its fid is not known any more.         *)
LEMMA BodyOver ==
  ASSUME IInv, NEW t \in Thread, NEW pc \in {"ok", "err", "forget"}, Goes(t, pc),
         th[t].pc = "body", th[t].op \notin {"write", "clunk"},
         UNCHANGED <<attached, versioned, sess, wr, pool, excuse, writing, woff, fwd, host>>,
         armed' \in BOOLEAN,
         \/ live' \in {live, live \ {t}}
         \/ t \in live /\ live' = (live \ {t}) \cup {"conv"},
         aborted' = aborted \ {t},
         node' \in {node, [node EXCEPT !.confirmed = TRUE]},
         pc = "err" => Fails(t, t \in live)
  PROVE  IInv'
<1>0. TypeOK /\ SessionLocked /\ Healing /\ OffsetsAgree
  BY DEF IInv
<1>1. Untouched(t)' => HealsFrom(t)'
  <2>1. SUFFICES ASSUME Untouched(t)'
                 PROVE  HealsFrom(t)'
    OBVIOUS
  <2>2. Untouched(t) /\ HealsFrom(t)
    BY <1>0, <2>1 DEF Healing, Untouched, Goes
  <2>3. node'.up = node.up
    BY <1>0 DEF TypeOK
  <2>4. sess \notin aborted' /\ pc # "err"
    BY <1>0, <2>2 DEF HealsFrom, Fails, Answers, SessionLocked, Handshake, TypeOK
  <2>5. QED
    BY <1>0, <2>2, <2>3, <2>4 DEF HealsFrom, Goes
<1>2. t = "up" => th'[t].op = "reboot"
  BY <1>0 DEF OffsetsAgree, Goes
<1>3. attached' \in BOOLEAN /\ wr' \in Thread \cup {NoOne}
  BY <1>0 DEF TypeOK
<1>4. QED
  BY <1>1, <1>2, <1>3, BodyFrame DEF Goes, Handshake

(* The monitor, having read that an unconfirmed image runs, confirms it.      *)
LEMMA ReadBodyInv ==
  ASSUME IInv, NEW t \in Thread, ReadBody(t)
  PROVE  IInv'
<1>0. TypeOK /\ SessionLocked /\ DropIsExcused /\ Healing /\ OffsetsAgree
  BY DEF IInv
<1>1. /\ th[t].pc = "body" /\ th[t].op = "status" /\ live' = live \ {t}
      /\ UNCHANGED <<attached, versioned, sess, wr, pool, excuse, writing, woff, fwd, host, node>>
      /\ aborted' = aborted \ {t} /\ armed' \in BOOLEAN
  BY <1>0 DEF ReadBody, CallOver, linkVars, poolVars, streamVars, TypeOK
<1>2. CASE \/ Answers(t, t \in live) /\ Goto(t, "ok")
           \/ Fails(t, t \in live) /\ Goto(t, "err")
  <2>1. PICK pc \in {"ok", "err"} : Goes(t, pc) /\ (pc = "err" => Fails(t, t \in live))
    BY <1>0, <1>2, GotoThread DEF Pc, CallPc
  <2>2. QED
    BY <1>1, <2>1, BodyOver
<1>3. CASE Answers(t, t \in live) /\ t = "mon" /\ Start(t, "confirm")
  <2>1. /\ th' \in [Thread -> ThreadState] /\ Others(t)
        /\ th'[t].pc = "sess" /\ th'[t].op = "confirm" /\ th'[t].tries = 0
    BY <1>0, <1>3, StartThread DEF OpName
  <2>2. t # "up" /\ node.up /\ t \notin aborted
    BY <1>3, RelayAssumption DEF Answers
  <2>3. HealsFrom(t)'
    BY <1>0, <1>1, <2>1, <2>2 DEF HealsFrom
  <2>4. attached' \in BOOLEAN /\ wr' \in Thread \cup {NoOne}
    BY <1>0, <1>1 DEF TypeOK
  <2>5. QED
    BY <1>1, <2>1, <2>2, <2>3, <2>4, BodyFrame DEF Handshake
<1>4. QED
  BY <1>2, <1>3 DEF ReadBody

LEMMA ConfirmBodyInv ==
  ASSUME IInv, NEW t \in Thread, ConfirmBody(t)
  PROVE  IInv'
<1>0. TypeOK
  BY DEF IInv
<1>1. /\ th[t].pc = "body" /\ th[t].op = "confirm" /\ live' = live \ {t}
      /\ UNCHANGED <<attached, versioned, sess, wr, pool, excuse, writing, woff, fwd, host>>
      /\ aborted' = aborted \ {t} /\ armed' \in BOOLEAN
      /\ node' \in {node, [node EXCEPT !.confirmed = TRUE]}
  BY <1>0 DEF ConfirmBody, CallOver, linkVars, poolVars, streamVars, TypeOK
<1>2. PICK pc \in {"ok", "err"} : Goes(t, pc) /\ (pc = "err" => Fails(t, t \in live))
  BY <1>0, GotoThread DEF ConfirmBody, Pc, CallPc
<1>3. QED
  BY <1>1, <1>2, BodyOver

LEMMA ConvBodyInv ==
  ASSUME IInv, NEW t \in Thread, ConvBody(t)
  PROVE  IInv'
<1>0. TypeOK
  BY DEF IInv
<1>1. /\ th[t].pc = "body" /\ th[t].op = "conv"
      /\ live' = IF t \in live THEN (live \ {t}) \cup {"conv"} ELSE live
      /\ UNCHANGED <<attached, versioned, sess, wr, pool, excuse, writing, woff, fwd, armed, host, node>>
      /\ aborted' = aborted \ {t} /\ armed' \in BOOLEAN
  BY <1>0 DEF ConvBody, CallOver, linkVars, poolVars, streamVars, TypeOK
<1>2. Goes(t, "ok")
  BY <1>0, GotoThread DEF ConvBody, Pc, CallPc
<1>3. QED
  BY <1>1, <1>2, BodyOver

LEMMA ForgetInv ==
  ASSUME IInv, NEW t \in Thread, Forget(t)
  PROVE  IInv'
<1>0. TypeOK /\ SessionLocked /\ DropIsExcused /\ Healing /\ OffsetsAgree /\ StreamIsUps
  BY DEF IInv
<1>1. /\ th[t].pc = "forget" /\ sess = NoOne /\ t \notin aborted
      /\ attached' = FALSE /\ attached' \in BOOLEAN /\ armed' \in BOOLEAN
      /\ UNCHANGED <<versioned, sess, live, aborted, pool, excuse, writing, woff, fwd, armed, host, node>>
  BY <1>0 DEF Forget, poolVars, streamVars, DropIsExcused, CallPc, TypeOK
<1>2. Goes(t, "ok") /\ wr' \in Thread \cup {NoOne}
  BY <1>0, FinishThread DEF Forget, Pc
<1>3. Untouched(t)' => HealsFrom(t)'
  BY <1>0, <1>1, <1>2, FidsApart DEF Untouched, HealsFrom, Healing, Goes, TypeOK
<1>4. th[t].op \notin {"write", "clunk"} /\ (t = "up" => th'[t].op = "reboot")
  BY <1>0, <1>1, <1>2 DEF StreamIsUps, OffsetsAgree, Goes
<1>5. QED
  BY <1>1, <1>2, <1>3, <1>4, BodyFrame DEF Goes, Handshake

-----------------------------------------------------------------------------
(* The 9151 goes down                                                        *)

(* Every operation is touched and every thread stays where it was, but for    *)
(* one that asked for it.                                                    *)
AllHit ==
  \A u \in Thread :
    /\ th'[u].op = th[u].op
    /\ \/ th'[u].pc = th[u].pc
       \/ /\ th[u].pc = "body" /\ th[u].op = "reboot"
          /\ th'[u].pc = "forget" /\ u \notin aborted'
    /\ th'[u].op \in OneShot => th'[u].hit

LEMMA GoDownInv ==
  ASSUME IInv, GoDown, th' \in [Thread -> ThreadState], AllHit, aborted' \subseteq aborted,
         UNCHANGED <<attached, versioned, sess, wr, pool, excuse, writing, woff, fwd, armed, host>>
  PROVE  IInv'
<1>0. /\ TypeOK /\ SessionLocked /\ FidsAreServed /\ DropIsExcused
      /\ Healing /\ StreamIsUps /\ OffsetsAgree /\ StreamInSlot /\ ClosedIsWhole
  BY DEF IInv
<1>1. /\ node' \in [up : BOOLEAN, versioned : BOOLEAN, running : {"old", "new"},
                    confirmed : BOOLEAN, slot : 0 .. N, upgrade : BOOLEAN]
      /\ live' = {} /\ ~node'.upgrade
  <2> DEFINE r == IF node.upgrade /\ node.slot = N THEN "new"
                  ELSE IF ~node.confirmed THEN "old" ELSE node.running
             c == ~(node.upgrade /\ node.slot = N)
  <2>1. r \in {"old", "new"} /\ c \in BOOLEAN /\ 0 \in 0 .. N
    BY <1>0, RelayAssumption DEF TypeOK
  <2>2. /\ node' = [node EXCEPT !.up = FALSE, !.versioned = FALSE, !.slot = 0, !.upgrade = FALSE,
                                !.running = r, !.confirmed = c]
        /\ live' = {}
    BY DEF GoDown
  <2> HIDE DEF r, c
  <2>3. QED
    BY <1>0, <2>1, <2>2 DEF TypeOK
<1>2. TypeOK'
  BY <1>0, <1>1 DEF TypeOK
<1>3. SessionLocked'
  BY <1>0 DEF SessionLocked, Handshake, AllHit
<1>4. FidsAreServed' /\ StreamInSlot'
  BY <1>1 DEF FidsAreServed, StreamInSlot
<1>5. DropIsExcused'
  BY <1>0 DEF DropIsExcused, CallPc, AllHit
<1>6. Healing'
  BY AllTouched DEF AllHit
<1>7. StreamIsUps'
  BY <1>0 DEF StreamIsUps, AllHit
<1>8. OffsetsAgree'
  <2>1. CASE th'["up"].pc = th["up"].pc
    BY <1>0, <2>1, OffsetsFrame, FidsApart DEF AllHit
  <2>2. CASE th["up"].op = "reboot" /\ th'["up"].op = "reboot"
    BY <1>0, <2>2, WantedKept DEF OffsetsAgree, Over
  <2>3. QED
    BY <2>1, <2>2, FidsApart DEF AllHit
<1>9. ClosedIsWhole'
  BY <1>1 DEF ClosedIsWhole
<1>10. QED
  BY <1>2, <1>3, <1>4, <1>5, <1>6, <1>7, <1>8, <1>9 DEF IInv

(* A reboot that was sent, or only tried.                                    *)
LEMMA RebootBodyInv ==
  ASSUME IInv, NEW t \in Thread, RebootBody(t)
  PROVE  IInv'
<1>0. TypeOK
  BY DEF IInv
<1>1. /\ th[t].pc = "body" /\ th[t].op = "reboot" /\ aborted' = aborted \ {t}
      /\ UNCHANGED <<attached, versioned, sess, wr, pool, excuse, writing, woff, fwd, armed, host>>
      /\ armed' \in BOOLEAN
  BY <1>0 DEF RebootBody, CallOver, linkVars, poolVars, streamVars, TypeOK
<1>2. CASE GoDown /\ th' = [Marked EXCEPT ![t].pc = "forget"]
  <2>1. /\ th' \in [Thread -> ThreadState]
        /\ \A u \in Thread :
             /\ th'[u].op = th[u].op
             /\ th'[u].pc = IF u = t THEN "forget" ELSE th[u].pc
             /\ th'[u].op \in OneShot => th'[u].hit
    BY <1>0, <1>2, MarkedThreads DEF ThreadState, Pc
  <2>2. AllHit
    <3>1. ASSUME NEW u \in Thread, u # t
          PROVE  th'[u].pc = th[u].pc
      BY <2>1, <3>1
    <3>2. th'[t].pc = "forget" /\ t \notin aborted'
      BY <1>1, <2>1
    <3>3. QED
      BY <1>1, <2>1, <3>1, <3>2 DEF AllHit
  <2>3. aborted' \subseteq aborted
    BY <1>1
  <2>4. QED
    BY <1>1, <1>2, <2>1, <2>2, <2>3, GoDownInv
<1>3. CASE live' = live \ {t} /\ Goto(t, "forget") /\ UNCHANGED node
  <2>1. Goes(t, "forget")
    BY <1>0, <1>3, GotoThread DEF Pc
  <2>2. QED
    BY <1>1, <1>3, <2>1, BodyOver
<1>4. QED
  BY <1>2, <1>3 DEF RebootBody

LEMMA NodeCrashInv ==
  ASSUME IInv, NodeCrash
  PROVE  IInv'
<1>0. TypeOK
  BY DEF IInv
<1>1. /\ GoDown /\ th' = Marked
      /\ UNCHANGED <<attached, versioned, sess, wr, aborted, pool, excuse, writing, woff, fwd, armed, host>>
  BY DEF NodeCrash, linkVars, poolVars, streamVars
<1>2. th' \in [Thread -> ThreadState] /\ AllHit /\ aborted' \subseteq aborted
  BY <1>0, <1>1, MarkedThreads DEF AllHit
<1>3. QED
  BY <1>1, <1>2, GoDownInv

LEMMA NodeBootInv ==
  ASSUME IInv, NodeBoot
  PROVE  IInv'
<1>0. /\ TypeOK /\ SessionLocked /\ FidsAreServed /\ DropIsExcused
      /\ Healing /\ StreamIsUps /\ OffsetsAgree /\ StreamInSlot /\ ClosedIsWhole
  BY DEF IInv
<1>1. /\ UNCHANGED <<attached, versioned, sess, wr, th, live, aborted, pool, excuse, writing,
                     woff, fwd, armed, host>>
      /\ node' = [node EXCEPT !.up = TRUE]
      /\ node' \in [up : BOOLEAN, versioned : BOOLEAN, running : {"old", "new"},
                    confirmed : BOOLEAN, slot : 0 .. N, upgrade : BOOLEAN]
      /\ node'.up /\ ~node.up /\ node'.versioned = node.versioned
      /\ node'.slot = node.slot /\ node'.upgrade = node.upgrade
  BY <1>0 DEF NodeBoot, linkVars, poolVars, streamVars, TypeOK
<1>2. live = {}
  BY <1>0, <1>1 DEF FidsAreServed
<1>3. TypeOK' /\ SessionLocked' /\ DropIsExcused' /\ StreamIsUps'
  BY <1>0, <1>1 DEF TypeOK, SessionLocked, DropIsExcused, StreamIsUps
<1>4. FidsAreServed' /\ StreamInSlot'
  BY <1>1, <1>2 DEF FidsAreServed, StreamInSlot
<1>5. Healing'
  BY <1>0, <1>1 DEF Healing, Untouched, HealsFrom, OneShot, Attachable
<1>6. OffsetsAgree' /\ ClosedIsWhole'
  BY <1>0, <1>1, OffsetsFrame, ClosedFrame
<1>7. QED
  BY <1>3, <1>4, <1>5, <1>6 DEF IInv

-----------------------------------------------------------------------------
(* dev/fw9151                                                                *)

(* The stream is the streaming host's alone.                                 *)
LEMMA TakeWrInv ==
  ASSUME IInv, NEW t \in Thread, TakeWr(t)
  PROVE  IInv'
<1>0. /\ TypeOK /\ SessionLocked /\ FidsAreServed /\ DropIsExcused
      /\ Healing /\ StreamIsUps /\ OffsetsAgree /\ StreamInSlot /\ ClosedIsWhole
  BY DEF IInv
<1>1. /\ th[t].pc = "wr" /\ t = "up" /\ th[t].op \in {"write", "clunk"} /\ t \notin aborted
      /\ UNCHANGED <<attached, versioned, sess, live, aborted, pool, excuse, writing, woff, fwd, armed,
                     host, node>>
  BY <1>0 DEF TakeWr, linkVars, poolVars, streamVars, StreamIsUps, DropIsExcused, CallPc
<1>2. /\ wr' \in Thread \cup {NoOne}
      /\ \/ writing /\ Goes(t, "body")
         \/ ~writing /\ th[t].op = "write" /\ Goes(t, "sess")
         \/ ~writing /\ th[t].op = "clunk" /\ Goes(t, "ok")
  BY <1>0, GotoThread, FinishThread DEF TakeWr, Pc, CallPc
<1>3. TypeOK'
  BY <1>0, <1>1, <1>2 DEF TypeOK, Goes
<1>4. SessionLocked'
  BY <1>0, <1>1, <1>2, SessionFrame DEF SessionLocked, Handshake, Goes
<1>5. FidsAreServed' /\ StreamInSlot'
  BY <1>0, <1>1 DEF FidsAreServed, Attachable, StreamInSlot
<1>6. DropIsExcused'
  BY <1>0, <1>1, <1>2, ExcuseFrame DEF DropIsExcused, Goes
<1>7. Healing'
  <2>1. ~Untouched(t)'
    BY <1>1, <1>2 DEF Untouched, OneShot, Goes
  <2>2. QED
    BY <1>0, <1>1, <1>2, <2>1, HealingFrame DEF Goes, Attachable
<1>8. StreamIsUps'
  BY <1>0, <1>1, <1>2, StreamUpsFrame DEF Goes
<1>9. OffsetsAgree'
  <2>1. /\ th["up"].pc = "wr" /\ th'["up"].op = th["up"].op
        /\ \/ writing /\ th'["up"].pc = "body"
           \/ ~writing /\ th["up"].op = "write" /\ th'["up"].pc = "sess"
           \/ ~writing /\ th["up"].op = "clunk" /\ th'["up"].pc = "ok"
    BY <1>1, <1>2 DEF Goes
  <2>2. th["up"].op = "write" => fwd < Wanted
    BY <1>0, <2>1, WantedBounds DEF OffsetsAgree
  <2>3. QED
    BY <1>0, <1>1, <2>1, <2>2, WantedKept DEF OffsetsAgree, Over, Handshake
<1>10. ClosedIsWhole'
  <2>1. N # 0 /\ (th["up"].op = "clunk" /\ ~writing /\ ~host.closing => host.off = 0)
    BY <1>0, <1>1, RelayAssumption DEF OffsetsAgree, Over
  <2>2. GotThrough' => host.done
    BY <1>1, <1>2, <2>1 DEF GotThrough, Goes
  <2>3. QED
    BY <1>0, <1>1, <2>2 DEF ClosedIsWhole, GotThrough
<1>11. QED
  BY <1>3, <1>4, <1>5, <1>6, <1>7, <1>8, <1>9, <1>10 DEF IInv

(* A write or a clunk of the stream: what holds of the link after it.         *)
LEMMA AtStream ==
  ASSUME IInv, th["up"].pc = "body", th["up"].op \in {"write", "clunk"},
         NEW pc \in {"body", "ok", "err"}, Goes("up", pc),
         UNCHANGED <<attached, versioned, sess, pool, excuse, host>>,
         wr' \in Thread \cup {NoOne}, armed' \in BOOLEAN, writing' \in BOOLEAN,
         woff' \in 0 .. N, fwd' \in 0 .. Batch,
         live' \in {live, live \ {"stream"}}, aborted' = aborted \ {"up"},
         node' \in NodeState, node'.up = node.up, node'.versioned = node.versioned,
         OffsetsAgree', StreamInSlot', ClosedIsWhole'
  PROVE  IInv'
<1>0. /\ TypeOK /\ SessionLocked /\ FidsAreServed /\ DropIsExcused /\ Healing /\ StreamIsUps
      /\ "up" \in Thread
  BY FidsApart DEF IInv
<1>1. TypeOK'
  BY <1>0 DEF TypeOK, Goes, NodeState
<1>2. SessionLocked'
  BY <1>0, SessionFrame DEF SessionLocked, Handshake, Goes
<1>3. FidsAreServed'
  BY <1>0 DEF FidsAreServed, Attachable
<1>4. DropIsExcused'
  BY <1>0, ExcuseFrame DEF DropIsExcused, Goes
<1>5. Healing'
  <2>1. ~Untouched("up")'
    BY DEF Untouched, OneShot, Goes
  <2>2. QED
    BY <1>0, <2>1, HealingFrame, FidsApart DEF Goes, Attachable
<1>6. StreamIsUps'
  BY <1>0, StreamUpsFrame DEF Goes
<1>7. QED
  BY <1>1, <1>2, <1>3, <1>4, <1>5, <1>6 DEF IInv

(* Closing the stream changes nothing of the 9151 but the upgrade, and what a  *)
(* write carried out before it left in the slot.                            *)
LEMMA ServerClunkEffect ==
  ASSUME TypeOK, NEW through \in BOOLEAN, NEW slot \in 0 .. N, ServerClunk(through, slot)
  PROVE  /\ node' \in NodeState
         /\ node'.up = node.up /\ node'.versioned = node.versioned /\ node'.slot = slot
         /\ node'.upgrade = (node.upgrade \/ (through /\ "stream" \in live /\ node.up))
         /\ live' = live \ {"stream"}
<1> DEFINE u == node.upgrade \/ (through /\ "stream" \in live /\ node.up)
<1>1. node \in NodeState /\ u \in BOOLEAN
  BY DEF TypeOK, NodeState
<1>2. node' = [node EXCEPT !.slot = slot, !.upgrade = u] /\ live' = live \ {"stream"}
  BY DEF ServerClunk
<1> HIDE DEF u
<1>3. /\ node' \in NodeState /\ node'.up = node.up /\ node'.versioned = node.versioned
      /\ node'.slot = slot /\ node'.upgrade = u
  BY <1>1, <1>2 DEF NodeState
<1>4. QED
  BY <1>2, <1>3 DEF u

(* The slot takes the sub-write behind those it has.                         *)
LEMMA FlashedBounds ==
  ASSUME TypeOK, NEW k \in 1 .. N
  PROVE  /\ Flashed(k) \in 0 .. N
         /\ node.slot >= k - 1 => Flashed(k) >= k
<1>1. node.slot \in 0 .. N /\ N \in Nat
  BY RelayAssumption DEF TypeOK
<1>2. QED
  BY <1>1 DEF Flashed

(* At a write of the stream: where it is in the image.                       *)
LEMMA WriteAt ==
  ASSUME IInv, NEW t \in Thread, th[t].pc = "body", th[t].op = "write"
  PROVE  /\ t = "up" /\ writing /\ woff = host.off /\ ~host.done
         /\ woff \in Nat /\ fwd \in Nat /\ woff + fwd + 1 \in 1 .. N
         /\ fwd < Wanted /\ fwd + 1 \in 0 .. Batch
<1>1. TypeOK /\ StreamIsUps /\ OffsetsAgree
  BY DEF IInv
<1>2. /\ t = "up" /\ writing /\ woff = host.off /\ ~host.done /\ fwd < Wanted
  BY <1>1 DEF StreamIsUps, OffsetsAgree
<1>3. /\ Wanted \in Nat /\ Wanted <= Batch /\ host.off + Wanted <= N
      /\ host.off \in Nat /\ fwd \in Nat /\ N \in Nat /\ Batch \in Nat
  BY <1>1, WantedBounds, RelayAssumption DEF TypeOK
<1>4. QED
  BY <1>2, <1>3

(* The sub-write that goes through is the one behind those the slot has; with  *)
(* the last one, or a short one, the host's write returns.                  *)
LEMMA SubWriteInv ==
  ASSUME IInv, NEW t \in Thread, WriteBody(t), SubWrite(t)
  PROVE  IInv'
<1>0. TypeOK /\ StreamIsUps /\ OffsetsAgree /\ StreamInSlot /\ ClosedIsWhole
  BY DEF IInv
<1>1. /\ th[t].pc = "body" /\ th[t].op = "write"
      /\ UNCHANGED <<attached, versioned, sess, pool, excuse, armed, host>>
      /\ aborted' = aborted \ {t}
  BY DEF WriteBody, CallOver, linkVars, poolVars
<1>2. /\ t = "up" /\ writing /\ woff = host.off /\ ~host.done
      /\ woff \in Nat /\ fwd \in Nat /\ woff + fwd + 1 \in 1 .. N
      /\ fwd < Wanted /\ fwd + 1 \in 0 .. Batch
  BY <1>1, WriteAt
<1>3. /\ node' = [node EXCEPT !.slot = Flashed(woff + fwd + 1)]
      /\ live' = live /\ writing' = writing /\ writing' \in BOOLEAN /\ armed' \in BOOLEAN
      /\ fwd' = fwd + 1
      /\ \/ fwd + 1 < Wanted /\ UNCHANGED <<woff, th, wr>>
         \/ woff' = woff + fwd + 1 /\ Finish("up", "ok")
  BY <1>0, <1>1, <1>2 DEF SubWrite, TypeOK
<1>4. /\ Flashed(woff + fwd + 1) \in 0 .. N
      /\ node.slot >= woff + fwd => Flashed(woff + fwd + 1) >= woff + fwd + 1
  <2>1. woff + fwd + 1 - 1 = woff + fwd
    BY <1>2
  <2>2. QED
    BY <1>0, <1>2, <2>1, FlashedBounds
<1>5. /\ node' \in NodeState /\ node'.up = node.up /\ node'.versioned = node.versioned
      /\ node'.slot = Flashed(woff + fwd + 1)
  BY <1>0, <1>3, <1>4 DEF TypeOK, NodeState
<1>6. PICK pc \in {"body", "ok"} :
        /\ Goes("up", pc) /\ wr' \in Thread \cup {NoOne}
        /\ \/ pc = "body" /\ fwd + 1 < Wanted /\ woff' = woff
           \/ pc = "ok" /\ woff' = woff + fwd + 1
  <2>1. CASE fwd + 1 < Wanted /\ UNCHANGED <<woff, th, wr>>
    BY <1>0, <1>1, <1>2, <2>1 DEF Goes, Others, TypeOK
  <2>2. CASE woff' = woff + fwd + 1 /\ Finish("up", "ok")
    BY <1>0, <2>2, FinishThread, FidsApart DEF Pc
  <2>3. QED
    BY <1>3, <2>1, <2>2
<1>7. OffsetsAgree'
  <2>1. Wanted' = Wanted /\ Wanted \in Nat /\ fwd' = fwd + 1 /\ fwd + 1 <= Wanted /\ fwd' # 0
    BY <1>0, <1>1, <1>2, <1>3, WantedKept, WantedBounds
  <2>2. woff + fwd + 1 = host.off + (fwd + 1)
    BY <1>2
  <2>3. host.off < N
    BY <1>0, <1>1, <1>2 DEF OffsetsAgree
  <2>4. /\ th'["up"].op = "write" /\ th'["up"].pc = pc /\ writing' /\ ~host'.done
        /\ host'.off = host.off /\ fwd' <= Wanted'
        /\ pc = "ok" => woff' = host'.off + fwd'
        /\ pc = "body" => woff' = host'.off /\ fwd' < Wanted'
    BY <1>1, <1>2, <1>3, <1>6, <2>1, <2>2 DEF Goes
  <2>5. QED
    BY <2>3, <2>4 DEF OffsetsAgree, Over, Handshake
<1>8. StreamInSlot'
  <2>1. "stream" \in live => node.slot >= woff + fwd
    BY <1>0, <1>2 DEF StreamInSlot
  <2>2. host'.off + fwd' = woff + fwd + 1
    BY <1>1, <1>2, <1>3
  <2>3. QED
    BY <1>2, <1>3, <1>4, <1>5, <2>1, <2>2 DEF StreamInSlot
<1>9. ClosedIsWhole'
  BY <1>1, <1>2, <1>6 DEF ClosedIsWhole, GotThrough, Goes
<1>10. woff' \in 0 .. N
  BY <1>0, <1>2, <1>6 DEF TypeOK
<1>11. QED
  BY <1>1, <1>2, <1>3, <1>5, <1>6, <1>7, <1>8, <1>9, <1>10, AtStream

(* A write that failed leaves no stream.                                     *)
LEMMA StreamFailsInv ==
  ASSUME IInv, NEW t \in Thread, WriteBody(t), StreamFails(t, "err"), fwd' = 0
  PROVE  IInv'
<1>0. TypeOK /\ StreamIsUps /\ OffsetsAgree /\ StreamInSlot /\ ClosedIsWhole
  BY DEF IInv
<1>1. /\ th[t].pc = "body" /\ th[t].op = "write"
      /\ UNCHANGED <<attached, versioned, sess, pool, excuse, armed, host>>
      /\ aborted' = aborted \ {t} /\ armed' \in BOOLEAN
  BY <1>0 DEF WriteBody, CallOver, linkVars, poolVars, TypeOK
<1>2. /\ t = "up" /\ ~host.done /\ woff \in Nat /\ fwd \in Nat /\ woff + fwd + 1 \in 1 .. N
  BY <1>1, WriteAt
<1>3. /\ writing' = FALSE /\ writing' \in BOOLEAN /\ woff' = woff /\ woff' \in 0 .. N
      /\ fwd' \in 0 .. Batch /\ Finish("up", "err")
  <2>1. 0 \in 0 .. Batch /\ woff \in 0 .. N
    BY <1>0, RelayAssumption DEF TypeOK
  <2>2. writing' = FALSE /\ woff' = woff /\ Finish("up", "err")
    BY <1>2 DEF StreamFails
  <2>3. QED
    BY <2>1, <2>2
<1>4. PICK landed \in Outcome(t), through \in Outcome(t) :
        ServerClunk(through, IF landed /\ node.up /\ "stream" \in live
                             THEN Flashed(woff + fwd + 1) ELSE node.slot)
  BY DEF StreamFails
<1>5. /\ node' \in NodeState /\ node'.up = node.up /\ node'.versioned = node.versioned
      /\ live' = live \ {"stream"}
  <2>1. node.slot \in 0 .. N /\ Flashed(woff + fwd + 1) \in 0 .. N
    BY <1>0, <1>2, FlashedBounds DEF TypeOK
  <2>2. through \in BOOLEAN
    BY <1>4 DEF Outcome
  <2>3. QED
    BY <1>0, <1>4, <2>1, <2>2, ServerClunkEffect
<1>6. Goes("up", "err") /\ wr' \in Thread \cup {NoOne}
  BY <1>0, <1>3, FinishThread, FidsApart DEF Pc
<1>7. OffsetsAgree'
  <2>1. Wanted' = Wanted /\ Wanted \in Nat /\ host.off < N
    BY <1>0, <1>1, <1>2, WantedKept, WantedBounds DEF OffsetsAgree
  <2>2. 0 <= Wanted'
    BY <2>1
  <2>3. th'["up"].op = "write" /\ th'["up"].pc = "err"
    BY <1>1, <1>2, <1>6 DEF Goes
  <2>4. QED
    BY <1>1, <1>2, <1>3, <2>1, <2>2, <2>3 DEF OffsetsAgree, Over, Handshake
<1>8. StreamInSlot' /\ ClosedIsWhole'
  BY <1>1, <1>2, <1>5, <1>6 DEF StreamInSlot, ClosedIsWhole, GotThrough, Goes
<1>9. QED
  BY <1>1, <1>2, <1>3, <1>5, <1>6, <1>7, <1>8, AtStream

LEMMA WriteBodyInv ==
  ASSUME IInv, NEW t \in Thread, WriteBody(t)
  PROVE  IInv'
<1>1. SubWrite(t) \/ (StreamFails(t, "err") /\ fwd' = 0)
  BY Zenon DEF WriteBody
<1>2. QED
  BY <1>1, SubWriteInv, StreamFailsInv

(* The clunk of an upload that got through finds all of it in the slot.       *)
LEMMA ClunkBodyInv ==
  ASSUME IInv, NEW t \in Thread, ClunkBody(t)
  PROVE  IInv'
<1>0. TypeOK /\ StreamIsUps /\ OffsetsAgree /\ StreamInSlot /\ ClosedIsWhole
  BY DEF IInv
<1>1. /\ t = "up" /\ th["up"].pc = "body" /\ th["up"].op = "clunk" /\ ~host.done
      /\ UNCHANGED <<attached, versioned, sess, pool, excuse, woff, fwd, host>>
      /\ writing' = FALSE /\ writing' \in BOOLEAN
      /\ armed' \in BOOLEAN /\ aborted' = aborted \ {"up"}
  BY <1>0 DEF ClunkBody, CallOver, linkVars, poolVars, StreamIsUps, OffsetsAgree
<1>2. PICK pc \in {"ok", "err"}, through \in BOOLEAN :
        /\ Goes("up", pc) /\ wr' \in Thread \cup {NoOne}
        /\ ServerClunk(through, node.slot)
        /\ pc = "ok" => "stream" \in live
  <2>1. CASE Answers(t, "stream" \in live) /\ ServerClunk(TRUE, node.slot) /\ Finish(t, "ok")
    BY <1>0, <1>1, <2>1, FinishThread DEF Answers, Pc
  <2>2. CASE (\E through \in Outcome(t) : ServerClunk(through, node.slot)) /\ Finish(t, "err")
    <3>1. Goes("up", "err") /\ wr' \in Thread \cup {NoOne}
      BY <1>0, <1>1, <2>2, FinishThread DEF Pc
    <3>2. QED
      BY <2>2, <3>1 DEF Outcome
  <2>3. QED
    BY <2>1, <2>2 DEF ClunkBody
<1>3. /\ node' \in NodeState /\ node'.up = node.up /\ node'.versioned = node.versioned
      /\ node'.slot = node.slot /\ live' = live \ {"stream"}
  <2>1. node.slot \in 0 .. N
    BY <1>0 DEF TypeOK
  <2>2. QED
    BY <1>0, <1>2, <2>1, ServerClunkEffect
<1>4. OffsetsAgree'
  BY <1>0, <1>1, <1>2, WantedKept DEF OffsetsAgree, Over, Handshake, Goes
<1>5. StreamInSlot' /\ woff' \in 0 .. N /\ fwd' \in 0 .. Batch
  BY <1>0, <1>1, <1>3 DEF StreamInSlot, TypeOK
<1>6. ClosedIsWhole'
  <2>1. SUFFICES ASSUME GotThrough'
                 PROVE  node'.slot = N
    BY DEF ClosedIsWhole
  <2>2. pc = "ok" /\ host.off = N
    BY <1>1, <1>2, <2>1 DEF GotThrough, Goes
  <2>3. node.slot >= N + fwd /\ fwd \in Nat /\ N \in Nat /\ node.slot \in 0 .. N
    BY <1>0, <1>2, <2>2, RelayAssumption DEF StreamInSlot, TypeOK
  <2>4. QED
    BY <1>3, <2>3
<1>7. QED
  BY <1>0, <1>1, <1>2, <1>3, <1>4, <1>5, <1>6, AtStream

-----------------------------------------------------------------------------
(* Operations begin and return                                               *)

LEMMA StartInv ==
  ASSUME IInv, NEW t \in Thread, t # "up", NEW op \in OpName \ {"write", "clunk"}, Start(t, op),
         th[t].pc \notin CallPc, live' \in {live, live \ {t}},
         UNCHANGED <<linkVars, wr, aborted, poolVars, streamVars, armed, host, node>>
  PROVE  IInv'
<1>0. TypeOK /\ DropIsExcused /\ StreamIsUps
  BY DEF IInv
<1>1. /\ th' \in [Thread -> ThreadState] /\ Others(t)
      /\ th'[t].pc = "sess" /\ th'[t].op = op /\ th'[t].tries = 0
      /\ th'[t].hit = (op \in OneShot /\ ~node.up)
  BY <1>0, StartThread
<1>2. /\ UNCHANGED <<attached, versioned, sess, wr, pool, excuse, writing, woff, fwd, armed, host, node>>
      /\ attached' \in BOOLEAN /\ armed' \in BOOLEAN /\ wr' \in Thread \cup {NoOne}
      /\ aborted' = aborted /\ t \notin aborted
  BY <1>0 DEF linkVars, poolVars, streamVars, TypeOK, DropIsExcused
<1>3. Untouched(t)' => HealsFrom(t)'
  <2>1. Untouched(t)' => node.up
    BY <1>1 DEF Untouched, OneShot
  <2>2. QED
    BY <1>1, <1>2, <2>1 DEF HealsFrom
<1>4. th[t].pc \notin Handshake /\ th[t].op \notin {"write", "clunk"}
  BY <1>0 DEF Handshake, CallPc, StreamIsUps
<1>5. QED
  BY <1>1, <1>2, <1>3, <1>4, BodyFrame DEF Handshake

LEMMA ReturnInv ==
  ASSUME IInv, NEW t \in Thread, t # "up", Rest(t), th[t].pc \in {"ok", "err"},
         live' \in {live, live \ {t}},
         UNCHANGED <<linkVars, wr, aborted, poolVars, streamVars, armed, host, node>>
  PROVE  IInv'
<1>0. TypeOK /\ DropIsExcused /\ StreamIsUps
  BY DEF IInv
<1>1. /\ th' \in [Thread -> ThreadState] /\ Others(t)
      /\ th'[t].pc = "idle" /\ th'[t].op = "none"
  BY <1>0, RestThread
<1>2. /\ UNCHANGED <<attached, versioned, sess, wr, pool, excuse, writing, woff, fwd, armed, host, node>>
      /\ attached' \in BOOLEAN /\ armed' \in BOOLEAN /\ wr' \in Thread \cup {NoOne}
      /\ aborted' = aborted /\ t \notin aborted
  BY <1>0 DEF linkVars, poolVars, streamVars, TypeOK, DropIsExcused, CallPc
<1>3. ~Untouched(t)'
  BY <1>1 DEF Untouched, OneShot
<1>4. th[t].pc \notin Handshake /\ th[t].op \notin {"write", "clunk"}
  BY <1>0 DEF Handshake, StreamIsUps
<1>5. QED
  BY <1>1, <1>2, <1>3, <1>4, BodyFrame DEF Handshake

LEMMA MonInv ==
  ASSUME IInv, MonPoll \/ MonReturn
  PROVE  IInv'
<1>1. "mon" \in Thread /\ "mon" # "up"
  BY FidsApart
<1>2. CASE MonPoll
  <2>1. "relink" \in OpName \ {"write", "clunk"} /\ th["mon"].pc \notin CallPc
    BY <1>2 DEF MonPoll, OpName, CallPc
  <2>2. QED
    BY <1>1, <1>2, <2>1, StartInv DEF MonPoll
<1>3. CASE MonReturn
  <2>1. "status" \in OpName \ {"write", "clunk"}
    BY DEF OpName
  <2>2. th["mon"].pc \in {"ok", "err"} /\ th["mon"].pc \notin CallPc
    BY <1>3 DEF MonReturn, CallPc
  <2>3. QED
    BY <1>1, <1>3, <2>1, <2>2, StartInv, ReturnInv DEF MonReturn
<1>4. QED
  BY <1>2, <1>3

LEMMA OpInv ==
  ASSUME IInv, NEW t \in Op, OpReturn(t) \/ \E op \in Ops : OpStart(t, op)
  PROVE  IInv'
<1>1. t \in Thread /\ t # "up"
  BY RelayAssumption DEF Thread
<1>2. ASSUME NEW op \in Ops, OpStart(t, op)
      PROVE  IInv'
  <2>1. op \in OpName \ {"write", "clunk"}
    BY RelayAssumption DEF OpName
  <2>2. th[t].pc \notin CallPc
    BY <1>2 DEF OpStart, CallPc
  <2>3. QED
    BY <1>1, <1>2, <2>1, <2>2, StartInv DEF OpStart
<1>3. CASE OpReturn(t)
  BY <1>1, <1>3, ReturnInv DEF OpReturn
<1>4. QED
  BY <1>2, <1>3

LEMMA ConvCloseInv ==
  ASSUME IInv, ConvClose
  PROVE  IInv'
<1>0. /\ TypeOK /\ SessionLocked /\ FidsAreServed /\ DropIsExcused
      /\ Healing /\ StreamIsUps /\ OffsetsAgree /\ StreamInSlot /\ ClosedIsWhole
  BY DEF IInv
<1>1. /\ UNCHANGED <<attached, versioned, sess, wr, th, aborted, pool, excuse, writing,
                     woff, fwd, armed, host, node>>
      /\ live' = live \ {"conv"}
  BY DEF ConvClose, linkVars, poolVars, streamVars
<1>2. TypeOK' /\ SessionLocked' /\ DropIsExcused' /\ StreamIsUps'
  BY <1>0, <1>1 DEF TypeOK, SessionLocked, DropIsExcused, StreamIsUps
<1>3. FidsAreServed' /\ StreamInSlot'
  BY <1>0, <1>1 DEF FidsAreServed, StreamInSlot, Attachable
<1>4. Healing'
  BY <1>0, <1>1, FidsApart DEF Healing, Untouched, HealsFrom, OneShot, Attachable
<1>5. OffsetsAgree' /\ ClosedIsWhole'
  BY <1>0, <1>1, OffsetsFrame, ClosedFrame
<1>6. QED
  BY <1>2, <1>3, <1>4, <1>5 DEF IInv

(* The streaming host acts: what does not concern its place in the image.     *)
LEMMA UpFrame ==
  ASSUME IInv, th["up"].pc \notin CallPc, th' \in [Thread -> ThreadState], Others("up"),
         th'["up"].pc \in {"wr", "sess", "idle"}, th'["up"].op \notin OneShot,
         th'["up"].pc = "wr" <=> th'["up"].op \in {"write", "clunk"},
         host' \in [off : 0 .. N, closing : BOOLEAN, done : BOOLEAN],
         UNCHANGED <<linkVars, wr, live, aborted, poolVars, writing, woff, armed, node>>,
         fwd' \in 0 .. Batch, OffsetsAgree', StreamInSlot', ClosedIsWhole'
  PROVE  IInv'
<1>0. /\ TypeOK /\ SessionLocked /\ FidsAreServed /\ DropIsExcused
      /\ Healing /\ StreamIsUps /\ "up" \in Thread
  BY FidsApart DEF IInv
<1>1. /\ UNCHANGED <<attached, versioned, sess, wr, live, aborted, pool, excuse, writing, woff,
                     armed, node>>
      /\ "up" \notin aborted
  BY <1>0 DEF linkVars, poolVars, DropIsExcused
<1>2. TypeOK'
  BY <1>0, <1>1 DEF TypeOK
<1>3. SessionLocked'
  BY <1>0, <1>1, SessionFrame DEF SessionLocked, Handshake, CallPc
<1>4. FidsAreServed'
  BY <1>0, <1>1 DEF FidsAreServed, Attachable
<1>5. DropIsExcused'
  BY <1>0, <1>1, ExcuseFrame DEF DropIsExcused
<1>6. Healing'
  <2>1. ~Untouched("up")'
    BY DEF Untouched, OneShot
  <2>2. QED
    BY <1>0, <1>1, <2>1, HealingFrame DEF Attachable
<1>7. StreamIsUps'
  BY <1>0, StreamUpsFrame
<1>8. QED
  BY <1>2, <1>3, <1>4, <1>5, <1>6, <1>7 DEF IInv

LEMMA UpStartInv ==
  ASSUME IInv, UpStart
  PROVE  IInv'
<1>0. TypeOK /\ OffsetsAgree /\ StreamInSlot /\ ClosedIsWhole /\ "up" \in Thread
  BY FidsApart DEF IInv
<1>1. PICK op \in {"reboot", "clunk", "write"} :
        /\ Start("up", op)
        /\ op = IF host.done THEN "reboot"
                ELSE IF host.closing \/ host.off = N THEN "clunk" ELSE "write"
  BY DEF UpStart
<1>2. /\ th' \in [Thread -> ThreadState] /\ Others("up")
      /\ th'["up"].pc = IF op \in {"write", "clunk"} THEN "wr" ELSE "sess"
      /\ th'["up"].op = op
  BY <1>0, <1>1, StartThread DEF OpName
<1>3. /\ th["up"].pc = "idle" /\ UNCHANGED <<writing, woff, fwd, host, live, node>>
      /\ UNCHANGED <<linkVars, wr, live, aborted, poolVars, writing, woff, armed, node>>
  BY DEF UpStart, streamVars
<1>4. OffsetsAgree'
  BY <1>0, <1>1, <1>2, <1>3, RelayAssumption, WantedKept DEF OffsetsAgree, Over, Handshake, TypeOK
<1>5. host' \in [off : 0 .. N, closing : BOOLEAN, done : BOOLEAN] /\ fwd' \in 0 .. Batch
  BY <1>0, <1>3 DEF TypeOK
<1>6. StreamInSlot' /\ ClosedIsWhole'
  <2>1. th'["up"].pc # "ok"
    BY <1>2
  <2>2. QED
    BY <1>0, <1>3, <2>1, ClosedFrame DEF StreamInSlot
<1>7. QED
  BY <1>1, <1>2, <1>3, <1>4, <1>5, <1>6, UpFrame DEF CallPc, OneShot

(* A write that went through takes the host further by what it brought; after  *)
(* a clunk it is at the start again.                                         *)
LEMMA UpReturnInv ==
  ASSUME IInv, UpReturn
  PROVE  IInv'
<1>0. TypeOK /\ OffsetsAgree /\ StreamInSlot /\ ClosedIsWhole /\ "up" \in Thread
  BY FidsApart DEF IInv
<1>1. /\ th["up"].pc \in {"ok", "err"} /\ fwd' = 0 /\ UNCHANGED <<writing, woff, live, node>>
      /\ UNCHANGED <<linkVars, wr, live, aborted, poolVars, writing, woff, armed, node>>
  BY DEF UpReturn
<1>2. /\ th' \in [Thread -> ThreadState] /\ Others("up")
      /\ th'["up"].pc = "idle" /\ th'["up"].op = "none"
  BY <1>0, RestThread DEF UpReturn
<1>3. \/ /\ th["up"].op = "clunk"
         /\ host'.off = 0 /\ host'.closing = FALSE /\ host'.done \in BOOLEAN
         /\ host'.done => host.off = N /\ ~host.closing /\ th["up"].pc = "ok"
      \/ /\ th["up"].op \notin {"clunk", "write"}
         /\ host'.off = host.off
         /\ host'.closing = host.closing \/ host'.closing = TRUE
         /\ host'.done = FALSE
      \/ /\ th["up"].op = "write" /\ th["up"].pc = "ok"
         /\ host'.off = host.off + fwd /\ host'.closing = host.closing /\ host'.done = host.done
      \/ /\ th["up"].op = "write" /\ th["up"].pc = "err"
         /\ host'.off = host.off /\ host'.closing = TRUE /\ host'.done = host.done
  <2>1. CASE th["up"].op = "clunk"
    BY <1>0, <2>1 DEF UpReturn, TypeOK
  <2>2. CASE th["up"].op = "reboot"
    BY <1>0, <2>2 DEF UpReturn, TypeOK
  <2>3. CASE th["up"].op = "write" /\ th["up"].pc = "ok"
    <3>1. host' = [host EXCEPT !.off = @ + fwd]
      BY <2>3 DEF UpReturn
    <3>2. QED
      BY <1>0, <2>3, <3>1 DEF TypeOK
  <2>4. CASE th["up"].op = "write" /\ th["up"].pc = "err"
    <3>1. host' = [host EXCEPT !.closing = TRUE]
      BY <2>4 DEF UpReturn
    <3>2. QED
      BY <1>0, <2>4, <3>1 DEF TypeOK
  <2>5. QED
    BY <1>0, <1>1, <2>1, <2>2, <2>3, <2>4 DEF OffsetsAgree
<1>4. /\ N \in Nat /\ host.off \in 0 .. N /\ fwd \in Nat /\ host.off + fwd <= N /\ 0 \in 0 .. Batch
      /\ host.closing \in BOOLEAN /\ host.done \in BOOLEAN
  <2>1. Wanted \in Nat /\ host.off + Wanted <= N /\ fwd <= Wanted
    BY <1>0, WantedBounds DEF OffsetsAgree
  <2>2. /\ N \in Nat /\ host.off \in 0 .. N /\ fwd \in Nat /\ 0 \in 0 .. Batch
        /\ host.closing \in BOOLEAN /\ host.done \in BOOLEAN
    BY <1>0, RelayAssumption DEF TypeOK
  <2>3. QED
    BY <2>1, <2>2
<1>5. host' \in [off : 0 .. N, closing : BOOLEAN, done : BOOLEAN]
  <2>1. host'.off \in 0 .. N
    BY <1>3, <1>4
  <2>2. host'.closing \in BOOLEAN /\ host'.done \in BOOLEAN
    BY <1>3, <1>4
  <2>3. \/ host' = [host EXCEPT !.off = host'.off, !.closing = host'.closing, !.done = host'.done]
        \/ host' = [off |-> host'.off, closing |-> host'.closing, done |-> host'.done]
    BY <1>0, <1>1 DEF UpReturn, TypeOK
  <2>4. QED
    BY <1>0, <2>1, <2>2, <2>3 DEF TypeOK
<1>6. OffsetsAgree'
  <2>1. 0 <= Wanted'
    <3>1. host'.off \in 0 .. N
      BY <1>5
    <3>2. QED
      BY <3>1, RelayAssumption DEF Wanted, Smaller
  <2>2. th["up"].op # "write" => fwd = 0
    BY <1>0 DEF OffsetsAgree
  <2>3. QED
    BY <1>0, <1>1, <1>2, <1>3, <2>1, <2>2 DEF OffsetsAgree, Over, Handshake
<1>7. StreamInSlot'
  <2>1. SUFFICES ASSUME "stream" \in live
                 PROVE  node.slot >= host'.off + 0
    BY <1>0, <1>1 DEF StreamInSlot
  <2>2. writing /\ node.slot >= host.off + fwd /\ node.slot \in Nat
    BY <1>0, <1>4, <2>1 DEF StreamInSlot, TypeOK
  <2>3. host'.off = host.off + fwd \/ host'.off = host.off
    BY <1>0, <1>1, <1>3, <2>2 DEF OffsetsAgree, Over
  <2>4. QED
    BY <1>4, <2>2, <2>3
<1>8. ClosedIsWhole'
  <2>1. GotThrough' => host'.done
    BY <1>2 DEF GotThrough
  <2>2. host'.done => GotThrough
    BY <1>3 DEF GotThrough
  <2>3. QED
    BY <1>0, <1>1, <2>1, <2>2 DEF ClosedIsWhole
<1>9. QED
  BY <1>0, <1>1, <1>2, <1>4, <1>5, <1>6, <1>7, <1>8, UpFrame DEF CallPc, OneShot

-----------------------------------------------------------------------------
(* A host session drops                                                      *)

LEMMA HostGoneInv ==
  ASSUME IInv, HostGone
  PROVE  IInv'
<1>0. /\ TypeOK /\ SessionLocked /\ FidsAreServed /\ DropIsExcused
      /\ Healing /\ StreamIsUps /\ OffsetsAgree /\ StreamInSlot /\ ClosedIsWhole
  BY DEF IInv
<1>1. /\ UNCHANGED <<attached, versioned, sess, wr, live, writing, woff, fwd, armed, node>>
      /\ pool' = "reset" /\ excuse' = TRUE /\ excuse' \in BOOLEAN
      /\ aborted' = {t \in Thread : th[t].pc \in CallPc}
      /\ \/ host' = [host EXCEPT !.closing = ~host.done]
         \/ host' = host
  BY DEF HostGone, linkVars, streamVars
<1>2. /\ th' \in [Thread -> ThreadState]
      /\ \A u \in Thread :
           /\ th'[u].op = th[u].op /\ th'[u].pc = th[u].pc
           /\ th'[u].op \in OneShot => th'[u].hit
  BY <1>0, MarkedThreads DEF HostGone
<1>3. /\ host' \in [off : 0 .. N, closing : BOOLEAN, done : BOOLEAN]
      /\ host'.off = host.off /\ host'.done = host.done
      /\ host'.closing = host.closing \/ host'.closing = ~host.done
  BY <1>0, <1>1 DEF TypeOK
<1>4. TypeOK'
  BY <1>0, <1>1, <1>2, <1>3 DEF TypeOK
<1>5. SessionLocked'
  BY <1>0, <1>1, <1>2 DEF SessionLocked, Handshake
<1>6. FidsAreServed' /\ StreamInSlot'
  BY <1>0, <1>1, <1>3 DEF FidsAreServed, StreamInSlot, Attachable
<1>7. DropIsExcused'
  BY <1>1, <1>2 DEF DropIsExcused
<1>8. Healing'
  BY <1>2, AllTouched
<1>9. StreamIsUps'
  BY <1>0, <1>2 DEF StreamIsUps
<1>10. OffsetsAgree'
  BY <1>0, <1>1, <1>2, <1>3, FidsApart, WantedKept DEF OffsetsAgree, Over, Handshake
<1>11. ClosedIsWhole'
  <2>1. th'["up"].op = th["up"].op /\ th'["up"].pc = th["up"].pc
    BY <1>2, FidsApart
  <2>2. GotThrough' => GotThrough
    BY <1>3, <2>1 DEF GotThrough
  <2>3. QED
    BY <1>0, <1>1, <2>2 DEF ClosedIsWhole
<1>12. QED
  BY <1>4, <1>5, <1>6, <1>7, <1>8, <1>9, <1>10, <1>11 DEF IInv

LEMMA HostForgottenInv ==
  ASSUME IInv, HostForgotten
  PROVE  IInv'
<1>0. /\ TypeOK /\ SessionLocked /\ FidsAreServed /\ DropIsExcused
      /\ Healing /\ StreamIsUps /\ OffsetsAgree /\ StreamInSlot /\ ClosedIsWhole
  BY DEF IInv
<1>1. /\ UNCHANGED <<sess, wr, live, aborted, excuse, writing, woff, fwd, armed, host, node>>
      /\ sess = NoOne /\ excuse /\ pool' = "idle"
      /\ attached' = FALSE /\ attached' \in BOOLEAN
      /\ versioned' = FALSE /\ versioned' \in BOOLEAN
  BY <1>0 DEF HostForgotten, streamVars, DropIsExcused
<1>2. /\ th' \in [Thread -> ThreadState]
      /\ \A u \in Thread :
           /\ th'[u].op = th[u].op /\ th'[u].pc = th[u].pc
           /\ th'[u].op \in OneShot => th'[u].hit
  BY <1>0, MarkedThreads DEF HostForgotten
<1>3. TypeOK'
  BY <1>0, <1>1, <1>2 DEF TypeOK
<1>4. SessionLocked'
  BY <1>0, <1>1, <1>2, FidsApart DEF SessionLocked, Handshake
<1>5. FidsAreServed' /\ StreamInSlot'
  BY <1>0, <1>1 DEF FidsAreServed, StreamInSlot, Attachable
<1>6. DropIsExcused'
  BY <1>0, <1>1, <1>2 DEF DropIsExcused
<1>7. Healing'
  BY <1>2, AllTouched
<1>8. StreamIsUps'
  BY <1>0, <1>2 DEF StreamIsUps
<1>9. OffsetsAgree' /\ ClosedIsWhole'
  BY <1>0, <1>1, <1>2, OffsetsFrame, ClosedFrame, FidsApart
<1>10. QED
  BY <1>3, <1>4, <1>5, <1>6, <1>7, <1>8, <1>9 DEF IInv

-----------------------------------------------------------------------------
(* The invariant                                                             *)

LEMMA InitInv == Init => IInv
<1>1. SUFFICES ASSUME Init
               PROVE  IInv
  OBVIOUS
<1>2. th \in [Thread -> ThreadState] /\ \A t \in Thread : th[t] = Idle
  BY <1>1 DEF Init, Idle, ThreadState, Pc, OpName
<1>3. TypeOK
  <2>1. /\ attached \in BOOLEAN /\ versioned \in BOOLEAN /\ excuse \in BOOLEAN
        /\ writing \in BOOLEAN /\ armed \in BOOLEAN
    BY <1>1 DEF Init
  <2>2. QED
    BY <1>1, <1>2, <2>1, RelayAssumption DEF Init, TypeOK
<1>4. SessionLocked /\ FidsAreServed /\ DropIsExcused
  BY <1>1, <1>2, FidsApart DEF Init, SessionLocked, Handshake, FidsAreServed, DropIsExcused, Idle
<1>5. Healing /\ StreamIsUps /\ StreamInSlot
  BY <1>1, <1>2 DEF Init, Healing, Untouched, OneShot, StreamIsUps, StreamInSlot, Idle
<1>6. OffsetsAgree /\ ClosedIsWhole
  <2>1. 0 <= Wanted
    BY <1>1, RelayAssumption DEF Init, Wanted, Smaller
  <2>2. QED
    BY <1>1, <1>2, <2>1, FidsApart
       DEF Init, OffsetsAgree, Over, Handshake, Idle, ClosedIsWhole, GotThrough
<1>7. QED
  BY <1>3, <1>4, <1>5, <1>6 DEF IInv

LEMMA StutterInv ==
  ASSUME IInv, UNCHANGED vars
  PROVE  IInv'
<1>1. UNCHANGED <<attached, versioned, sess, wr, th, live, aborted, pool, excuse, writing, woff, fwd,
                  armed, host, node>>
  BY DEF vars, linkVars, poolVars, streamVars
<1>2. /\ TypeOK' = TypeOK /\ SessionLocked' = SessionLocked /\ FidsAreServed' = FidsAreServed
      /\ DropIsExcused' = DropIsExcused /\ StreamIsUps' = StreamIsUps
      /\ OffsetsAgree' = OffsetsAgree /\ StreamInSlot' = StreamInSlot /\ Healing' = Healing
      /\ ClosedIsWhole' = ClosedIsWhole
  BY <1>1, WantedKept DEF ClosedIsWhole, GotThrough, TypeOK, SessionLocked, FidsAreServed, DropIsExcused, StreamIsUps, OffsetsAgree, Over,
     StreamInSlot, Healing, Untouched, HealsFrom, Attachable
<1>3. QED
  BY <1>2 DEF IInv

LEMMA NextInv ==
  ASSUME IInv, [Next]_vars
  PROVE  IInv'
<1>1. ASSUME NEW t \in Thread, Step(t)
      PROVE  IInv'
  BY <1>1, EnsureInv, ReattachInv, VersionInv, AttachInv, WalkInv, OpenInv, DropInv, ReadBodyInv,
     ConfirmBodyInv, RebootBodyInv, ForgetInv, ConvBodyInv, TakeWrInv, WriteBodyInv, ClunkBodyInv
     DEF Step
<1>2. CASE MonPoll \/ MonReturn
  BY <1>2, MonInv
<1>3. ASSUME NEW t \in Op, OpReturn(t) \/ \E op \in Ops : OpStart(t, op)
      PROVE  IInv'
  BY <1>3, OpInv
<1>4. CASE ConvClose \/ UpStart \/ UpReturn
  BY <1>4, ConvCloseInv, UpStartInv, UpReturnInv
<1>5. CASE HostGone \/ HostForgotten \/ NodeCrash \/ NodeBoot
  BY <1>5, HostGoneInv, HostForgottenInv, NodeCrashInv, NodeBootInv
<1>6. CASE UNCHANGED vars
  BY <1>6, StutterInv
<1>7. QED
  BY <1>1, <1>2, <1>3, <1>4, <1>5, <1>6 DEF Next

LEMMA InvHolds == Spec => []IInv
BY InitInv, NextInv, PTL DEF Spec

(* Every state is well-typed: the mutexes have at most one owner of the        *)
(* relay's threads, an operation is tried at most twice, and no offset runs   *)
(* past the image (mesh_ensure_attached, fw9151_write).                      *)
THEOREM TypeCorrect == Spec => []TypeOK
<1>1. IInv => TypeOK
  BY DEF IInv
<1>2. QED
  BY <1>1, InvHolds, PTL

(* Whatever state of the session it starts from and whoever attaches, drops   *)
(* or reboots meanwhile, a one-shot operation fails only if something         *)
(* happened to the link (fw9151_open_remote).                                *)
THEOREM OpHealsAlways == Spec => []OpHeals
<1>1. IInv => OpHeals
  BY DEF IInv, OpHeals, Healing, Untouched, HealsFrom
<1>2. QED
  BY <1>1, InvHolds, PTL

(* Attaching again takes no conversation from its holder: the Tversion that    *)
(* would is sent only for a link that knows no fids, or after a host session *)
(* dropped (mesh_ensure_attached).                                           *)
THEOREM LiveSessionIsKept == Spec => LiveSessionKept
<1> DEFINE Kept == ("conv" \in live /\ "conv" \notin live') => ~node'.up \/ excuse \/ ConvClose
<1>1. ASSUME IInv, [Next]_vars
      PROVE  [Kept]_vars
  <2>1. SUFFICES ASSUME Next, "conv" \in live, "conv" \notin live', ~excuse
                 PROVE  ~node'.up \/ ConvClose
    BY <1>1
  <2>2. versioned /\ TypeOK /\ SessionLocked /\ "conv" \notin Thread
    BY <1>1, <2>1, FidsApart DEF IInv, FidsAreServed
  <2>3. ASSUME NEW t \in Thread, Step(t)
        PROVE  ~node'.up
    <3>1. ~Version(t)
      BY <2>2 DEF Version, SessionLocked
    <3>2. CASE Ensure(t) \/ Reattach(t) \/ Attach(t)
      BY <2>1, <2>2, <3>2 DEF Ensure, Reattach, Attach, AttachOk
    <3>3. CASE Walk(t) \/ Open(t) \/ Drop(t) \/ Forget(t) \/ TakeWr(t)
      BY <2>1, <2>2, <3>3 DEF Walk, Open, Drop, Forget, TakeWr
    <3>4. CASE ReadBody(t) \/ ConfirmBody(t) \/ ConvBody(t) \/ WriteBody(t) \/ ClunkBody(t)
      BY <2>1, <2>2, <3>4 DEF ReadBody, ConfirmBody, ConvBody, WriteBody, SubWrite, StreamFails,
         ClunkBody, ServerClunk
    <3>5. CASE RebootBody(t)
      BY <2>1, <2>2, <3>5 DEF RebootBody, GoDown, TypeOK
    <3>6. QED
      BY <2>3, <3>1, <3>2, <3>3, <3>4, <3>5 DEF Step
  <2>4. CASE MonPoll \/ MonReturn \/ UpStart \/ UpReturn \/ HostGone \/ HostForgotten \/ NodeBoot
    BY <2>1, <2>2, <2>4, FidsApart
       DEF MonPoll, MonReturn, UpStart, UpReturn, HostGone, HostForgotten, NodeBoot
  <2>5. CASE \E t \in Op : OpReturn(t) \/ \E op \in Ops : OpStart(t, op)
    BY <2>1, <2>5 DEF OpReturn, OpStart
  <2>6. CASE NodeCrash
    BY <2>2, <2>6 DEF NodeCrash, GoDown, TypeOK
  <2>7. QED
    BY <2>1, <2>3, <2>4, <2>5, <2>6 DEF Next
<1>2. QED
  BY <1>1, InvHolds, PTL DEF Spec, LiveSessionKept

(* An upload the host was told is complete is whole in the slot when the 9151  *)
(* is asked to upgrade to it: a stream that was re-opened at offset 0 under a  *)
(* host that goes on where it was would not be (fw9151_write, fw9151_clunk).  *)
THEOREM CompletedUploadIsWhole == Spec => []CompletedIsWhole
<1>1. IInv => CompletedIsWhole
  BY DEF IInv, ClosedIsWhole, GotThrough, CompletedIsWhole
<1>2. QED
  BY <1>1, InvHolds, PTL

(* No step but the clunk after a failed sub-write asks for an upgrade to a     *)
(* part of the image, unless the host closes the file early: the clunk of an   *)
(* upload that got through finds the whole image in the slot, whatever was    *)
(* lost, short, aborted or started anew before (fw9151_write, fw9151_clunk).  *)
THEOREM UpgradeIsOfWhole == Spec => UpgradeIsWhole
<1> DEFINE Whole == ~node.upgrade /\ node'.upgrade
                      => \/ node'.slot = N
                         \/ host.closing
                         \/ th["up"].op = "write" /\ th'["up"].pc = "err"
<1>1. ASSUME IInv, [Next]_vars
      PROVE  [Whole]_vars
  <2>1. SUFFICES ASSUME Next, ~node.upgrade, node'.upgrade, ~host.closing,
                        ~(th["up"].op = "write" /\ th'["up"].pc = "err")
                 PROVE  node'.slot = N
    BY <1>1
  <2>2. TypeOK /\ StreamIsUps /\ OffsetsAgree /\ StreamInSlot /\ N \in Nat
    BY <1>1, RelayAssumption DEF IInv
  <2>3. ASSUME NEW t \in Thread, Step(t)
        PROVE  node'.slot = N
    <3>1. node' # node
      BY <2>1
    <3>2. ~(Ensure(t) \/ Reattach(t) \/ Attach(t) \/ Walk(t) \/ Open(t) \/ Drop(t))
      BY <3>1 DEF Ensure, Reattach, Attach, Walk, Open, Drop
    <3>3. ~(ReadBody(t) \/ Forget(t) \/ ConvBody(t) \/ TakeWr(t))
      BY <3>1 DEF ReadBody, Forget, ConvBody, TakeWr
    <3>4. ~(Version(t) \/ ConfirmBody(t) \/ RebootBody(t))
      BY <2>1, <2>2, <3>1 DEF Version, ServerVersion, ConfirmBody, RebootBody, GoDown, TypeOK
    <3>5. ~WriteBody(t)
      <4>1. SUFFICES ASSUME WriteBody(t)
                     PROVE  FALSE
        OBVIOUS
      <4>2. t = "up" /\ th["up"].op = "write"
        BY <2>2, <4>1 DEF WriteBody, StreamIsUps
      <4>3. ~SubWrite(t)
        BY <2>1, <2>2 DEF SubWrite, TypeOK
      <4>4. Finish("up", "err")
        BY <4>1, <4>2, <4>3 DEF WriteBody, StreamFails
      <4>5. th'["up"].pc = "err"
        BY <2>2, <4>4, FinishThread, FidsApart DEF Goes, Pc
      <4>6. QED
        BY <2>1, <4>2, <4>5
    <3>6. CASE ClunkBody(t)
      <4>1. t = "up" /\ th["up"].op = "clunk"
        BY <2>2, <3>6 DEF ClunkBody, StreamIsUps
      <4>2. PICK through \in BOOLEAN : ServerClunk(through, node.slot)
        BY <3>6 DEF ClunkBody, Outcome
      <4>3. "stream" \in live /\ node'.slot = node.slot /\ node.slot \in 0 .. N
        BY <2>1, <2>2, <4>2, ServerClunkEffect DEF TypeOK
      <4>4. host.off = N /\ node.slot >= host.off + fwd /\ fwd \in Nat
        BY <2>1, <2>2, <4>1, <4>3, RelayAssumption DEF OffsetsAgree, StreamInSlot, TypeOK
      <4>5. QED
        BY <2>2, <4>3, <4>4
    <3>7. QED
      BY <2>3, <3>2, <3>3, <3>4, <3>5, <3>6 DEF Step
  <2>4. node' # node
    BY <2>1
  <2>5. ~(MonPoll \/ MonReturn \/ UpStart \/ UpReturn \/ HostGone \/ HostForgotten \/ ConvClose)
    BY <2>4 DEF MonPoll, MonReturn, UpStart, UpReturn, HostGone, HostForgotten, ConvClose
  <2>6. ~(\E t \in Op : OpReturn(t) \/ \E op \in Ops : OpStart(t, op))
    BY <2>4 DEF OpReturn, OpStart
  <2>7. ~(NodeCrash \/ NodeBoot)
    BY <2>1, <2>2 DEF NodeCrash, NodeBoot, GoDown, TypeOK
  <2>8. QED
    BY <2>1, <2>3, <2>5, <2>6, <2>7 DEF Next
<1>2. QED
  BY <1>1, InvHolds, PTL DEF Spec, UpgradeIsWhole

=============================================================================

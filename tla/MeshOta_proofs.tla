----------------------------- MODULE MeshOta_proofs -----------------------------
(* The update of a peer, for every image, ring, bound on the attempts and     *)
(* choice of what the mesh may do: the slot holds a prefix of the image, the *)
(* upgrade is requested of the whole image only, and what the host was told  *)
(* was written arrives.                                                      *)
EXTENDS MeshOta, Integers, TLAPS

-----------------------------------------------------------------------------
(* The peer's ring                                                           *)

Sent(m) ==
  /\ q' \in Seq(Msg) /\ m \in Msg
  /\ Len(q') = Len(q) + 1 /\ q'[Len(q) + 1] = m
  /\ \A i \in 1 .. Len(q) : q'[i] = q[i]

Taken ==
  /\ q' \in Seq(Msg) /\ Len(q) > 0 /\ q[1] \in Msg
  /\ Len(q') = Len(q) - 1
  /\ \A i \in 1 .. Len(q') : q'[i] = q[i + 1]

LEMMA AppendedSeq ==
  ASSUME NEW S, NEW s \in Seq(S), NEW e \in S
  PROVE  /\ Append(s, e) \in Seq(S)
         /\ Len(Append(s, e)) = Len(s) + 1 /\ Append(s, e)[Len(s) + 1] = e
         /\ \A i \in 1 .. Len(s) : Append(s, e)[i] = s[i]
OBVIOUS

LEMMA ElementOfSeq ==
  ASSUME NEW S, NEW s \in Seq(S), NEW i \in 1 .. Len(s)
  PROVE  s[i] \in S
OBVIOUS

LEMMA TailSeq ==
  ASSUME NEW S, NEW s \in Seq(S), s # <<>>
  PROVE  /\ Tail(s) \in Seq(S) /\ Len(s) \in Nat /\ Len(s) > 0
         /\ Head(s) = s[1] /\ s[1] \in S
         /\ Len(Tail(s)) = Len(s) - 1
         /\ \A i \in 1 .. Len(Tail(s)) : Tail(s)[i] = s[i + 1]
<1>1. /\ Tail(s) \in Seq(S) /\ Len(s) \in Nat /\ Len(s) > 0
      /\ Head(s) = s[1] /\ s[1] \in S
      /\ Len(Tail(s)) = Len(s) - 1
  OBVIOUS
<1>2. \A i \in 1 .. Len(Tail(s)) : Tail(s)[i] = s[i + 1]
  OBVIOUS
<1>3. QED
  BY <1>1, <1>2

LEMMA AcceptSends ==
  ASSUME TypeOK, NEW m \in Msg, PeerQ!Accept(m)
  PROVE  Sent(m) /\ Len(q) < Ring
BY AppendedSeq DEF TypeOK, PeerQ!Accept, Sent

LEMMA ServeTakes ==
  ASSUME TypeOK, PeerQ!Serve
  PROVE  Taken /\ Head(q) = q[1]
BY TailSeq DEF TypeOK, PeerQ!Serve, Taken

LEMMA RequestType ==
  ASSUME TypeOK, gw.stage \in Stage
  PROVE  /\ Request \in Msg
         /\ Request.peer = "gateway" /\ Request.op = gw.stage /\ Request.chunk = gw.chunk
         /\ Request.file = IF gw.op \in {"reboot", "confirm"} THEN gw.op ELSE "firmware"
BY DEF TypeOK, Request, Msg, GwState, Client, File

-----------------------------------------------------------------------------
(* What a step of the host does                                              *)

HostStep ==
  /\ host' \in HostState /\ gw' \in GwState
  /\ gw'.tries < SendTries \/ gw'.tries < RpcTries
  /\ UNCHANGED <<rep, q, fid, owner, image, upgrade, confirmed, crowded>>
  /\ lost' \in BOOLEAN
  /\ gw'.active = gw.active /\ gw'.clunked = gw.clunked
  /\ gw'.stage \in {"none", "start"}
  /\ host'.pass = 0 => host.pass = 0
  /\ host'.off <= host.off \/ (gw.op = "write" /\ gw.stage = "ok" /\ host'.off = gw.chunk)
  /\ host'.pc \in {"target", "stream"} => host.pc \in {"target", "stream"}
  /\ host'.pc = "commit" => host.pc \in {"stream", "commit"}
  /\ host'.pass = 0 /\ host'.pc = "target" => host.pc = "target"
  /\ host.pc \notin {"target", "stream"} => host'.off = host.off

LEMMA BoundTypes ==
  /\ N \in Nat /\ N > 0 /\ Ring \in Nat /\ Ring > 0 /\ Depth \in Nat /\ Depth > 0
  /\ Passes \in Nat /\ Passes > 0 /\ HostTries \in Nat /\ HostTries > 0
  /\ SendTries \in Nat /\ SendTries > 0 /\ RpcTries \in Nat /\ RpcTries > 0
  /\ Back \in Nat
BY OtaAssumption

LEMMA CallGw ==
  ASSUME TypeOK, CallsMatch, NEW op \in {"target", "write", "commit", "reboot", "confirm"},
         NEW k \in 0 .. N, Call(op, k)
  PROVE  /\ gw' \in GwState /\ gw.op = "none" /\ ~gw.wait /\ ~gw'.wait
         /\ gw'.stage = "start" /\ gw'.op = op /\ gw'.chunk = k /\ gw'.tries = 0
         /\ gw'.active = gw.active /\ gw'.clunked = gw.clunked
<1>1. gw \in GwState
  BY DEF TypeOK
<1>2. gw' \in GwState
  BY <1>1, Zenon DEF Call, GwState
<1>3. ~gw.wait
  BY DEF CallsMatch, Call, Stage
<1>4. QED
  BY <1>1, <1>2, <1>3 DEF Call, GwState

(* The call is over.                                                         *)
LEMMA IdleGw ==
  ASSUME TypeOK, CallsMatch, gw.stage \in {"ok", "err"}, Idle
  PROVE  /\ gw' \in GwState /\ gw'.stage = "none" /\ gw'.op = "none" /\ ~gw'.wait /\ ~gw.wait
         /\ gw'.tries = gw.tries /\ gw'.active = gw.active /\ gw'.clunked = gw.clunked
<1>1. gw \in GwState
  BY DEF TypeOK
<1>2. gw' \in GwState
  BY <1>1, Zenon DEF Idle, GwState
<1>3. ~gw.wait
  BY DEF CallsMatch, Stage
<1>4. QED
  BY <1>1, <1>2, <1>3 DEF Idle, GwState

LEMMA HostTypes ==
  ASSUME TypeOK
  PROVE  /\ host \in HostState
         /\ host.off \in 0 .. N /\ host.off \in Nat /\ host.resume \in 0 .. N /\ host.resume \in Nat
         /\ host.pass \in 0 .. Passes /\ host.pass \in Nat /\ host.tries \in Nat
         /\ host.tries < HostTries
BY BoundTypes DEF TypeOK, HostState

LEMMA HostTargetStep ==
  ASSUME TypeOK, CallsMatch, HostTarget
  PROVE  HostStep /\ CallsMatch'
<1>1. 0 \in 0 .. N /\ Call("target", 0) /\ host' = host /\ host.pc = "target"
  BY BoundTypes DEF HostTarget
<1>2. HostStep
  BY <1>1, CallGw, HostTypes, BoundTypes DEF TypeOK, HostTarget, HostStep, peerVars
<1>3. CallsMatch'
  BY <1>1, CallGw DEF CallsMatch, HostTarget, Stage
<1>4. QED
  BY <1>2, <1>3

LEMMA HostTargetDoneStep ==
  ASSUME TypeOK, CallsMatch, HostTargetDone
  PROVE  HostStep /\ CallsMatch'
<1>1. gw.op = "target" /\ gw.stage \in {"ok", "err"} /\ Idle
  BY DEF HostTargetDone, Returned
<1>2. host.pass < Passes /\ host.pc = "target" /\ host.resume <= host.off
  BY DEF CallsMatch, HostTargetDone
<1>3. 0 \in 0 .. HostTries - 1 /\ host.pass + 1 \in 0 .. Passes
  BY <1>2, HostTypes, BoundTypes
<1>4. host' \in HostState
  <2>1. CASE host' = [host EXCEPT !.pc = "stream", !.off = host.resume, !.tries = 0]
    BY <2>1, <1>3, HostTypes, Zenon DEF HostState
  <2>2. CASE host' = [host EXCEPT !.pass = @ + 1,
                        !.pc = IF host.pass + 1 < Passes THEN "target" ELSE "failed"]
    BY <2>2, <1>3, HostTypes, Zenon DEF HostState
  <2>3. QED
    BY <2>1, <2>2 DEF HostTargetDone
<1>5. \/ /\ host'.pc = "stream" /\ host'.off = host.resume /\ host'.resume = host.resume
         /\ host'.pass = host.pass
      \/ /\ host'.pc \in {"target", "failed"} /\ host'.off = host.off
         /\ host'.resume = host.resume /\ host'.pass = host.pass + 1
         /\ host'.pc = "target" => host'.pass < Passes
  BY <1>2, HostTypes DEF HostTargetDone, HostState
<1>6. HostStep
  BY <1>1, <1>2, <1>4, <1>5, IdleGw, HostTypes DEF TypeOK, HostTargetDone, HostStep, peerVars
<1>7. CallsMatch'
  BY <1>1, <1>2, <1>5, IdleGw, HostTypes DEF CallsMatch, Stage
<1>8. QED
  BY <1>6, <1>7

LEMMA HostWriteStep ==
  ASSUME TypeOK, CallsMatch, HostWrite
  PROVE  HostStep /\ CallsMatch'
<1>1. host.off + 1 \in 0 .. N /\ host.pc = "stream" /\ host' = host /\ Call("write", host.off + 1)
  BY HostTypes, BoundTypes DEF HostWrite
<1>2. HostStep
  <2>1. /\ gw' \in GwState /\ gw'.tries = 0 /\ gw'.stage = "start"
        /\ gw'.active = gw.active /\ gw'.clunked = gw.clunked
    BY <1>1, CallGw
  <2>2. /\ host \in HostState /\ host.off \in Nat /\ lost' \in BOOLEAN
        /\ UNCHANGED <<rep, q, fid, owner, image, upgrade, confirmed, crowded>>
    BY HostTypes DEF TypeOK, HostWrite, peerVars
  <2>3. QED
    BY <1>1, <2>1, <2>2, BoundTypes DEF HostStep
<1>3. CallsMatch'
  BY <1>1, CallGw DEF CallsMatch, HostWrite, Stage
<1>4. QED
  BY <1>2, <1>3

LEMMA HostWriteDoneStep ==
  ASSUME TypeOK, CallsMatch, HostWriteDone
  PROVE  HostStep /\ CallsMatch'
<1>1. gw.op = "write" /\ gw.stage \in {"ok", "err"} /\ Idle
  BY DEF HostWriteDone, Returned
<1>2. host.pass < Passes /\ host.pc = "stream" /\ host.resume <= host.off
      /\ gw.chunk = host.off + 1 /\ host.off < N
  BY <1>1 DEF CallsMatch, HostWriteDone
<1>3. Resume \in 0 .. N /\ Resume <= host.off
  BY HostTypes, BoundTypes DEF Resume
<1>4. 0 \in 0 .. HostTries - 1 /\ host.pass + 1 \in 0 .. Passes /\ host.off + 1 \in 0 .. N
  BY <1>2, HostTypes, BoundTypes
<1>5. /\ host' \in HostState
      /\ \/ /\ host'.pc = "stream" /\ host'.off = host.off + 1 /\ host'.resume = host.resume
            /\ host'.pass = host.pass /\ gw.stage = "ok"
         \/ /\ host'.pc = "stream" /\ host'.off = host.off /\ host'.resume = host.resume
            /\ host'.pass = host.pass
         \/ /\ host'.pc \in {"target", "failed"} /\ host'.off = host.off
            /\ host'.resume <= host.off /\ host'.pass = host.pass + 1
            /\ host'.pc = "target" => host'.pass < Passes
  <2>1. CASE host' = [host EXCEPT !.off = @ + 1, !.tries = 0] /\ gw.stage = "ok"
    <3>1. host' \in HostState
      BY <2>1, <1>4, HostTypes, Zenon DEF HostState
    <3>2. QED
      BY <3>1, <2>1, <1>2, HostTypes DEF HostState
  <2>2. CASE host.tries + 1 < HostTries /\ host' = [host EXCEPT !.tries = @ + 1]
    <3>1. host.tries + 1 \in 0 .. HostTries - 1
      BY <2>2, HostTypes, BoundTypes
    <3>2. host' \in HostState
      BY <2>2, <3>1, HostTypes, Zenon DEF HostState
    <3>3. QED
      BY <3>2, <2>2, <1>2, HostTypes DEF HostState
  <2>3. CASE host' = [host EXCEPT !.resume = Resume, !.pass = @ + 1, !.tries = 0,
                        !.pc = IF host.pass + 1 < Passes THEN "target" ELSE "failed"]
    <3>1. host' \in HostState
      BY <2>3, <1>3, <1>4, HostTypes, Zenon DEF HostState
    <3>2. QED
      BY <3>1, <2>3, <1>2, <1>3, HostTypes DEF HostState
  <2>4. QED
    BY <2>1, <2>2, <2>3 DEF HostWriteDone, Returned
<1>6. lost' \in BOOLEAN
  BY DEF HostWriteDone, TypeOK
<1>7. HostStep
  BY <1>1, <1>2, <1>5, <1>6, IdleGw, HostTypes DEF TypeOK, HostWriteDone, HostStep, peerVars
<1>8. CallsMatch'
  BY <1>1, <1>2, <1>5, IdleGw, HostTypes DEF CallsMatch, Stage
<1>9. QED
  BY <1>7, <1>8

LEMMA HostCommitStep ==
  ASSUME TypeOK, CallsMatch, HostCommit
  PROVE  HostStep /\ CallsMatch'
<1>1. 0 \in 0 .. N /\ Call("commit", 0) /\ host.pc = "stream" /\ host.off = N
  BY BoundTypes DEF HostCommit
<1>2. host' \in HostState
  BY HostTypes, Zenon DEF HostCommit, HostState
<1>3. /\ host'.pc = "commit" /\ host'.off = host.off
      /\ host'.resume = host.resume /\ host'.pass = host.pass
  BY HostTypes DEF HostCommit, HostState
<1>4. HostStep
  <2>1. /\ gw' \in GwState /\ gw'.tries = 0 /\ gw'.stage = "start"
        /\ gw'.active = gw.active /\ gw'.clunked = gw.clunked
    BY <1>1, CallGw
  <2>2. /\ host.off \in Nat /\ lost' \in BOOLEAN
        /\ UNCHANGED <<rep, q, fid, owner, image, upgrade, confirmed, crowded>>
    BY HostTypes DEF TypeOK, HostCommit, peerVars
  <2>3. QED
    BY <1>1, <1>2, <1>3, <2>1, <2>2, BoundTypes DEF HostStep
<1>5. CallsMatch'
  BY <1>1, <1>3, CallGw DEF CallsMatch, Stage
<1>6. QED
  BY <1>4, <1>5

LEMMA HostCtlStep ==
  ASSUME TypeOK, CallsMatch, HostCtl
  PROVE  HostStep /\ CallsMatch'
<1>1. 0 \in 0 .. N /\ Call(host.pc, 0) /\ host.pc \in {"reboot", "confirm"} /\ host' = host
  BY BoundTypes DEF HostCtl
<1>2. HostStep
  BY <1>1, CallGw, HostTypes, BoundTypes DEF TypeOK, HostCtl, HostStep, peerVars
<1>3. CallsMatch'
  BY <1>1, CallGw DEF CallsMatch, Stage
<1>4. QED
  BY <1>2, <1>3

LEMMA HostCtlDoneStep ==
  ASSUME TypeOK, CallsMatch, HostCtlDone
  PROVE  HostStep /\ CallsMatch'
<1>1. host.pc \in {"commit", "reboot", "confirm"} /\ gw.op = host.pc
      /\ gw.stage \in {"ok", "err"} /\ Idle
  BY DEF HostCtlDone
<1>2. AfterCtl(gw.stage = "ok") \in {"reboot", "confirm", "done", "failed"}
  BY <1>1 DEF AfterCtl
<1>3. host' \in HostState
  BY <1>2, HostTypes, Zenon DEF HostCtlDone, HostState
<1>4. /\ host'.pc \in {"reboot", "confirm", "done", "failed"}
      /\ host'.off = host.off /\ host'.resume = host.resume /\ host'.pass = host.pass
  BY <1>2, HostTypes DEF HostCtlDone, HostState
<1>5. HostStep
  BY <1>1, <1>3, <1>4, IdleGw, HostTypes DEF TypeOK, HostCtlDone, HostStep, peerVars
<1>6. CallsMatch'
  BY <1>1, <1>3, <1>4, IdleGw, HostTypes DEF CallsMatch, Stage
<1>7. QED
  BY <1>5, <1>6

-----------------------------------------------------------------------------
(* What a step of the gateway does                                           *)

TriesBound == gw'.tries < SendTries \/ gw'.tries < RpcTries

SameCall == gw' \in GwState /\ gw'.op = gw.op /\ gw'.chunk = gw.chunk /\ TriesBound

(* The same request again.                                                   *)
Retries ==
  /\ SameCall /\ gw'.stage = gw.stage /\ ~gw'.wait
  /\ gw'.active = gw.active /\ gw'.clunked = gw.clunked

(* What the answer to a request leads to.                                    *)
Turns(ok) ==
  /\ SameCall /\ ~gw'.wait
  /\ gw.stage # "clunk" => gw'.clunked = gw.clunked
  /\ (gw.stage = "open" /\ ok /\ gw.op = "target") \/ gw.stage = "clunk" \/ gw'.active = gw.active
  /\ \/ gw.stage = "version" /\ gw'.stage = IF ok THEN "open" ELSE "err"
     \/ gw.stage = "open" /\ ~ok /\ gw'.stage = "err"
     \/ gw.stage = "open" /\ ok /\ gw.op = "target" /\ gw'.stage = "ok"
     \/ gw.stage = "open" /\ ok /\ gw.op # "target" /\ gw'.stage = "ctl"
     \/ gw.stage = "ctl" /\ gw'.stage = "clunk"
     \/ /\ gw.stage = "clunk" /\ gw'.stage \in {"ok", "err"} /\ ~gw'.active
        /\ gw'.clunked => gw.clunked \/ (gw.op = "commit" /\ ok)

(* push_write gives up.                                                      *)
GivesUp ==
  /\ SameCall /\ gw.stage = "write" /\ gw'.stage = "err" /\ ~gw'.wait
  /\ gw'.active = gw.active /\ gw'.clunked = gw.clunked

LEMMA GwTypes ==
  ASSUME TypeOK
  PROVE  gw \in GwState /\ gw.tries \in Nat /\ gw.res \in {"ok", "err"}
         /\ gw.active \in BOOLEAN /\ gw.clunked \in BOOLEAN /\ gw.wait \in BOOLEAN
BY DEF TypeOK, GwState

LEMMA ReturnGw ==
  ASSUME TypeOK, NEW res \in {"ok", "err"}, Return(res)
  PROVE  /\ SameCall /\ gw'.stage = res /\ ~gw'.wait
         /\ gw'.active = gw.active /\ gw'.clunked = gw.clunked
<1>1. gw' \in GwState
  BY GwTypes, Zenon DEF Return, GwState
<1>2. QED
  BY <1>1, GwTypes, BoundTypes DEF Return, GwState, SameCall, TriesBound

LEMMA ToStageGw ==
  ASSUME TypeOK, NEW st \in Stage, ToStage(st)
  PROVE  /\ SameCall /\ gw'.stage = st /\ ~gw'.wait
         /\ gw'.active = gw.active /\ gw'.clunked = gw.clunked
<1>1. gw' \in GwState
  BY GwTypes, Zenon DEF ToStage, GwState
<1>2. QED
  BY <1>1, GwTypes, BoundTypes DEF ToStage, GwState, SameCall, TriesBound

LEMMA AnsweredGw ==
  ASSUME TypeOK, gw.stage \in Stage \ {"write"}, NEW ok \in BOOLEAN, Answered(ok)
  PROVE  Turns(ok)
<1>1. CASE gw.stage = "version" /\ ok
  BY <1>1, ToStageGw DEF Answered, Turns, Stage
<1>2. CASE gw.stage = "version" /\ ~ok
  BY <1>2, ReturnGw DEF Answered, Turns
<1>3. CASE gw.stage = "open" /\ ~ok
  BY <1>3, ReturnGw DEF Answered, Turns
<1>4. CASE gw.stage = "open" /\ ok /\ gw.op = "target"
  <2>1. gw' = [gw EXCEPT !.stage = "ok", !.wait = FALSE, !.tries = 0, !.active = TRUE]
    BY <1>4 DEF Answered
  <2>2. gw' \in GwState
    BY <2>1, GwTypes, Zenon DEF GwState
  <2>3. QED
    BY <1>4, <2>1, <2>2, GwTypes, BoundTypes DEF GwState, SameCall, TriesBound, Turns
<1>5. CASE gw.stage = "open" /\ ok /\ gw.op # "target"
  BY <1>5, ToStageGw DEF Answered, Turns, Stage
<1>6. CASE gw.stage = "ctl"
  <2> DEFINE r == IF ok \/ gw.op = "reboot" THEN "ok" ELSE "err"
  <2>1. gw' = [gw EXCEPT !.stage = "clunk", !.wait = FALSE, !.tries = 0, !.reads = 0, !.res = r]
    BY <1>6 DEF Answered
  <2>2. r \in {"ok", "err"} /\ "clunk" \in Stage
    BY DEF Stage
  <2> HIDE DEF r
  <2>3. gw' \in GwState
    BY <2>1, <2>2, GwTypes, Zenon DEF GwState
  <2>4. QED
    BY <1>6, <2>1, <2>3, GwTypes, BoundTypes DEF GwState, SameCall, TriesBound, Turns
<1>7. CASE gw.stage = "clunk"
  <2> DEFINE s == IF gw.op = "commit" THEN "ok" ELSE gw.res
             c == gw.clunked \/ (gw.op = "commit" /\ ok)
  <2>1. gw' = [gw EXCEPT !.stage = s, !.wait = FALSE, !.tries = 0, !.active = FALSE, !.clunked = c]
    BY <1>7 DEF Answered
  <2>2. s \in {"ok", "err"} /\ c \in BOOLEAN
    BY GwTypes
  <2>3. c => gw.clunked \/ (gw.op = "commit" /\ ok)
    OBVIOUS
  <2> HIDE DEF s, c
  <2>4. gw' \in GwState
    BY <2>1, <2>2, GwTypes, Zenon DEF GwState
  <2>5. gw'.stage = s /\ ~gw'.wait /\ gw'.tries = 0 /\ ~gw'.active /\ gw'.clunked = c
        /\ gw'.op = gw.op /\ gw'.chunk = gw.chunk
    BY <2>1, GwTypes DEF GwState
  <2>6. QED
    BY <1>7, <2>2, <2>3, <2>4, <2>5, BoundTypes DEF SameCall, TriesBound, Turns
<1>8. QED
  BY <1>1, <1>2, <1>3, <1>4, <1>5, <1>6, <1>7 DEF Stage

LEMMA RpcRetryGw ==
  ASSUME TypeOK, gw.stage \in Stage \ {"write"}, RpcRetry
  PROVE  Retries \/ Turns(FALSE)
<1>1. CASE gw.tries + 1 < RpcTries
  <2>1. gw' = [gw EXCEPT !.tries = @ + 1, !.wait = FALSE, !.reads = 0]
    BY <1>1 DEF RpcRetry
  <2>2. gw.tries + 1 \in Nat
    BY GwTypes
  <2>3. gw' \in GwState
    BY <2>1, <2>2, GwTypes, Zenon DEF GwState
  <2>4. QED
    BY <1>1, <2>1, <2>3, GwTypes DEF GwState, SameCall, TriesBound, Retries
<1>2. CASE ~(gw.tries + 1 < RpcTries)
  BY <1>2, AnsweredGw DEF RpcRetry
<1>3. QED
  BY <1>1, <1>2

LEMMA SendFailedGw ==
  ASSUME TypeOK, Sending, SendFailed
  PROVE  Retries \/ (gw.stage # "write" /\ Turns(FALSE)) \/ GivesUp
<1>1. CASE gw.stage = "write" /\ gw.tries + 1 < SendTries
  <2>1. gw' = [gw EXCEPT !.tries = @ + 1]
    BY <1>1 DEF SendFailed
  <2>2. gw.tries + 1 \in Nat
    BY GwTypes
  <2>3. gw' \in GwState
    BY <2>1, <2>2, GwTypes, Zenon DEF GwState
  <2>4. QED
    BY <1>1, <2>1, <2>3, GwTypes DEF GwState, SameCall, TriesBound, Retries, Sending
<1>2. CASE gw.stage = "write" /\ ~(gw.tries + 1 < SendTries)
  BY <1>2, ReturnGw DEF SendFailed, GivesUp
<1>3. CASE gw.stage # "write"
  BY <1>3, RpcRetryGw DEF SendFailed, Sending
<1>4. QED
  BY <1>1, <1>2, <1>3

(* A call goes from stage to stage in its order.                             *)
LEMMA CallGoesOn ==
  ASSUME TypeOK, CallsMatch, host' = host, gw.stage \in Stage,
         NEW ok \in BOOLEAN,
         Retries \/ (gw.stage # "write" /\ Turns(ok)) \/ GivesUp
  PROVE  CallsMatch'
<1>1. CASE Retries
  BY <1>1 DEF CallsMatch, Retries, SameCall
<1>2. CASE gw.stage # "write" /\ Turns(ok)
  BY <1>2 DEF CallsMatch, Turns, SameCall, Stage
<1>3. CASE GivesUp
  BY <1>3 DEF CallsMatch, GivesUp, SameCall
<1>4. QED
  BY <1>1, <1>2, <1>3

GwStep ==
  /\ UNCHANGED <<host, fid, owner, image, upgrade, confirmed, crowded>>
  /\ SameCall /\ lost' \in BOOLEAN
  /\ rep' \in Seq([op : Stage, ok : BOOLEAN]) /\ Len(rep') <= Depth
  /\ \A i \in 1 .. Len(rep') : \E j \in 1 .. Len(rep) : rep'[i] = rep[j]
  /\ gw.op # "none"
  /\ q' = q \/ (gw.stage \in Stage /\ Sent(Request) /\ Len(q) < Ring)
  /\ gw'.op = "write" /\ gw'.stage = "ok" => gw.stage = "write" /\ Sent(Request)
  /\ gw'.wait => gw'.stage = gw.stage /\ gw.stage \in Stage /\ (gw.wait \/ Sent(Request))
  /\ gw'.stage = "open" => gw.stage = "open" \/ (gw.stage = "version" /\ gw.wait)
  /\ gw'.active => gw.active \/ (gw.stage = "open" /\ gw.wait /\ gw.op = "target" /\ q' = q)
  /\ gw'.clunked => \/ gw.clunked
                    \/ /\ gw.op = "commit"
                       /\ \E i \in 1 .. Len(rep) : rep[i].op = "clunk" /\ rep[i].ok

LEMMA RepTypes ==
  ASSUME TypeOK
  PROVE  /\ rep \in Seq([op : Stage, ok : BOOLEAN]) /\ Len(rep) \in Nat /\ Len(rep) <= Depth
         /\ <<>> \in Seq([op : Stage, ok : BOOLEAN]) /\ Len(<<>>) = 0
BY DEF TypeOK

LEMMA GwStartStep ==
  ASSUME TypeOK, CallsMatch, GwStart
  PROVE  GwStep /\ CallsMatch'
<1>1. gw.stage = "start" /\ gw.op # "none" /\ gw.op \in {"target", "reboot", "confirm", "write", "commit"}
      /\ q' = q /\ host' = host
  BY DEF GwStart
<1>2. /\ SameCall /\ ~gw'.wait /\ gw'.clunked = gw.clunked
      /\ gw'.active => gw.active
      /\ \/ gw.op \in {"target", "reboot", "confirm"} /\ gw'.stage = "version" /\ ~gw'.active
         \/ gw.op \in {"write", "commit"} /\ gw'.stage = "err"
         \/ gw.op = "write" /\ gw'.active /\ gw'.stage = "write"
         \/ gw.op = "commit" /\ gw'.stage = "clunk"
  <2>1. CASE gw.op \in {"target", "reboot", "confirm"}
    <3>1. gw' = [gw EXCEPT !.stage = "version", !.active = FALSE, !.wait = FALSE,
                           !.tries = 0, !.reads = 0]
      BY <2>1 DEF GwStart
    <3>2. "version" \in Stage
      BY DEF Stage
    <3>3. gw' \in GwState
      BY <3>1, <3>2, GwTypes, Zenon DEF GwState
    <3>4. QED
      BY <2>1, <3>1, <3>3, GwTypes, BoundTypes DEF GwState, SameCall, TriesBound
  <2>2. CASE gw.op \in {"write", "commit"} /\ ~gw.active /\ Return("err")
    BY <2>2, ReturnGw, GwTypes
  <2>3. CASE gw.op = "write" /\ gw.active /\ ToStage("write")
    BY <2>3, ToStageGw, GwTypes DEF Stage
  <2>4. CASE gw.op = "commit" /\ gw.active /\ ToStage("clunk")
    BY <2>4, ToStageGw, GwTypes DEF Stage
  <2>5. QED
    BY <1>1, <2>1, <2>2, <2>3, <2>4 DEF GwStart
<1>3. rep' = <<>> \/ rep' = rep
  BY DEF GwStart
<1>4. GwStep
  <2>1. /\ rep' \in Seq([op : Stage, ok : BOOLEAN]) /\ Len(rep') <= Depth
        /\ \A i \in 1 .. Len(rep') : \E j \in 1 .. Len(rep) : rep'[i] = rep[j]
    <3>1. CASE rep' = <<>>
      <4>1. Len(rep') = 0 /\ rep' \in Seq([op : Stage, ok : BOOLEAN])
        BY <3>1, RepTypes
      <4>2. QED
        BY <4>1, BoundTypes
    <3>2. CASE rep' = rep
      BY <3>2, RepTypes
    <3>3. QED
      BY <1>3, <3>1, <3>2
  <2>2. UNCHANGED <<host, fid, owner, image, upgrade, confirmed, crowded>> /\ lost' \in BOOLEAN
    BY DEF GwStart, peerVars, TypeOK
  <2>3. QED
    BY <1>1, <1>2, <2>1, <2>2 DEF GwStep, SameCall
<1>5. CallsMatch'
  BY <1>1, <1>2 DEF CallsMatch, SameCall, Stage
<1>6. QED
  BY <1>4, <1>5

LEMMA SendAckedStep ==
  ASSUME TypeOK, CallsMatch, SendAcked
  PROVE  GwStep /\ CallsMatch'
<1>1. gw.stage \in Stage /\ gw.op # "none" /\ host' = host /\ lost' = lost
  BY DEF SendAcked, Sending, CallsMatch, Stage
<1>2. Sent(Request) /\ Len(q) < Ring
  BY <1>1, RequestType, AcceptSends DEF SendAcked
<1>3. rep' = <<>> \/ rep' = rep
  BY DEF SendAcked
<1>4. CASE gw.stage = "write"
  <2>1. SameCall /\ gw'.stage = "ok" /\ ~gw'.wait /\ gw'.active = gw.active /\ gw'.clunked = gw.clunked
    BY <1>4, ReturnGw DEF SendAcked
  <2>2. GwStep
    BY <1>1, <1>2, <1>3, <1>4, <2>1, RepTypes, BoundTypes DEF SendAcked, GwStep, peerVars, TypeOK
  <2>3. CallsMatch'
    BY <1>1, <1>4, <2>1 DEF CallsMatch, SameCall, Stage
  <2>4. QED
    BY <2>2, <2>3
<1>5. CASE gw.stage # "write"
  <2>1. gw' = [gw EXCEPT !.wait = TRUE, !.reads = 0]
    BY <1>5 DEF SendAcked
  <2>2. gw' \in GwState
    BY <2>1, GwTypes, Zenon DEF GwState
  <2>3. SameCall /\ gw'.stage = gw.stage /\ gw'.active = gw.active /\ gw'.clunked = gw.clunked
    BY <2>1, <2>2, GwTypes, BoundTypes DEF GwState, SameCall, TriesBound, TypeOK
  <2>4. GwStep
    BY <1>1, <1>2, <1>3, <1>5, <2>3, RepTypes, BoundTypes DEF SendAcked, GwStep, peerVars, TypeOK, Stage
  <2>5. CallsMatch'
    BY <1>1, <1>5, <2>3 DEF CallsMatch, SameCall, Stage
  <2>6. QED
    BY <2>4, <2>5
<1>6. QED
  BY <1>4, <1>5

LEMMA SendUnackedStep ==
  ASSUME TypeOK, CallsMatch, SendUnacked
  PROVE  GwStep /\ CallsMatch'
<1>1. gw.stage \in Stage /\ gw.op # "none" /\ host' = host /\ rep' = rep /\ lost' \in BOOLEAN
      /\ Sending /\ SendFailed
  BY DEF SendUnacked, Sending, CallsMatch, Stage
<1>2. Sent(Request) /\ Len(q) < Ring
  BY <1>1, RequestType, AcceptSends DEF SendUnacked
<1>3. Retries \/ (gw.stage # "write" /\ Turns(FALSE)) \/ GivesUp
  BY <1>1, SendFailedGw
<1>4. GwStep
  BY <1>1, <1>2, <1>3, RepTypes
     DEF SendUnacked, GwStep, peerVars, TypeOK, Retries, Turns, GivesUp, Stage, Sending, CallsMatch, SameCall
<1>5. CallsMatch'
  BY <1>1, <1>3, CallGoesOn
<1>6. QED
  BY <1>4, <1>5

LEMMA SendLostStep ==
  ASSUME TypeOK, CallsMatch, SendLost
  PROVE  GwStep /\ CallsMatch'
<1>1. gw.stage \in Stage /\ gw.op # "none" /\ host' = host /\ rep' = rep /\ lost' \in BOOLEAN
      /\ q' = q /\ Sending /\ SendFailed
  BY DEF SendLost, Sending, CallsMatch, Stage, TypeOK
<1>2. Retries \/ (gw.stage # "write" /\ Turns(FALSE)) \/ GivesUp
  BY <1>1, SendFailedGw
<1>3. GwStep
  BY <1>1, <1>2, RepTypes
     DEF SendLost, GwStep, peerVars, TypeOK, Retries, Turns, GivesUp, Stage, Sending, CallsMatch, SameCall
<1>4. CallsMatch'
  BY <1>1, <1>2, CallGoesOn
<1>5. QED
  BY <1>3, <1>4

LEMMA GwTimeoutStep ==
  ASSUME TypeOK, CallsMatch, GwTimeout
  PROVE  GwStep /\ CallsMatch'
<1>1. gw.stage \in Stage \ {"write"} /\ gw.op # "none" /\ host' = host /\ rep' = rep
      /\ lost' \in BOOLEAN /\ q' = q /\ gw.wait
  BY DEF GwTimeout, CallsMatch, Stage, TypeOK
<1>2. Retries \/ Turns(FALSE)
  BY <1>1, RpcRetryGw DEF GwTimeout
<1>3. GwStep
  BY <1>1, <1>2, RepTypes
     DEF GwTimeout, GwStep, peerVars, TypeOK, Retries, Turns, Stage, CallsMatch, SameCall
<1>4. CallsMatch'
  BY <1>1, <1>2, CallGoesOn
<1>5. QED
  BY <1>3, <1>4

LEMMA GwTakeStep ==
  ASSUME TypeOK, CallsMatch, GwTake
  PROVE  GwStep /\ CallsMatch'
<1>1. gw.stage \in Stage \ {"write"} /\ gw.op # "none" /\ host' = host /\ lost' = lost
      /\ q' = q /\ gw.wait
  BY DEF GwTake, CallsMatch, Stage
<1>2. /\ rep' \in Seq([op : Stage, ok : BOOLEAN]) /\ Len(rep) > 0
      /\ Head(rep) = rep[1] /\ rep[1] \in [op : Stage, ok : BOOLEAN]
      /\ Len(rep') <= Depth
      /\ \A i \in 1 .. Len(rep') : rep'[i] = rep[i + 1] /\ i + 1 \in 1 .. Len(rep)
  <2>1. rep # <<>> /\ rep' = Tail(rep)
    BY DEF GwTake
  <2>2. /\ Tail(rep) \in Seq([op : Stage, ok : BOOLEAN]) /\ Len(rep) > 0
        /\ Head(rep) = rep[1] /\ rep[1] \in [op : Stage, ok : BOOLEAN]
        /\ Len(Tail(rep)) = Len(rep) - 1
        /\ \A i \in 1 .. Len(Tail(rep)) : Tail(rep)[i] = rep[i + 1]
    BY <2>1, TailSeq, RepTypes
  <2>3. Len(Tail(rep)) <= Depth /\ \A i \in 1 .. Len(Tail(rep)) : i + 1 \in 1 .. Len(rep)
    BY <2>2, RepTypes, BoundTypes
  <2>4. QED
    BY <2>1, <2>2, <2>3
<1>3. \A i \in 1 .. Len(rep') : \E j \in 1 .. Len(rep) : rep'[i] = rep[j]
  BY <1>2
<1>4. \/ Retries
      \/ Turns(FALSE)
      \/ rep[1].op = gw.stage /\ Turns(rep[1].ok)
      \/ SameCall /\ gw'.stage = gw.stage /\ gw'.active = gw.active /\ gw'.clunked = gw.clunked
  <2>1. CASE rep[1].op = gw.stage
    BY <1>1, <1>2, <2>1, AnsweredGw DEF GwTake
  <2>2. CASE rep[1].op # gw.stage /\ gw.reads = 0
    <3>1. gw' = [gw EXCEPT !.reads = 1]
      BY <1>2, <2>2 DEF GwTake
    <3>2. gw' \in GwState
      BY <3>1, GwTypes, Zenon DEF GwState
    <3>3. QED
      BY <3>1, <3>2, GwTypes DEF GwState, SameCall, TriesBound, TypeOK
  <2>3. CASE rep[1].op # gw.stage /\ gw.reads # 0
    BY <1>1, <1>2, <2>3, RpcRetryGw DEF GwTake
  <2>4. QED
    BY <2>1, <2>2, <2>3
<1>5. \E i \in 1 .. Len(rep) : rep[i].op = rep[1].op /\ rep[i].ok = rep[1].ok
  BY <1>2, RepTypes
<1>6. GwStep
  <2>1. UNCHANGED <<host, fid, owner, image, upgrade, confirmed, crowded>> /\ lost' \in BOOLEAN
    BY DEF GwTake, peerVars, TypeOK
  <2>2. gw'.clunked => \/ gw.clunked
                       \/ /\ gw.op = "commit"
                          /\ \E i \in 1 .. Len(rep) : rep[i].op = "clunk" /\ rep[i].ok
    BY <1>4, <1>5 DEF Retries, Turns
  <2>3. gw'.op = "write" => gw'.stage # "ok"
    BY <1>1, <1>4 DEF Retries, Turns, SameCall, CallsMatch, Stage
  <2>4. SameCall /\ (gw'.wait => gw'.stage = gw.stage)
    BY <1>4 DEF Retries, Turns
  <2>5. /\ gw'.stage = "open" => gw.stage = "open" \/ (gw.stage = "version" /\ gw.wait)
        /\ gw'.active => gw.active \/ (gw.stage = "open" /\ gw.wait /\ gw.op = "target" /\ q' = q)
    BY <1>1, <1>4 DEF Retries, Turns
  <2>6. QED
    BY <1>1, <1>2, <1>3, <2>1, <2>2, <2>3, <2>4, <2>5 DEF GwStep
<1>7. CallsMatch'
  <2>1. CASE Retries \/ Turns(FALSE) \/ Turns(rep[1].ok)
    BY <1>1, <1>2, <2>1, CallGoesOn
  <2>2. CASE SameCall /\ gw'.stage = gw.stage /\ gw'.active = gw.active /\ gw'.clunked = gw.clunked
    BY <1>1, <2>2 DEF CallsMatch, SameCall, Stage
  <2>3. QED
    BY <1>4, <2>1, <2>2
<1>8. QED
  BY <1>6, <1>7

-----------------------------------------------------------------------------
(* What a step of the peer does                                              *)

LEMMA FlashImage ==
  ASSUME image \in Seq(1 .. N), NEW k \in 0 .. N, Flash(k)
  PROVE  /\ image' \in Seq(1 .. N) /\ Len(image') >= Len(image)
         /\ k <= Len(image) => image' = image
         /\ k <= Len(image) + 1 => Len(image') >= k
         /\ k = Len(image) + 1 => image' = Append(image, k)
<1>1. Len(image) \in Nat
  OBVIOUS
<1>2. CASE k = Len(image) + 1 /\ image' = Append(image, k)
  <2>1. k \in 1 .. N
    BY <1>1, <1>2
  <2>2. QED
    BY <1>1, <1>2, <2>1, AppendedSeq
<1>3. CASE k <= Len(image) /\ image' = image
  BY <1>1, <1>3
<1>4. CASE k > Len(image) + 1 /\ image' \in {image, Append(image, k)}
  <2>1. k \in 1 .. N
    BY <1>1, <1>4
  <2>2. image' \in Seq(1 .. N) /\ Len(image') >= Len(image)
    <3>1. /\ Append(image, k) \in Seq(1 .. N)
          /\ Len(Append(image, k)) = Len(image) + 1
      BY <2>1, AppendedSeq
    <3>2. CASE image' = image
      BY <1>1, <3>2
    <3>3. CASE image' = Append(image, k)
      BY <1>1, <3>1, <3>3
    <3>4. QED
      BY <1>4, <3>2, <3>3
  <2>3. QED
    BY <1>1, <1>4, <2>2
<1>5. QED
  BY <1>2, <1>3, <1>4 DEF Flash

PeerStep ==
  /\ UNCHANGED <<host, gw, crowded>>
  /\ Taken
  /\ rep' \in Seq([op : Stage, ok : BOOLEAN]) /\ Len(rep') <= Depth
  /\ fid' \in File \cup {"none"} /\ owner' \in Client /\ image' \in Seq(1 .. N)
  /\ upgrade' \in BOOLEAN /\ confirmed' \in BOOLEAN /\ lost' \in BOOLEAN
  /\ \/ q[1].op = "version" /\ fid' = "none" /\ owner' = q[1].peer
     \/ /\ q[1].op = "open" /\ owner' = owner
        /\ fid' \in {fid, q[1].file}
        /\ owner = q[1].peer /\ fid = "none" => fid' = q[1].file
     \/ q[1].op \in {"write", "ctl"} /\ owner' = owner /\ fid' = fid
     \/ q[1].op = "clunk" /\ owner' = owner /\ fid' = "none"
  /\ IF q[1].op \in {"write", "ctl"} /\ fid = "firmware"
     THEN Flash(q[1].chunk) ELSE image' = image
  /\ upgrade \/ (q[1].op = "clunk" /\ fid = "firmware") => upgrade'
  /\ ~ResetFinalizes /\ upgrade' => upgrade \/ (q[1].op = "clunk" /\ fid = "firmware")
  /\ \A i \in 1 .. Len(rep') :
       \/ \E j \in 1 .. Len(rep) : rep'[i] = rep[j]
       \/ rep'[i].op = "clunk" /\ rep'[i].ok => q[1].op = "clunk" /\ fid # "none"

LEMMA MsgTypes ==
  ASSUME NEW m \in Msg
  PROVE  m.peer \in Client /\ m.op \in Stage /\ m.file \in File /\ m.chunk \in 0 .. N
BY DEF Msg

(* A reply joins those that came, or is not sent, or is lost.                 *)
LEMMA ReplyArrives ==
  ASSUME TypeOK, NEW m \in Msg, NEW ok \in BOOLEAN, ReplyTo(m, ok)
  PROVE  /\ rep' \in Seq([op : Stage, ok : BOOLEAN]) /\ Len(rep') <= Depth /\ lost' \in BOOLEAN
         /\ \A i \in 1 .. Len(rep') :
              \/ \E j \in 1 .. Len(rep) : rep'[i] = rep[j]
              \/ rep'[i].op = m.op /\ rep'[i].ok = ok
<1> DEFINE e == [op |-> m.op, ok |-> ok]
<1>1. e \in [op : Stage, ok : BOOLEAN] /\ e.op = m.op /\ e.ok = ok
  BY MsgTypes
<1> HIDE DEF e
<1>2. \/ rep' = rep
      \/ rep' = Append(rep, e) /\ Len(rep) < Depth
  BY DEF ReplyTo, e
<1>3. lost' \in BOOLEAN
  BY DEF ReplyTo, TypeOK
<1>4. CASE rep' = rep
  BY <1>3, <1>4, RepTypes
<1>5. CASE rep' = Append(rep, e) /\ Len(rep) < Depth
  <2>1. /\ rep' \in Seq([op : Stage, ok : BOOLEAN]) /\ Len(rep') = Len(rep) + 1
        /\ rep'[Len(rep) + 1] = e
        /\ \A i \in 1 .. Len(rep) : rep'[i] = rep[i]
    BY <1>1, <1>5, RepTypes, AppendedSeq
  <2>2. Len(rep') <= Depth
    BY <1>5, <2>1, RepTypes, BoundTypes
  <2>3. ASSUME NEW i \in 1 .. Len(rep')
        PROVE  i \in 1 .. Len(rep) \/ i = Len(rep) + 1
    BY <2>1, RepTypes
  <2>4. QED
    BY <1>1, <1>3, <2>1, <2>2, <2>3
<1>6. QED
  BY <1>2, <1>4, <1>5

LEMMA PeerServeStep ==
  ASSUME TypeOK, PeerServe
  PROVE  PeerStep
<1>1. Taken /\ Head(q) = q[1] /\ q[1] \in Msg
  BY ServeTakes DEF PeerServe, Taken
<1>2. /\ q[1].peer \in Client /\ q[1].op \in Stage /\ q[1].file \in File /\ q[1].chunk \in 0 .. N
      /\ host' = host /\ gw' = gw /\ crowded' = crowded
  BY <1>1, MsgTypes DEF PeerServe
<1>3. CASE ServeVersion(q[1])
  BY <1>1, <1>2, <1>3, ReplyArrives DEF ServeVersion, PeerStep, TypeOK
<1>4. CASE ServeOpen(q[1])
  BY <1>1, <1>2, <1>4, ReplyArrives DEF ServeOpen, PeerStep, TypeOK
<1>5. CASE ServeWrite(q[1])
  <2>1. /\ rep' \in Seq([op : Stage, ok : BOOLEAN]) /\ Len(rep') <= Depth /\ lost' \in BOOLEAN
        /\ \A i \in 1 .. Len(rep') :
             (\E j \in 1 .. Len(rep) : rep'[i] = rep[j]) \/ rep'[i].op = q[1].op
    <3>1. CASE ReplyTo(q[1], FALSE)
      BY <1>1, <3>1, ReplyArrives
    <3>2. CASE Suppress
      BY <3>2, RepTypes DEF Suppress, TypeOK
    <3>3. QED
      BY <1>5, <3>1, <3>2 DEF ServeWrite
  <2>2. image \in Seq(1 .. N) /\ fid \in File \cup {"none"} /\ owner \in Client
        /\ upgrade \in BOOLEAN /\ confirmed \in BOOLEAN
    BY DEF TypeOK
  <2>3. q[1].op \in {"write", "ctl"} /\ fid' = fid /\ owner' = owner /\ upgrade' = upgrade
        /\ confirmed' \in BOOLEAN
    BY <1>5, <2>2 DEF ServeWrite
  <2>4. IF fid = "firmware" THEN Flash(q[1].chunk) ELSE image' = image
    BY <1>5 DEF ServeWrite
  <2>5. image' \in Seq(1 .. N)
    BY <1>2, <2>2, <2>4, FlashImage
  <2>6. QED
    BY <1>1, <1>2, <2>1, <2>2, <2>3, <2>4, <2>5 DEF PeerStep
<1>6. CASE ServeClunk(q[1])
  BY <1>1, <1>2, <1>6, ReplyArrives DEF ServeClunk, PeerStep, TypeOK
<1>7. QED
  BY <1>1, <1>3, <1>4, <1>5, <1>6 DEF PeerServe

(* The reset of the peer.                                                     *)
RebootStep ==
  /\ UNCHANGED <<host, gw, rep, image, upgrade, confirmed, lost, crowded>>
  /\ q' = <<>> /\ q' \in Seq(Msg) /\ Len(q') = 0 /\ Len(q) \in Nat /\ Len(q) > 0
  /\ q[1].op = "ctl" /\ fid = "reboot"
  /\ fid' = "none" /\ owner' = "other"

LEMMA PeerRebootStep ==
  ASSUME TypeOK, PeerReboot
  PROVE  RebootStep
<1>1. q \in Seq(Msg) /\ q # <<>>
  BY DEF TypeOK, PeerReboot
<1>2. Len(q) \in Nat /\ Len(q) > 0 /\ Head(q) = q[1]
  BY <1>1, TailSeq
<1>3. <<>> \in Seq(Msg) /\ Len(<<>>) = 0
  OBVIOUS
<1>4. QED
  BY <1>2, <1>3 DEF PeerReboot, Resets, RebootStep

(* A request of another client.                                               *)
OtherStep(m) ==
  /\ UNCHANGED <<host, gw, rep, fid, owner, image, upgrade, confirmed, lost>>
  /\ crowded' = TRUE
  /\ Sent(m) /\ Len(q) < Ring
  /\ m.op \in {"version", "open"} /\ m.file = "mflt"

LEMMA OtherSessionStep ==
  ASSUME TypeOK, NEW st \in {"version", "open"}, OtherSession(st)
  PROVE  \E m \in Msg : OtherStep(m)
<1> DEFINE m == [peer |-> "other", kind |-> "op", op |-> st, file |-> "mflt", chunk |-> 0]
<1>1. 0 \in 0 .. N
  BY BoundTypes
<1>2. m \in Msg /\ m.op = st /\ m.file = "mflt"
  BY <1>1 DEF Msg, Client, Stage, File
<1>3. PeerQ!Accept(m)
  BY DEF OtherSession
<1> HIDE DEF m
<1>4. OtherStep(m)
  BY <1>2, <1>3, AcceptSends DEF OtherSession, OtherStep, peerVars
<1>5. QED
  BY <1>2, <1>4

-----------------------------------------------------------------------------
(* What the steps leave of the order of the ring                             *)

LEMMA QueueTypes ==
  ASSUME TypeOK
  PROVE  /\ q \in Seq(Msg) /\ Len(q) \in Nat
         /\ \A i \in 1 .. Len(q) : q[i] \in Msg /\ q[i].op \in Stage /\ q[i].chunk \in 0 .. N
                                    /\ q[i].chunk \in Int
<1>1. q \in Seq(Msg) /\ Len(q) \in Nat
  BY DEF TypeOK
<1>2. ASSUME NEW i \in 1 .. Len(q)
      PROVE  q[i] \in Msg /\ q[i].op \in Stage /\ q[i].chunk \in 0 .. N /\ q[i].chunk \in Int
  <2>1. q[i] \in Msg
    BY <1>1
  <2>2. q[i].op \in Stage /\ q[i].chunk \in 0 .. N
    BY <2>1, MsgTypes
  <2>3. QED
    BY <2>1, <2>2, BoundTypes
<1>3. QED
  BY <1>1, <1>2

LEMMA RingKept ==
  ASSUME RingInOrder, q' = q,
         host.off = N /\ host.pc \notin {"target", "stream"}
           => host'.off = N /\ host'.pc \notin {"target", "stream"}
  PROVE  RingInOrder'
BY DEF RingInOrder, Closes

LEMMA RingSent ==
  ASSUME TypeOK, RingInOrder, host' = host, NEW m \in Msg, Sent(m),
         m.op = "write" => m.chunk > 0 /\ host.pc = "stream",
         Closes(m) => host.off = N /\ host.pc \notin {"target", "stream"}
  PROVE  RingInOrder'
<1>1. Len(q) \in Nat
  BY QueueTypes
<1>2. ASSUME NEW i \in 1 .. Len(q')
      PROVE  (i \in 1 .. Len(q) /\ q'[i] = q[i]) \/ (i = Len(q) + 1 /\ q'[i] = m)
  <2>1. i \in 1 .. Len(q) \/ i = Len(q) + 1
    BY <1>1 DEF Sent
  <2>2. i \in 1 .. Len(q) => q'[i] = q[i]
    BY DEF Sent
  <2>3. i = Len(q) + 1 => q'[i] = m
    BY DEF Sent
  <2>4. QED
    BY <2>1, <2>2, <2>3
<1>3. \A i \in 1 .. Len(q') : q'[i].op = "write" => q'[i].chunk > 0
  BY <1>2 DEF RingInOrder
<1>4. \A i \in 1 .. Len(q') : Closes(q'[i]) => host.off = N /\ host.pc \notin {"target", "stream"}
  BY <1>2 DEF RingInOrder
<1>5. ASSUME NEW i \in 1 .. Len(q'), NEW j \in 1 .. Len(q'), i < j, q'[j].op = "write"
      PROVE  ~Closes(q'[i])
  <2>1. i \in 1 .. Len(q) /\ q'[i] = q[i]
    BY <1>1, <1>2, <1>5 DEF Sent
  <2>2. CASE j \in 1 .. Len(q) /\ q'[j] = q[j]
    BY <1>5, <2>1, <2>2 DEF RingInOrder
  <2>3. CASE q'[j] = m
    BY <1>5, <2>1, <2>3 DEF RingInOrder
  <2>4. QED
    BY <1>2, <2>2, <2>3
<1>6. QED
  BY <1>3, <1>4, <1>5 DEF RingInOrder, Closes

LEMMA TakenIndex ==
  ASSUME TypeOK, Taken
  PROVE  \A i \in 1 .. Len(q') : i \in Nat /\ i > 0 /\ i + 1 \in 1 .. Len(q) /\ q'[i] = q[i + 1]
BY QueueTypes DEF Taken

LEMMA RingTaken ==
  ASSUME TypeOK, RingInOrder, host' = host, Taken
  PROVE  RingInOrder'
<1>1. \A i \in 1 .. Len(q') : q'[i].op = "write" => q'[i].chunk > 0
  BY TakenIndex DEF RingInOrder
<1>2. \A i \in 1 .. Len(q') : Closes(q'[i]) => host.off = N /\ host.pc \notin {"target", "stream"}
  BY TakenIndex DEF RingInOrder
<1>3. ASSUME NEW i \in 1 .. Len(q'), NEW j \in 1 .. Len(q'), i < j, q'[j].op = "write"
      PROVE  ~Closes(q'[i])
  <2>1. i + 1 < j + 1
    BY <1>3
  <2>2. QED
    BY <1>3, <2>1, TakenIndex DEF RingInOrder
<1>4. QED
  BY <1>1, <1>2, <1>3 DEF RingInOrder, Closes

LEMMA RingEmpty ==
  ASSUME Len(q') = 0
  PROVE  RingInOrder'
BY DEF RingInOrder

(* The request the gateway sends keeps the order.                            *)
LEMMA RequestInOrder ==
  ASSUME TypeOK, CallsMatch, gw.stage \in Stage
  PROVE  /\ Request.op = "write" => /\ gw.op = "write" /\ host.pc = "stream"
                                    /\ Request.chunk = host.off + 1 /\ Request.chunk > 0
         /\ Closes(Request) => host.off = N /\ host.pc \notin {"target", "stream"}
         /\ Request.file = "firmware" \/ host.pc \in {"reboot", "confirm"}
         /\ OpensFirmware(Request) => gw.op = "target" /\ host.pc = "target"
         /\ Request.op = "version" => host.pc # "stream"
         /\ Request.peer = "gateway"
BY RequestType, HostTypes DEF CallsMatch, Closes, OpensFirmware

-----------------------------------------------------------------------------
(* What the steps leave of the chunks on their way                           *)

LEMMA FollowsKept ==
  ASSUME TypeOK, Follows, q' = q, image' = image,
         \/ host'.off <= host.off
         \/ gw.op = "write" /\ gw.stage = "ok" /\ host'.off = gw.chunk,
         host'.off \in Nat,
         gw'.op = "write" /\ gw'.stage = "ok" => gw.op = "write" /\ gw.stage = "ok" /\ gw'.chunk = gw.chunk
  PROVE  Follows'
<1>1. \A i \in 1 .. Len(q) : q[i].op = "write" => Reached(q[i].chunk - 1, i)'
  BY DEF Follows, Reached
<1>2. Reached(host.off, End)' => Reached(host'.off, End)
  BY DEF Reached, End
<1>3. \E k \in Nat : k >= host'.off /\ Reached(k, End)
  <2>1. gw.chunk \in Nat /\ host.off \in Nat
    BY HostTypes, BoundTypes DEF TypeOK, GwState
  <2>2. QED
    BY <2>1 DEF Follows
<1>4. Reached(host.off, End)'
  <2>1. PICK k \in Nat : k >= host'.off /\ Reached(k, End)
    BY <1>3
  <2>2. Len(image) \in Nat
    BY DEF TypeOK
  <2>3. CASE k <= Len(image)
    BY <2>1, <2>2, <2>3 DEF Reached, End
  <2>4. CASE \E j \in 1 .. Len(q) : j < End /\ q[j].op = "write" /\ q[j].chunk >= k
    BY <2>1, <2>4, QueueTypes DEF Reached, End
  <2>5. QED
    BY <2>1, <2>3, <2>4 DEF Reached
<1>5. gw'.op = "write" /\ gw'.stage = "ok" => Reached(gw.chunk, End)'
  BY DEF Follows, Reached, End
<1>6. QED
  BY <1>1, <1>4, <1>5 DEF Follows

(* The chunks that are on their way still are.                               *)
LEMMA ReachedSent ==
  ASSUME TypeOK, NEW m \in Msg, Sent(m), image' = image, NEW k \in Int, NEW i \in Nat,
         i <= End, Reached(k, i)
  PROVE  Reached(k, i)'
<1>1. Len(q) \in Nat
  BY QueueTypes
<1>2. CASE k <= Len(image)
  BY <1>2 DEF Reached
<1>3. CASE \E j \in 1 .. Len(q) : j < i /\ q[j].op = "write" /\ q[j].chunk >= k
  <2>1. PICK j \in 1 .. Len(q) : j < i /\ q[j].op = "write" /\ q[j].chunk >= k
    BY <1>3
  <2>2. j \in 1 .. Len(q') /\ q'[j] = q[j]
    BY <1>1 DEF Sent
  <2>3. QED
    BY <2>1, <2>2 DEF Reached
<1>4. QED
  BY <1>2, <1>3 DEF Reached

LEMMA ReachedLater ==
  ASSUME TypeOK', NEW k \in Int, NEW i \in Nat, NEW j \in Nat, i <= j, Reached(k, i)'
  PROVE  Reached(k, j)'
BY DEF Reached, TypeOK

LEMMA FollowsSent ==
  ASSUME TypeOK, Follows, NEW m \in Msg, Sent(m), image' = image, host' = host,
         m.op = "write" => m.chunk = host.off + 1,
         gw'.op = "write" /\ gw'.stage = "ok" =>
           \/ m.op = "write" /\ m.chunk = gw'.chunk
           \/ gw.op = "write" /\ gw.stage = "ok" /\ gw'.chunk = gw.chunk
  PROVE  Follows'
<1>1. /\ Len(q) \in Nat /\ End \in Nat /\ End' = End + 1 /\ Len(q') = Len(q) + 1
      /\ q'[Len(q) + 1] = m /\ End = Len(q) + 1
      /\ \A i \in 1 .. Len(q) : q'[i] = q[i] /\ i <= End /\ i \in Nat
  BY QueueTypes DEF Sent, End
<1>2. ASSUME NEW k \in Int, Reached(k, End), NEW i \in Nat, i >= Len(q) + 1
      PROVE  Reached(k, i)'
  <2>1. CASE k <= Len(image)
    BY <2>1 DEF Reached
  <2>2. CASE \E j \in 1 .. Len(q) : j < End /\ q[j].op = "write" /\ q[j].chunk >= k
    <3>1. PICK j \in 1 .. Len(q) : q[j].op = "write" /\ q[j].chunk >= k
      BY <2>2
    <3>2. j \in 1 .. Len(q') /\ q'[j] = q[j] /\ j < i
      BY <1>1, <1>2, <3>1
    <3>3. QED
      BY <3>1, <3>2 DEF Reached
  <2>3. QED
    BY <1>2, <2>1, <2>2 DEF Reached
<1>3. host.off \in Int /\ gw.chunk \in Int
  BY HostTypes, BoundTypes DEF TypeOK, GwState
<1>4. Reached(host.off, End)'
  BY <1>1, <1>2, <1>3 DEF Follows, Reached, End
<1>5. gw'.op = "write" /\ gw'.stage = "ok" => Reached(gw.chunk, End)'
  <2>1. CASE m.op = "write" /\ m.chunk = gw'.chunk
    <3>1. m.chunk \in Int
      BY BoundTypes, MsgTypes
    <3>2. QED
      BY <1>1, <2>1, <3>1 DEF Reached
  <2>2. CASE gw.op = "write" /\ gw.stage = "ok" /\ gw'.chunk = gw.chunk
    BY <1>1, <1>2, <1>3, <2>2 DEF Follows, Reached, End
  <2>3. QED
    BY <2>1, <2>2
<1>6. ASSUME NEW i \in 1 .. Len(q'), q'[i].op = "write"
      PROVE  Reached(q[i].chunk - 1, i)'
  <2>1. CASE i \in 1 .. Len(q)
    <3>1. q'[i] = q[i] /\ q[i].chunk - 1 \in Int /\ Reached(q[i].chunk - 1, i)
      BY <1>1, <1>6, <2>1, QueueTypes DEF Follows
    <3>2. QED
      BY <1>1, <2>1, <3>1, ReachedSent DEF Reached
  <2>2. CASE i = Len(q) + 1
    <3>1. m.op = "write" /\ q'[i].chunk - 1 = host.off /\ Reached(host.off, End)
      BY <1>1, <1>3, <1>6, <2>2 DEF Follows
    <3>2. PICK k \in Int : k = host.off /\ k = q'[i].chunk - 1
      BY <1>3, <3>1
    <3>3. Reached(k, i)'
      BY <1>1, <1>2, <2>2, <3>1, <3>2
    <3>4. QED
      BY <3>2, <3>3 DEF Reached
  <2>3. QED
    BY <1>1, <2>1, <2>2
<1>7. QED
  BY <1>4, <1>5, <1>6 DEF Follows

(* The request served was a write that landed, or another.                   *)
LEMMA FollowsTaken ==
  ASSUME TypeOK, Follows, Taken, host' = host, gw' = gw, image' \in Seq(1 .. N),
         Len(image') >= Len(image),
         q[1].op = "write" => Len(image') >= q[1].chunk
  PROVE  Follows'
<1>1. /\ Len(q) \in Nat /\ Len(image) \in Nat /\ Len(image') \in Nat
      /\ Len(q) > 0 /\ Len(q') = Len(q) - 1 /\ End = End' + 1 /\ End' \in Nat
      /\ q[1].chunk \in Int
  BY QueueTypes DEF TypeOK, Taken, End
<1>2. ASSUME NEW k \in Int, NEW i \in Nat, Reached(k, i + 1)
      PROVE  Reached(k, i)'
  <2>1. CASE k <= Len(image)
    BY <1>1, <2>1 DEF Reached
  <2>2. CASE \E j \in 1 .. Len(q) : j < i + 1 /\ q[j].op = "write" /\ q[j].chunk >= k
    <3>1. PICK j \in 1 .. Len(q) : j < i + 1 /\ q[j].op = "write" /\ q[j].chunk >= k
      BY <2>2
    <3>2. CASE j = 1
      BY <1>1, <3>1, <3>2 DEF Reached
    <3>3. CASE j # 1
      <4>1. j - 1 \in 1 .. Len(q') /\ j - 1 < i /\ q'[j - 1] = q[j]
        BY <1>1, <3>1, <3>3 DEF Taken
      <4>2. QED
        BY <3>1, <4>1 DEF Reached
    <3>4. QED
      BY <3>2, <3>3
  <2>3. QED
    BY <1>2, <2>1, <2>2 DEF Reached
<1>3. host.off \in Int /\ gw.chunk \in Int
  BY HostTypes, BoundTypes DEF TypeOK, GwState
<1>4. Reached(host.off, End)'
  BY <1>1, <1>2, <1>3 DEF Follows, Reached
<1>5. gw'.op = "write" /\ gw'.stage = "ok" => Reached(gw.chunk, End)'
  BY <1>1, <1>2, <1>3 DEF Follows, Reached
<1>6. ASSUME NEW i \in 1 .. Len(q'), q'[i].op = "write"
      PROVE  Reached(q[i].chunk - 1, i)'
  <2>1. i \in Nat /\ i + 1 \in 1 .. Len(q) /\ q'[i] = q[i + 1]
    BY TakenIndex
  <2>2. q[i + 1].chunk - 1 \in Int /\ Reached(q[i + 1].chunk - 1, i + 1)
    BY <1>6, <2>1, QueueTypes DEF Follows
  <2>3. QED
    BY <1>2, <2>1, <2>2 DEF Reached
<1>7. QED
  BY <1>4, <1>5, <1>6 DEF Follows

-----------------------------------------------------------------------------
(* What the steps leave of the gateway's session on the peer                 *)

LEMMA VersionedSent ==
  ASSUME TypeOK, NEW m \in Msg, Sent(m), owner' = owner, NEW i \in Nat, NEW k \in Nat,
         i <= k, Versioned(i)
  PROVE  Versioned(k)'
<1>1. CASE owner = "gateway"
  BY <1>1 DEF Versioned
<1>2. CASE \E j \in 1 .. Len(q) : j < i /\ q[j].op = "version"
  <2>1. PICK j \in 1 .. Len(q) : j < i /\ q[j].op = "version"
    BY <1>2
  <2>2. j \in 1 .. Len(q') /\ q'[j] = q[j] /\ j < k
    BY <2>1, QueueTypes DEF Sent
  <2>3. QED
    BY <2>1, <2>2 DEF Versioned
<1>3. QED
  BY <1>1, <1>2 DEF Versioned

(* A request without a Tversion takes nothing from the session.               *)
LEMMA ReadySent ==
  ASSUME TypeOK, NEW m \in Msg, Sent(m), owner' = owner, fid' = fid,
         NEW i \in Nat, NEW k \in Nat, Ready(i), i <= Len(q) + 1,
         k = i \/ (i = Len(q) + 1 /\ k = Len(q) + 2 /\ m.op # "version")
  PROVE  Ready(k)'
<1>1. /\ Len(q) \in Nat /\ Len(q') = Len(q) + 1 /\ q'[Len(q) + 1] = m
      /\ \A j \in 1 .. Len(q) : q'[j] = q[j]
  BY QueueTypes DEF Sent
<1>2. ASSUME NEW h \in 1 .. Len(q'), h < k, ~(h \in 1 .. Len(q) /\ h < i)
      PROVE  q'[h].op # "version"
  <2>1. h = Len(q) + 1 /\ q'[h] = m /\ m.op # "version"
    BY <1>1, <1>2
  <2>2. QED
    BY <2>1
<1>3. CASE fid = "firmware" /\ \A j \in 1 .. Len(q) : j < i => q[j].op # "version"
  <2>1. ASSUME NEW h \in 1 .. Len(q'), h < k
        PROVE  q'[h].op # "version"
    <3>1. CASE h \in 1 .. Len(q) /\ h < i
      BY <1>1, <1>3, <3>1
    <3>2. CASE ~(h \in 1 .. Len(q) /\ h < i)
      BY <1>2, <2>1, <3>2
    <3>3. QED
      BY <3>1, <3>2
  <2>2. QED
    BY <1>3, <2>1 DEF Ready
<1>4. CASE \E j \in 1 .. Len(q) :
             /\ j < i /\ q[j].op = "open" /\ Versioned(j)
             /\ \A h \in 1 .. Len(q) : j < h /\ h < i => q[h].op # "version"
  <2>1. PICK j \in 1 .. Len(q) :
               /\ j < i /\ q[j].op = "open" /\ Versioned(j)
               /\ \A h \in 1 .. Len(q) : j < h /\ h < i => q[h].op # "version"
    BY <1>4
  <2>2. j \in 1 .. Len(q') /\ q'[j].op = "open" /\ j < k /\ j \in Nat
    BY <1>1, <2>1
  <2>3. Versioned(j)'
    BY <2>1, <2>2, VersionedSent
  <2>4. ASSUME NEW h \in 1 .. Len(q'), j < h, h < k
        PROVE  q'[h].op # "version"
    <3>1. CASE h \in 1 .. Len(q) /\ h < i
      BY <1>1, <2>1, <2>4, <3>1
    <3>2. CASE ~(h \in 1 .. Len(q) /\ h < i)
      BY <1>2, <2>4, <3>2
    <3>3. QED
      BY <3>1, <3>2
  <2>5. QED
    BY <2>2, <2>3, <2>4 DEF Ready
<1>5. QED
  BY <1>3, <1>4 DEF Ready

(* A Topen that finds the Tversion makes the session ready.                  *)
LEMMA ReadyOpened ==
  ASSUME TypeOK, NEW m \in Msg, Sent(m), owner' = owner, m.op = "open",
         NEW i \in Nat, i = Len(q) + 1, Versioned(i)
  PROVE  Ready(i + 1)'
<1>1. /\ Len(q) \in Nat /\ Len(q') = Len(q) + 1 /\ q'[i] = m /\ i \in 1 .. Len(q')
  BY QueueTypes DEF Sent
<1>2. Versioned(i)'
  BY VersionedSent
<1>3. \A h \in 1 .. Len(q') : ~(i < h /\ h < i + 1)
  BY <1>1
<1>4. QED
  BY <1>1, <1>2, <1>3 DEF Ready

LEMMA VersionedTaken ==
  ASSUME TypeOK, PeerStep, q[1].peer = "gateway", NEW i \in Nat, Versioned(i + 1)
  PROVE  Versioned(i)'
<1>1. q[1].op = "version" \/ owner = "gateway" => owner' = "gateway"
  BY DEF PeerStep
<1>2. CASE \E j \in 1 .. Len(q) : j < i + 1 /\ q[j].op = "version"
  <2>1. PICK j \in 1 .. Len(q) : j < i + 1 /\ q[j].op = "version"
    BY <1>2
  <2>2. CASE j = 1
    BY <1>1, <2>1, <2>2 DEF Versioned
  <2>3. CASE j # 1
    <3>1. j - 1 \in 1 .. Len(q') /\ j - 1 < i /\ q'[j - 1] = q[j]
      BY <2>1, <2>3, QueueTypes DEF PeerStep, Taken
    <3>2. QED
      BY <2>1, <3>1 DEF Versioned
  <2>4. QED
    BY <2>2, <2>3
<1>3. QED
  BY <1>1, <1>2 DEF Versioned

(* Serving a request of the stream leaves the session as ready as it was.    *)
LEMMA ReadyTaken ==
  ASSUME TypeOK, PeerStep, q[1].peer = "gateway", Streams(q[1]),
         fid \in {"none", "firmware"}, NEW i \in Nat, i > 0, Ready(i + 1)
  PROVE  Ready(i)'
<1>1. /\ Len(q) \in Nat /\ Taken /\ q[1].op \in Stage /\ q[1].file = "firmware"
      /\ q[1].op \in {"version", "open", "write"}
      /\ \A h \in 1 .. Len(q') : h \in Nat /\ h > 0 /\ h + 1 \in 1 .. Len(q) /\ q'[h] = q[h + 1]
  BY QueueTypes, TakenIndex, MsgTypes DEF PeerStep, Taken, Streams, Closes, Stage
<1>2. CASE fid = "firmware" /\ \A j \in 1 .. Len(q) : j < i + 1 => q[j].op # "version"
  <2>1. ASSUME NEW h \in 1 .. Len(q'), h < i
        PROVE  q'[h].op # "version"
    BY <1>1, <1>2, <2>1
  <2>2. 1 \in 1 .. Len(q) /\ 1 < i + 1
    BY <1>1 DEF Taken
  <2>3. fid' = "firmware"
    BY <1>1, <1>2, <2>2 DEF PeerStep
  <2>4. QED
    BY <2>1, <2>3 DEF Ready
<1>3. CASE \E j \in 1 .. Len(q) :
             /\ j < i + 1 /\ q[j].op = "open" /\ Versioned(j)
             /\ \A h \in 1 .. Len(q) : j < h /\ h < i + 1 => q[h].op # "version"
  <2>1. PICK j \in 1 .. Len(q) :
               /\ j < i + 1 /\ q[j].op = "open" /\ Versioned(j)
               /\ \A h \in 1 .. Len(q) : j < h /\ h < i + 1 => q[h].op # "version"
    BY <1>3
  <2>2. CASE j = 1
    <3>1. owner = "gateway"
      BY <2>1, <2>2 DEF Versioned
    <3>2. fid' = "firmware"
      BY <1>1, <2>1, <2>2, <3>1 DEF PeerStep
    <3>3. ASSUME NEW h \in 1 .. Len(q'), h < i
          PROVE  q'[h].op # "version"
      <4>1. h + 1 \in 1 .. Len(q) /\ 1 < h + 1 /\ h + 1 < i + 1
        BY <1>1, <3>3
      <4>2. QED
        BY <1>1, <2>1, <2>2, <4>1
    <3>4. QED
      BY <3>2, <3>3 DEF Ready
  <2>3. CASE j # 1
    <3>1. j - 1 \in 1 .. Len(q') /\ j - 1 < i /\ q'[j - 1] = q[j] /\ j - 1 \in Nat /\ (j - 1) + 1 = j
      BY <1>1, <2>1, <2>3 DEF Taken
    <3>2. Versioned(j - 1)'
      BY <2>1, <3>1, VersionedTaken
    <3>3. ASSUME NEW h \in 1 .. Len(q'), j - 1 < h, h < i
          PROVE  q'[h].op # "version"
      <4>1. h + 1 \in 1 .. Len(q) /\ j < h + 1 /\ h + 1 < i + 1
        BY <1>1, <3>1, <3>3
      <4>2. QED
        BY <1>1, <2>1, <4>1
    <3>4. QED
      BY <2>1, <3>1, <3>2, <3>3 DEF Ready
  <2>4. QED
    BY <2>2, <2>3
<1>4. QED
  BY <1>2, <1>3 DEF Ready

-----------------------------------------------------------------------------
(* The steps preserve the invariant                                          *)

LEMMA TypesKept ==
  ASSUME TypeOK
  PROVE  /\ HostStep => TypeOK'
         /\ GwStep => TypeOK'
         /\ PeerStep => TypeOK'
         /\ RebootStep => TypeOK'
         /\ \A m \in Msg : OtherStep(m) => TypeOK'
<1>1. HostStep => TypeOK'
  BY DEF TypeOK, HostStep
<1>2. ASSUME GwStep
      PROVE  TypeOK'
  <2>1. q' \in Seq(Msg) /\ Len(q') <= Ring
    BY <1>2, QueueTypes, BoundTypes DEF GwStep, Sent, TypeOK
  <2>2. QED
    BY <1>2, <2>1 DEF TypeOK, GwStep, SameCall, TriesBound
<1>3. ASSUME PeerStep
      PROVE  TypeOK'
  <2>1. q' \in Seq(Msg) /\ Len(q') <= Ring
    BY <1>3, QueueTypes, BoundTypes DEF PeerStep, Taken, TypeOK
  <2>2. QED
    BY <1>3, <2>1 DEF TypeOK, PeerStep
<1>4. RebootStep => TypeOK'
  BY BoundTypes DEF TypeOK, RebootStep, Client
<1>5. ASSUME NEW m \in Msg, OtherStep(m)
      PROVE  TypeOK'
  <2>1. q' \in Seq(Msg) /\ Len(q') <= Ring
    BY <1>5, QueueTypes, BoundTypes DEF OtherStep, Sent, TypeOK
  <2>2. QED
    BY <1>5, <2>1 DEF TypeOK, OtherStep
<1>6. QED
  BY <1>1, <1>2, <1>3, <1>4, <1>5

(* A step of the host: the ring and the peer are as they were.                *)
LEMMA HostPreserves ==
  ASSUME IInv, HostStep, CallsMatch'
  PROVE  IInv'
<1>1. TypeOK'
  BY TypesKept DEF IInv
<1>2. /\ TypeOK /\ q' = q /\ image' = image /\ fid' = fid /\ owner' = owner
      /\ upgrade' = upgrade /\ rep' = rep /\ crowded' = crowded
      /\ host'.off \in Nat
  BY <1>1, HostTypes, BoundTypes DEF IInv, HostStep, TypeOK, HostState
<1>3. RingInOrder'
  <2>1. host.off = N /\ host.pc \notin {"target", "stream"}
          => host'.off = N /\ host'.pc \notin {"target", "stream"}
    BY DEF HostStep
  <2>2. QED
    BY <1>2, <2>1, RingKept DEF IInv
<1>4. Follows => Follows'
  <2>1. gw'.stage # "ok"
    BY DEF HostStep
  <2>2. \/ host'.off <= host.off
        \/ gw.op = "write" /\ gw.stage = "ok" /\ host'.off = gw.chunk
    BY DEF HostStep
  <2>3. QED
    BY <1>2, <2>1, <2>2, FollowsKept
<1>5. FirstPass'
  BY <1>2, <1>4 DEF IInv, FirstPass, HostStep, Alive, OpensFirmware
<1>6. AloneSession'
  <2>1. SUFFICES ASSUME Alone'
                 PROVE  /\ Follows'
                        /\ \A i \in 1 .. Len(q') : q'[i].peer = "gateway"
                        /\ WritesFindSession' /\ OnFirmware' /\ SessionOpens'
    BY DEF AloneSession
  <2>2. Follows /\ WritesFindSession /\ OnFirmware /\ SessionOpens
        /\ \A i \in 1 .. Len(q) : q[i].peer = "gateway"
    BY <1>2, <2>1 DEF IInv, AloneSession, Alone
  <2>3. WritesFindSession'
    BY <1>2, <2>2 DEF WritesFindSession, Ready, Versioned, Streams, Closes
  <2>4. OnFirmware'
    BY <1>2, <2>2 DEF OnFirmware, HostStep
  <2>5. SessionOpens'
    <3>1. host'.pc \in {"target", "stream"} /\ gw'.active => Ready(End)'
      BY <1>2, <2>2 DEF SessionOpens, HostStep, Ready, Versioned, End
    <3>2. gw'.stage \notin {"version", "open"}
      BY DEF HostStep
    <3>3. QED
      BY <3>1, <3>2 DEF SessionOpens
  <2>6. QED
    BY <1>2, <1>4, <2>2, <2>3, <2>4, <2>5
<1>7. Undisturbed' => Undisturbed
  BY <1>2 DEF Undisturbed, Alone, HostStep
<1>8. ImageIsPrefix' /\ UpgradeIsWhole' /\ AnsweredCommitStages'
  BY <1>2, <1>7 DEF IInv, ImageIsPrefix, UpgradeIsWhole, AnsweredCommitStages, HostStep, Alone
<1>9. QED
  BY <1>1, <1>3, <1>5, <1>6, <1>8 DEF IInv

LEMMA SentIndex ==
  ASSUME TypeOK, NEW m \in Msg, Sent(m), NEW i \in 1 .. Len(q')
  PROVE  /\ (i \in 1 .. Len(q) /\ q'[i] = q[i]) \/ (i = Len(q) + 1 /\ q'[i] = m)
         /\ i \in Nat
<1>1. i \in 1 .. Len(q) \/ i = Len(q) + 1
  BY QueueTypes DEF Sent
<1>2. i \in 1 .. Len(q) => q'[i] = q[i]
  BY DEF Sent
<1>3. i = Len(q) + 1 => q'[i] = m
  BY DEF Sent
<1>4. QED
  BY <1>1, <1>2, <1>3, QueueTypes

(* Until a stall, the gateway opens the firmware before it writes.            *)
LEMMA FirstPassSent ==
  ASSUME IInv, GwStep, gw.stage \in Stage, Sent(Request), Follows => Follows'
  PROVE  FirstPass'
<1> DEFINE m == Request
<1>1. TypeOK /\ CallsMatch /\ FirstPass /\ m \in Msg
  BY RequestType DEF IInv
<1>2. /\ m.op = "write" => host.pc = "stream"
      /\ OpensFirmware(m) => host.pc = "target" /\ gw.op = "target"
  BY <1>1, RequestInOrder
<1> HIDE DEF m
<1>3. host' = host /\ fid' = fid /\ image' = image /\ gw'.op = gw.op /\ Sent(m)
  BY DEF GwStep, SameCall, m
<1>4. SUFFICES ASSUME host.pass = 0
               PROVE  /\ host.pc = "target" => \A i \in 1 .. Len(q') : q'[i].op # "write"
                      /\ \A i, j \in 1 .. Len(q') : i < j /\ q'[i].op = "write" => ~OpensFirmware(q'[j])
                      /\ Alive' => Follows'
  BY <1>3 DEF FirstPass, OpensFirmware
<1>5. host.pc = "target" => \A i \in 1 .. Len(q') : q'[i].op # "write"
  BY <1>1, <1>2, <1>3, <1>4, SentIndex DEF FirstPass
<1>6. ASSUME NEW i \in 1 .. Len(q'), NEW j \in 1 .. Len(q'), i < j, q'[i].op = "write"
      PROVE  ~OpensFirmware(q'[j])
  <2>1. i \in 1 .. Len(q) /\ q'[i] = q[i]
    BY <1>1, <1>3, <1>6, SentIndex, QueueTypes DEF Sent
  <2>2. CASE j \in 1 .. Len(q) /\ q'[j] = q[j]
    BY <1>1, <1>4, <1>6, <2>1, <2>2 DEF FirstPass
  <2>3. CASE q'[j] = m
    BY <1>2, <1>5, <1>6, <2>3
  <2>4. QED
    BY <1>1, <1>3, <2>2, <2>3, SentIndex
<1>7. ASSUME Alive'
      PROVE  Follows'
  <2>1. CASE Alive
    BY <1>1, <1>4, <2>1 DEF FirstPass
  <2>2. CASE ~Alive
    <3>1. PICK j \in 1 .. Len(q') : OpensFirmware(q'[j])
      BY <1>3, <1>7, <2>2 DEF Alive, OpensFirmware
    <3>2. OpensFirmware(m)
      BY <1>1, <1>3, <2>2, <3>1, SentIndex DEF Alive
    <3>3. host.pc = "target" /\ gw.op = "target" /\ host.off = 0
      BY <1>1, <1>2, <1>4, <3>2 DEF CallsMatch
    <3>4. Len(image) \in Nat
      BY <1>1 DEF TypeOK
    <3>5. Reached(host.off, End)'
      BY <1>3, <3>3, <3>4 DEF Reached
    <3>6. QED
      BY <1>3, <1>5, <3>3, <3>5 DEF Follows
  <2>3. QED
    BY <2>1, <2>2
<1>8. QED
  BY <1>5, <1>6, <1>7

(* Alone, the request of a call finds what the call before it left.            *)
LEMMA AloneSent ==
  ASSUME IInv, GwStep, gw.stage \in Stage, Sent(Request), Follows => Follows', Alone
  PROVE  AloneSession'
<1> DEFINE m == Request
<1>1. /\ TypeOK /\ CallsMatch /\ m \in Msg
      /\ Follows /\ WritesFindSession /\ OnFirmware /\ SessionOpens
      /\ \A i \in 1 .. Len(q) : q[i].peer = "gateway"
  BY RequestType DEF IInv, AloneSession
<1>2. /\ m.op = gw.stage /\ m.peer = "gateway"
      /\ m.op = "write" => host.pc = "stream" /\ gw.active
      /\ m.file = "firmware" \/ host.pc \in {"reboot", "confirm"}
  BY <1>1, RequestInOrder, RequestType DEF CallsMatch
<1> HIDE DEF m
<1>3. /\ host' = host /\ fid' = fid /\ owner' = owner /\ upgrade' = upgrade
      /\ gw'.op = gw.op /\ Sent(m) /\ Len(q) \in Nat /\ Len(q') = Len(q) + 1
      /\ End = Len(q) + 1 /\ End' = Len(q) + 2 /\ End \in Nat /\ End' \in Nat
  BY <1>1, QueueTypes DEF GwStep, SameCall, m, Sent, End
<1>4. ASSUME NEW i \in 1 .. Len(q')
      PROVE  q'[i].peer = "gateway"
  BY <1>1, <1>2, <1>3, SentIndex
<1>5. ASSUME NEW i \in 1 .. Len(q'), q'[i].op = "write"
      PROVE  /\ Ready(i)' /\ fid' \in {"none", "firmware"}
             /\ \A h \in 1 .. Len(q') : h < i => Streams(q'[h])
  <2>1. i \in Nat /\ \A h \in 1 .. Len(q') : h < i => h \in 1 .. Len(q) /\ q'[h] = q[h]
    BY <1>1, <1>3, SentIndex, QueueTypes DEF Sent
  <2>2. CASE i \in 1 .. Len(q) /\ q'[i] = q[i]
    <3>1. Ready(i) /\ fid \in {"none", "firmware"} /\ \A h \in 1 .. Len(q) : h < i => Streams(q[h])
      BY <1>1, <1>5, <2>2 DEF WritesFindSession
    <3>2. Ready(i)'
      BY <1>1, <1>3, <2>1, <2>2, <3>1, ReadySent
    <3>3. QED
      BY <1>3, <2>1, <3>1, <3>2
  <2>3. CASE i = Len(q) + 1 /\ q'[i] = m
    <3>1. host.pc = "stream" /\ gw.active
      BY <1>2, <1>5, <2>3
    <3>2. Ready(i)
      BY <1>1, <1>3, <2>3, <3>1 DEF SessionOpens, Ready
    <3>3. Ready(i)'
      BY <1>1, <1>3, <2>1, <2>3, <3>2, ReadySent
    <3>4. fid \in {"none", "firmware"} /\ \A h \in 1 .. Len(q) : q[h].file = "firmware" /\ ~Closes(q[h])
      BY <1>1, <3>1 DEF OnFirmware, IInv, RingInOrder
    <3>5. QED
      BY <1>3, <2>1, <3>3, <3>4 DEF Streams
  <2>4. QED
    BY <1>1, <1>3, <2>2, <2>3, SentIndex
<1>6. OnFirmware'
  <2>1. SUFFICES ASSUME host.pc \in {"target", "stream", "commit"}
                 PROVE  /\ fid \in {"none", "firmware"}
                        /\ \A i \in 1 .. Len(q') : q'[i].file = "firmware"
                        /\ \A i \in 1 .. Len(rep') : rep'[i].op = "clunk" /\ rep'[i].ok => upgrade
    BY <1>3 DEF OnFirmware
  <2>2. \A i \in 1 .. Len(q') : q'[i].file = "firmware"
    BY <1>1, <1>2, <1>3, <2>1, SentIndex DEF OnFirmware
  <2>3. \A i \in 1 .. Len(rep') : rep'[i].op = "clunk" /\ rep'[i].ok => upgrade
    BY <1>1, <2>1 DEF OnFirmware, GwStep
  <2>4. QED
    BY <1>1, <2>1, <2>2, <2>3 DEF OnFirmware
<1>7. SessionOpens'
  <2>1. ASSUME host.pc \in {"target", "stream"}, gw'.active
        PROVE  Ready(End)'
    <3>1. gw.active
      BY <1>3, <2>1 DEF GwStep, Sent
    <3>2. m.op # "version"
      BY <1>1, <1>2, <3>1 DEF CallsMatch
    <3>3. Ready(Len(q) + 1) /\ Len(q) + 2 \in Nat
      BY <1>1, <1>3, <2>1, <3>1 DEF SessionOpens, Ready
    <3>4. \A k \in Nat : k = Len(q) + 2 => Ready(k)'
      BY <1>1, <1>3, <3>2, <3>3, ReadySent
    <3>5. QED
      BY <1>3, <3>4 DEF Ready, Versioned
  <2>2. ASSUME gw.op = "target", gw'.stage = "version", gw'.wait
        PROVE  Versioned(End)'
    <3>1. gw.stage = "version"
      BY <2>2 DEF GwStep
    <3>2. Len(q) + 1 \in 1 .. Len(q') /\ q'[Len(q) + 1].op = "version" /\ Len(q) + 1 < End'
      BY <1>2, <1>3, <3>1 DEF Sent
    <3>3. QED
      BY <3>2 DEF Versioned
  <2>3. ASSUME gw.op = "target", gw'.stage = "open"
        PROVE  Versioned(End)' /\ (gw'.wait => Ready(End)')
    <3>1. Versioned(Len(q) + 1)
      BY <1>1, <1>3, <2>3 DEF SessionOpens, GwStep, Versioned
    <3>2. \A k \in Nat : k = Len(q) + 2 => Versioned(k)'
      BY <1>1, <1>3, <3>1, VersionedSent
    <3>3. Versioned(End)'
      BY <1>3, <3>2 DEF Versioned
    <3>4. ASSUME gw'.wait
          PROVE  Ready(End)'
      <4>1. m.op = "open"
        BY <1>2, <2>3, <3>4 DEF GwStep
      <4>2. \A k \in Nat : k = Len(q) + 1 => Ready(k + 1)'
        BY <1>1, <1>3, <3>1, <4>1, ReadyOpened
      <4>3. \A k \in Nat : k = Len(q) + 2 => Ready(k)'
        <5>1. Len(q) + 1 \in Nat /\ (Len(q) + 1) + 1 = Len(q) + 2
          BY <1>3
        <5>2. QED
          BY <4>2, <5>1 DEF Ready, Versioned
      <4>4. QED
        BY <1>3, <4>3 DEF Ready, Versioned
    <3>5. QED
      BY <3>3, <3>4
  <2>4. QED
    BY <1>3, <2>1, <2>2, <2>3 DEF SessionOpens
<1>8. QED
  BY <1>1, <1>4, <1>5, <1>6, <1>7 DEF AloneSession, WritesFindSession, Streams, Closes

(* A step of the gateway: it sends the request of its stage, or nothing.      *)
LEMMA GwPreserves ==
  ASSUME IInv, GwStep, CallsMatch'
  PROVE  IInv'
<1>1. TypeOK' /\ TypeOK /\ CallsMatch
  BY TypesKept DEF IInv
<1>2. /\ host' = host /\ image' = image /\ fid' = fid /\ owner' = owner
      /\ upgrade' = upgrade /\ crowded' = crowded
      /\ gw'.op = gw.op /\ gw'.chunk = gw.chunk
  BY DEF GwStep, SameCall
<1>3. q' = q \/ (gw.stage \in Stage /\ Sent(Request) /\ Request \in Msg)
  BY <1>1, RequestType DEF GwStep
<1>4. RingInOrder'
  <2>1. CASE q' = q
    BY <1>2, <2>1, RingKept DEF IInv
  <2>2. CASE gw.stage \in Stage /\ Sent(Request) /\ Request \in Msg
    BY <1>1, <1>2, <2>2, RequestInOrder, RingSent DEF IInv
  <2>3. QED
    BY <1>3, <2>1, <2>2
<1>5. Follows => Follows'
  <2>1. host'.off \in Nat /\ host'.off <= host.off
    BY <1>1, <1>2, HostTypes
  <2>2. CASE q' = q
    <3>1. ~(gw'.op = "write" /\ gw'.stage = "ok")
      BY <1>1, <2>2, QueueTypes DEF GwStep, Sent
    <3>2. QED
      BY <1>1, <1>2, <2>1, <2>2, <3>1, FollowsKept
  <2>3. CASE gw.stage \in Stage /\ Sent(Request) /\ Request \in Msg
    <3>1. gw'.op = "write" /\ gw'.stage = "ok" => Request.op = "write" /\ Request.chunk = gw'.chunk
      BY <1>1, <1>2, <2>3, RequestType DEF GwStep
    <3>2. QED
      BY <1>1, <1>2, <2>3, <3>1, RequestInOrder, FollowsSent
  <2>4. QED
    BY <1>3, <2>2, <2>3
<1>6. FirstPass'
  <2>1. CASE q' = q
    BY <1>2, <1>5, <2>1 DEF IInv, FirstPass, Alive, OpensFirmware
  <2>2. CASE gw.stage \in Stage /\ Sent(Request)
    BY <1>5, <2>2, FirstPassSent
  <2>3. QED
    BY <1>3, <2>1, <2>2
<1>7. AloneSession'
  <2>1. CASE ~Alone
    BY <1>2, <2>1 DEF AloneSession, Alone
  <2>2. CASE Alone /\ gw.stage \in Stage /\ Sent(Request)
    BY <1>5, <2>2, AloneSent
  <2>3. CASE Alone /\ q' = q
    <3>1. Follows /\ WritesFindSession /\ OnFirmware /\ SessionOpens
          /\ \A i \in 1 .. Len(q) : q[i].peer = "gateway"
      BY <2>3 DEF IInv, AloneSession
    <3>2. WritesFindSession'
      BY <1>2, <2>3, <3>1 DEF WritesFindSession, Ready, Versioned, Streams, Closes
    <3>3. OnFirmware'
      BY <1>2, <2>3, <3>1 DEF OnFirmware, GwStep
    <3>4. ~Sent(Request)
      BY <1>1, <2>3, QueueTypes DEF Sent
    <3>5. ASSUME host.pc \in {"target", "stream"}, gw'.active
          PROVE  Ready(End)
      <4>1. gw.active \/ (gw.stage = "open" /\ gw.wait /\ gw.op = "target")
        BY <3>5 DEF GwStep
      <4>2. QED
        BY <3>1, <3>5, <4>1 DEF SessionOpens
    <3>6. ASSUME gw.op = "target", gw'.stage = "version", gw'.wait
          PROVE  Versioned(End)
      BY <3>1, <3>4, <3>6 DEF SessionOpens, GwStep
    <3>7. ASSUME gw.op = "target", gw'.stage = "open"
          PROVE  Versioned(End) /\ (gw'.wait => Ready(End))
      BY <3>1, <3>4, <3>7 DEF SessionOpens, GwStep
    <3>8. SessionOpens'
      BY <1>2, <2>3, <3>5, <3>6, <3>7 DEF SessionOpens, Ready, Versioned, End
    <3>9. QED
      BY <1>2, <1>5, <2>3, <3>1, <3>2, <3>3, <3>8 DEF AloneSession
  <2>4. QED
    BY <1>3, <2>1, <2>2, <2>3
<1>8. ImageIsPrefix' /\ UpgradeIsWhole'
  BY <1>2 DEF IInv, ImageIsPrefix, UpgradeIsWhole, Undisturbed, Alone
<1>9. AnsweredCommitStages'
  <2>1. SUFFICES ASSUME Alone, gw'.clunked
                 PROVE  upgrade
    BY <1>2 DEF AnsweredCommitStages, Alone
  <2>2. CASE gw.clunked
    BY <2>1, <2>2 DEF IInv, AnsweredCommitStages
  <2>3. CASE gw.op = "commit" /\ \E i \in 1 .. Len(rep) : rep[i].op = "clunk" /\ rep[i].ok
    BY <1>1, <2>1, <2>3 DEF IInv, AloneSession, OnFirmware, CallsMatch
  <2>4. QED
    BY <2>1, <2>2, <2>3 DEF GwStep
<1>10. QED
  BY <1>1, <1>4, <1>6, <1>7, <1>8, <1>9 DEF IInv

(* A prefix of the image is no longer than the image.                        *)
LEMMA PrefixFits ==
  ASSUME NEW s \in Seq(1 .. N), \A i \in 1 .. Len(s) : s[i] = i
  PROVE  Len(s) <= N
<1>1. CASE Len(s) = 0
  BY <1>1, BoundTypes
<1>2. CASE Len(s) # 0
  <2>1. Len(s) \in 1 .. Len(s)
    BY <1>2
  <2>2. s[Len(s)] \in 1 .. N
    BY <2>1, ElementOfSeq
  <2>3. QED
    BY <2>1, <2>2, BoundTypes
<1>3. QED
  BY <1>1, <1>2

(* What the peer serves of the stream lands where the host wants it.          *)
LEMMA StreamLands ==
  ASSUME IInv, PeerStep, Follows, fid = "firmware", q[1].op \in {"write", "ctl"}
  PROVE  /\ q[1].op = "write" => Len(image') >= q[1].chunk
         /\ q[1].chunk <= Len(image) + 1
<1>1. /\ TypeOK /\ RingInOrder /\ Taken /\ Len(q) \in Nat /\ 1 \in 1 .. Len(q)
      /\ Len(image) \in Nat /\ q[1].chunk \in 0 .. N /\ q[1].chunk \in Nat
      /\ image \in Seq(1 .. N) /\ Flash(q[1].chunk)
  <2>1. TypeOK /\ RingInOrder /\ Taken /\ 1 \in 1 .. Len(q) /\ Flash(q[1].chunk)
    BY QueueTypes DEF IInv, PeerStep, Taken
  <2>2. q[1].chunk \in 0 .. N /\ Len(q) \in Nat
    BY <2>1, QueueTypes
  <2>3. QED
    BY <2>1, <2>2, BoundTypes DEF TypeOK
<1>2. CASE q[1].op = "write"
  <2>1. Reached(q[1].chunk - 1, 1)
    BY <1>1, <1>2 DEF Follows
  <2>2. q[1].chunk - 1 <= Len(image)
    BY <1>1, <2>1 DEF Reached
  <2>3. QED
    BY <1>1, <1>2, <2>2, FlashImage
<1>3. CASE q[1].op = "ctl"
  <2>1. host.off = N /\ \A j \in 1 .. Len(q) : q[j].op # "write"
    <3>1. Closes(q[1])
      BY <1>3 DEF Closes
    <3>2. \A j \in 1 .. Len(q) : j = 1 \/ 1 < j
      BY <1>1
    <3>3. QED
      BY <1>1, <1>3, <3>1, <3>2 DEF RingInOrder
  <2>2. N <= Len(image)
    BY <2>1 DEF Follows, Reached
  <2>3. QED
    BY <1>1, <1>3, <2>2, BoundTypes
<1>4. QED
  BY <1>2, <1>3

(* A step of the peer.                                                        *)
LEMMA PeerFirstPass ==
  ASSUME IInv, PeerStep
  PROVE  FirstPass'
<1>1. TypeOK /\ Taken /\ host' = host /\ gw' = gw /\ Len(q) \in Nat /\ 1 \in 1 .. Len(q)
  BY QueueTypes DEF IInv, PeerStep, Taken
<1>2. SUFFICES ASSUME host.pass = 0
               PROVE  /\ host.pc = "target" => \A i \in 1 .. Len(q') : q'[i].op # "write"
                      /\ \A i, j \in 1 .. Len(q') : i < j /\ q'[i].op = "write" => ~OpensFirmware(q'[j])
                      /\ Alive' => Follows'
  BY <1>1 DEF FirstPass, OpensFirmware
<1>3. /\ host.pc = "target" => \A i \in 1 .. Len(q) : q[i].op # "write"
      /\ \A i, j \in 1 .. Len(q) : i < j /\ q[i].op = "write" => ~OpensFirmware(q[j])
      /\ Alive => Follows
  BY <1>2 DEF IInv, FirstPass
<1>4. host.pc = "target" => \A i \in 1 .. Len(q') : q'[i].op # "write"
  BY <1>1, <1>3, TakenIndex
<1>5. ASSUME NEW i \in 1 .. Len(q'), NEW j \in 1 .. Len(q'), i < j, q'[i].op = "write"
      PROVE  ~OpensFirmware(q'[j])
  <2>1. i + 1 \in 1 .. Len(q) /\ j + 1 \in 1 .. Len(q) /\ i + 1 < j + 1
        /\ q'[i] = q[i + 1] /\ q'[j] = q[j + 1]
    BY <1>1, <1>5, TakenIndex
  <2>2. QED
    BY <1>3, <1>5, <2>1
<1>6. ASSUME Alive'
      PROVE  Follows'
  <2>1. fid' = "firmware" => fid = "firmware" \/ OpensFirmware(q[1])
    BY DEF PeerStep, OpensFirmware
  <2>2. fid' = "firmware" \/ \E j \in 1 .. Len(q) : 1 < j /\ OpensFirmware(q[j])
    <3>1. fid' = "firmware" \/ \E i \in 1 .. Len(q') : OpensFirmware(q'[i])
      BY <1>6 DEF Alive, OpensFirmware
    <3>2. \A i \in 1 .. Len(q') : i + 1 \in 1 .. Len(q) /\ 1 < i + 1 /\ q'[i] = q[i + 1]
      BY <1>1, TakenIndex
    <3>3. QED
      BY <3>1, <3>2
  <2>3. Alive
    BY <1>1, <2>1, <2>2 DEF Alive
  <2>4. q[1].op = "write" => Len(image') >= q[1].chunk
    <3>1. q[1].op = "write" => fid' = fid
      BY DEF PeerStep
    <3>2. q[1].op = "write" => fid = "firmware"
      BY <1>1, <1>3, <2>2, <3>1
    <3>3. QED
      BY <1>3, <2>3, <3>2, StreamLands
  <2>5. image' \in Seq(1 .. N) /\ Len(image') >= Len(image)
    <3>1. image \in Seq(1 .. N) /\ q[1].chunk \in 0 .. N /\ Len(image) \in Nat
      BY <1>1, QueueTypes DEF TypeOK
    <3>2. QED
      BY <3>1, FlashImage DEF PeerStep
  <2>6. QED
    BY <1>1, <1>3, <2>3, <2>4, <2>5, FollowsTaken
<1>7. QED
  BY <1>4, <1>5, <1>6

LEMMA PeerAlone ==
  ASSUME IInv, PeerStep, Alone
  PROVE  AloneSession'
<1>1. /\ TypeOK /\ CallsMatch /\ RingInOrder
      /\ Taken /\ host' = host /\ gw' = gw /\ Len(q) \in Nat /\ 1 \in 1 .. Len(q)
      /\ Len(q') = Len(q) - 1
  BY QueueTypes DEF IInv, PeerStep, Taken
<1>2. /\ Follows /\ WritesFindSession /\ OnFirmware /\ SessionOpens
      /\ \A i \in 1 .. Len(q) : q[i].peer = "gateway"
  BY DEF IInv, AloneSession
<1>3. Follows'
  <2>1. q[1].op = "write" => fid = "firmware"
    <3>1. q[1].op = "write" => Ready(1)
      BY <1>1, <1>2 DEF WritesFindSession
    <3>2. QED
      BY <3>1 DEF Ready
  <2>2. q[1].op = "write" => Len(image') >= q[1].chunk
    BY <1>2, <2>1, StreamLands
  <2>3. image' \in Seq(1 .. N) /\ Len(image') >= Len(image)
    <3>1. image \in Seq(1 .. N) /\ q[1].chunk \in 0 .. N /\ Len(image) \in Nat
      BY <1>1, QueueTypes DEF TypeOK
    <3>2. QED
      BY <3>1, FlashImage DEF PeerStep
  <2>4. QED
    BY <1>1, <1>2, <2>2, <2>3, FollowsTaken
<1>4. \A i \in 1 .. Len(q') : q'[i].peer = "gateway"
  BY <1>1, <1>2, TakenIndex
<1>5. ASSUME NEW i \in 1 .. Len(q'), q'[i].op = "write"
      PROVE  /\ Ready(i)' /\ fid' \in {"none", "firmware"}
             /\ \A h \in 1 .. Len(q') : h < i => Streams(q'[h])
  <2>1. i \in Nat /\ i > 0 /\ i + 1 \in 1 .. Len(q) /\ q'[i] = q[i + 1] /\ 1 < i + 1
    BY <1>1, TakenIndex
  <2>2. /\ Ready(i + 1) /\ fid \in {"none", "firmware"}
        /\ \A h \in 1 .. Len(q) : h < i + 1 => Streams(q[h])
    BY <1>2, <1>5, <2>1 DEF WritesFindSession
  <2>3. Streams(q[1]) /\ q[1].peer = "gateway"
    BY <1>1, <1>2, <2>1, <2>2
  <2>4. Ready(i)'
    BY <1>1, <2>1, <2>2, <2>3, ReadyTaken
  <2>5. fid' \in {"none", "firmware"}
    BY <2>2, <2>3 DEF PeerStep, Streams
  <2>6. ASSUME NEW h \in 1 .. Len(q'), h < i
        PROVE  Streams(q'[h])
    <3>1. h + 1 \in 1 .. Len(q) /\ h + 1 < i + 1 /\ q'[h] = q[h + 1]
      BY <1>1, <2>1, <2>6, TakenIndex
    <3>2. QED
      BY <2>2, <3>1
  <2>7. QED
    BY <2>4, <2>5, <2>6
<1>6. OnFirmware'
  <2>1. SUFFICES ASSUME host.pc \in {"target", "stream", "commit"}
                 PROVE  /\ fid' \in {"none", "firmware"}
                        /\ \A i \in 1 .. Len(q') : q'[i].file = "firmware"
                        /\ \A i \in 1 .. Len(rep') : rep'[i].op = "clunk" /\ rep'[i].ok => upgrade'
    BY <1>1 DEF OnFirmware
  <2>2. /\ fid \in {"none", "firmware"} /\ \A i \in 1 .. Len(q) : q[i].file = "firmware"
        /\ \A i \in 1 .. Len(rep) : rep[i].op = "clunk" /\ rep[i].ok => upgrade
    BY <1>2, <2>1 DEF OnFirmware
  <2>3. fid' \in {"none", "firmware"}
    BY <1>1, <2>2 DEF PeerStep
  <2>4. \A i \in 1 .. Len(q') : q'[i].file = "firmware"
    BY <1>1, <2>2, TakenIndex
  <2>5. ASSUME NEW i \in 1 .. Len(rep'), rep'[i].op = "clunk", rep'[i].ok
        PROVE  upgrade'
    <3>1. CASE \E j \in 1 .. Len(rep) : rep'[i] = rep[j]
      BY <2>2, <2>5, <3>1 DEF PeerStep
    <3>2. CASE q[1].op = "clunk" /\ fid # "none"
      BY <2>2, <3>2 DEF PeerStep
    <3>3. QED
      BY <2>5, <3>1, <3>2 DEF PeerStep
  <2>6. QED
    BY <2>3, <2>4, <2>5
<1>7. SessionOpens'
  <2>1. End' = Len(q) /\ End = Len(q) + 1 /\ Len(q) > 0
    BY <1>1 DEF End
  <2>2. ASSUME host.pc \in {"target", "stream"}
        PROVE  Streams(q[1]) /\ q[1].peer = "gateway" /\ fid \in {"none", "firmware"}
    BY <1>1, <1>2, <2>2 DEF OnFirmware, RingInOrder, Streams
  <2>3. ASSUME host.pc \in {"target", "stream"}, Ready(End)
        PROVE  Ready(End)'
    <3>1. Ready(Len(q) + 1)
      BY <2>1, <2>3 DEF Ready
    <3>2. \A k \in Nat : k = Len(q) => Ready(k)'
      BY <1>1, <2>1, <2>2, <2>3, <3>1, ReadyTaken
    <3>3. QED
      BY <1>1, <2>1, <3>2 DEF Ready, Versioned
  <2>4. ASSUME Versioned(End)
        PROVE  Versioned(End)'
    <3>1. Versioned(Len(q) + 1) /\ q[1].peer = "gateway"
      BY <1>1, <1>2, <2>1, <2>4 DEF Versioned
    <3>2. \A k \in Nat : k = Len(q) => Versioned(k)'
      BY <1>1, <3>1, VersionedTaken
    <3>3. QED
      BY <1>1, <2>1, <3>2 DEF Versioned
  <2>5. gw.op = "target" => host.pc = "target"
    BY <1>1 DEF CallsMatch
  <2>6. QED
    BY <1>1, <1>2, <2>3, <2>4, <2>5 DEF SessionOpens
<1>8. QED
  BY <1>3, <1>4, <1>5, <1>6, <1>7 DEF AloneSession, WritesFindSession, Streams, Closes

LEMMA PeerPreserves ==
  ASSUME IInv, PeerStep
  PROVE  IInv'
<1>1. TypeOK /\ TypeOK' /\ host' = host /\ gw' = gw /\ crowded' = crowded
  BY TypesKept DEF IInv, PeerStep
<1>2. CallsMatch'
  BY <1>1 DEF IInv, CallsMatch
<1>3. RingInOrder'
  BY <1>1, RingTaken DEF IInv, PeerStep
<1>4. FirstPass'
  BY PeerFirstPass
<1>5. AloneSession'
  BY <1>1, PeerAlone DEF AloneSession, Alone
<1>6. Undisturbed /\ fid = "firmware" => Follows
  BY DEF IInv, Undisturbed, AloneSession, FirstPass, Alive
<1>7. /\ image \in Seq(1 .. N) /\ image' \in Seq(1 .. N) /\ Len(image) \in Nat /\ Len(image') \in Nat
      /\ q[1].chunk \in 0 .. N /\ q[1].chunk \in Nat /\ 1 \in 1 .. Len(q) /\ Len(q) \in Nat
  <2>1. q[1].chunk \in 0 .. N /\ 1 \in 1 .. Len(q)
    BY <1>1, QueueTypes DEF PeerStep, Taken
  <2>2. QED
    BY <1>1, <2>1, QueueTypes, BoundTypes DEF TypeOK
<1>8. Len(image') >= Len(image)
  BY <1>7, FlashImage DEF PeerStep
<1>9. ImageIsPrefix'
  <2>1. SUFFICES ASSUME Undisturbed
                 PROVE  \A i \in 1 .. Len(image') : image'[i] = i
    BY <1>1 DEF ImageIsPrefix, Undisturbed, Alone
  <2>2. \A i \in 1 .. Len(image) : image[i] = i
    BY <2>1 DEF IInv, ImageIsPrefix
  <2>3. CASE image' = image
    BY <2>2, <2>3
  <2>4. CASE q[1].op \in {"write", "ctl"} /\ fid = "firmware"
    <3>1. q[1].chunk <= Len(image) + 1 /\ Flash(q[1].chunk)
      BY <1>6, <2>1, <2>4, StreamLands DEF PeerStep
    <3>2. CASE q[1].chunk <= Len(image)
      BY <1>7, <2>2, <3>1, <3>2, FlashImage
    <3>3. CASE q[1].chunk = Len(image) + 1
      <4>1. image' = Append(image, Len(image) + 1) /\ Len(image) + 1 \in 1 .. N
        BY <1>7, <3>1, <3>3, FlashImage
      <4>2. /\ Len(image') = Len(image) + 1 /\ image'[Len(image) + 1] = Len(image) + 1
            /\ \A i \in 1 .. Len(image) : image'[i] = image[i]
        BY <1>7, <4>1, AppendedSeq
      <4>3. \A i \in 1 .. Len(image') : i \in 1 .. Len(image) \/ i = Len(image) + 1
        BY <1>7, <4>2
      <4>4. QED
        BY <2>2, <4>2, <4>3
    <3>4. QED
      BY <1>7, <3>1, <3>2, <3>3
  <2>5. QED
    BY <2>3, <2>4 DEF PeerStep
<1>10. UpgradeIsWhole'
  <2>1. SUFFICES ASSUME ~ResetFinalizes, Undisturbed, upgrade'
                 PROVE  Len(image') = N
    BY <1>1 DEF UpgradeIsWhole, Undisturbed, Alone
  <2>2. Len(image') <= N
    <3>1. \A i \in 1 .. Len(image') : image'[i] = i
      BY <1>1, <1>9, <2>1 DEF ImageIsPrefix, Undisturbed, Alone
    <3>2. QED
      BY <1>7, <3>1, PrefixFits
  <2>3. CASE upgrade
    BY <1>7, <1>8, <2>1, <2>2, <2>3, BoundTypes DEF IInv, UpgradeIsWhole
  <2>4. CASE q[1].op = "clunk" /\ fid = "firmware"
    <3>1. Closes(q[1]) /\ \A j \in 1 .. Len(q) : j = 1 \/ 1 < j
      BY <1>7, <2>4 DEF Closes
    <3>2. host.off = N /\ \A j \in 1 .. Len(q) : q[j].op # "write"
      BY <1>7, <2>4, <3>1 DEF IInv, RingInOrder
    <3>3. N <= Len(image)
      BY <1>6, <2>1, <2>4, <3>2 DEF Follows, Reached
    <3>4. QED
      BY <1>7, <1>8, <2>2, <3>3, BoundTypes
  <2>5. QED
    BY <2>1, <2>3, <2>4 DEF PeerStep
<1>11. AnsweredCommitStages'
  BY <1>1 DEF IInv, AnsweredCommitStages, Alone, PeerStep
<1>12. QED
  BY <1>1, <1>2, <1>3, <1>4, <1>5, <1>9, <1>10, <1>11 DEF IInv

(* The peer resets: nothing of the stream was in its ring.                    *)
LEMMA RebootPreserves ==
  ASSUME IInv, RebootStep
  PROVE  IInv'
<1>1. /\ TypeOK /\ TypeOK' /\ host' = host /\ gw' = gw /\ crowded' = crowded
      /\ Len(q') = 0 /\ fid' = "none" /\ image' = image /\ upgrade' = upgrade /\ rep' = rep
      /\ Len(q) \in Nat /\ 1 \in 1 .. Len(q)
  BY TypesKept DEF IInv, RebootStep
<1>2. CallsMatch'
  BY <1>1 DEF IInv, CallsMatch
<1>3. RingInOrder'
  BY <1>1, RingEmpty
<1>4. FirstPass'
  BY <1>1 DEF FirstPass, Alive
<1>5. ASSUME Alone
      PROVE  AloneSession'
  <2>1. /\ Follows /\ OnFirmware /\ Closes(q[1]) /\ fid = "reboot"
        /\ \A j \in 1 .. Len(q) : j = 1 \/ 1 < j
    BY <1>1, <1>5 DEF IInv, AloneSession, RebootStep, Closes
  <2>2. /\ host.pc \notin {"target", "stream", "commit"}
        /\ \A j \in 1 .. Len(q) : q[j].op # "write"
    BY <1>1, <2>1 DEF IInv, OnFirmware, RingInOrder, Closes
  <2>3. host.off <= Len(image) /\ gw.op \notin {"write", "target"}
    BY <2>1, <2>2 DEF Follows, Reached, IInv, CallsMatch
  <2>4. Follows'
    BY <1>1, <2>3 DEF Follows, Reached
  <2>5. QED
    BY <1>1, <2>2, <2>3, <2>4 DEF AloneSession, WritesFindSession, OnFirmware, SessionOpens
<1>6. AloneSession'
  BY <1>1, <1>5 DEF AloneSession, Alone
<1>7. ImageIsPrefix' /\ UpgradeIsWhole' /\ AnsweredCommitStages'
  BY <1>1 DEF IInv, ImageIsPrefix, UpgradeIsWhole, AnsweredCommitStages, Undisturbed, Alone
<1>8. QED
  BY <1>1, <1>2, <1>3, <1>4, <1>6, <1>7 DEF IInv

(* Another client's request changes nothing before it is served.              *)
LEMMA OtherPreserves ==
  ASSUME IInv, NEW m \in Msg, OtherStep(m)
  PROVE  IInv'
<1>1. /\ TypeOK /\ TypeOK' /\ host' = host /\ gw' = gw /\ crowded' = TRUE /\ Sent(m)
      /\ fid' = fid /\ image' = image /\ upgrade' = upgrade
      /\ m.op # "write" /\ ~Closes(m) /\ ~OpensFirmware(m)
  BY TypesKept DEF IInv, OtherStep, Closes, OpensFirmware
<1>2. CallsMatch'
  BY <1>1 DEF IInv, CallsMatch
<1>3. RingInOrder'
  BY <1>1, RingSent DEF IInv
<1>4. Follows => Follows'
  BY <1>1, FollowsSent
<1>5. FirstPass'
  <2>1. SUFFICES ASSUME host.pass = 0
                 PROVE  /\ host.pc = "target" => \A i \in 1 .. Len(q') : q'[i].op # "write"
                        /\ \A i, j \in 1 .. Len(q') : i < j /\ q'[i].op = "write" => ~OpensFirmware(q'[j])
                        /\ Alive' => Follows'
    BY <1>1 DEF FirstPass, OpensFirmware
  <2>2. /\ host.pc = "target" => \A i \in 1 .. Len(q) : q[i].op # "write"
        /\ \A i, j \in 1 .. Len(q) : i < j /\ q[i].op = "write" => ~OpensFirmware(q[j])
        /\ Alive => Follows
    BY <2>1 DEF IInv, FirstPass
  <2>3. host.pc = "target" => \A i \in 1 .. Len(q') : q'[i].op # "write"
    BY <1>1, <2>2, SentIndex
  <2>4. ASSUME NEW i \in 1 .. Len(q'), NEW j \in 1 .. Len(q'), i < j, q'[i].op = "write"
        PROVE  ~OpensFirmware(q'[j])
    BY <1>1, <2>2, <2>4, SentIndex
  <2>5. Alive' => Alive
    <3>1. Alive' => fid = "firmware" \/ \E i \in 1 .. Len(q') : OpensFirmware(q'[i])
      BY <1>1 DEF Alive, OpensFirmware
    <3>2. QED
      BY <1>1, <3>1, SentIndex DEF Alive
  <2>6. QED
    BY <1>4, <2>2, <2>3, <2>4, <2>5
<1>6. AloneSession' /\ AnsweredCommitStages'
  BY <1>1 DEF AloneSession, AnsweredCommitStages, Alone
<1>7. ImageIsPrefix' /\ UpgradeIsWhole'
  BY <1>1 DEF IInv, ImageIsPrefix, UpgradeIsWhole, Undisturbed, Alone
<1>8. QED
  BY <1>1, <1>2, <1>3, <1>5, <1>6, <1>7 DEF IInv

-----------------------------------------------------------------------------
(* The theorems                                                              *)

LEMMA InitInv ==
  ASSUME Init
  PROVE  IInv
<1>1. /\ q = <<>> /\ rep = <<>> /\ image = <<>> /\ Len(<<>>) = 0
      /\ host.pc = "target" /\ host.off = 0 /\ host.resume = 0 /\ host.pass = 0 /\ host.tries = 0
      /\ gw.op = "none" /\ gw.stage = "none" /\ ~gw.active /\ ~gw.wait /\ ~gw.clunked /\ gw.tries = 0
  BY DEF Init, PeerQ!Init
<1>2. TypeOK
  <2>1. host \in HostState
    BY BoundTypes DEF Init, HostState
  <2>2. gw \in GwState
    BY BoundTypes DEF Init, GwState
  <2>3. QED
    <3>1. rep \in Seq([op : Stage, ok : BOOLEAN]) /\ q \in Seq(Msg) /\ image \in Seq(1 .. N)
          /\ Len(rep) <= Depth /\ Len(q) <= Ring
      BY <1>1, BoundTypes
    <3>2. fid \in File \cup {"none"} /\ owner \in Client
      BY DEF Init, Client
    <3>3. upgrade \in BOOLEAN /\ confirmed \in BOOLEAN /\ lost \in BOOLEAN /\ crowded \in BOOLEAN
      BY DEF Init
    <3>4. gw.tries < SendTries
      BY <1>1, BoundTypes
    <3>5. QED
      BY <2>1, <2>2, <3>1, <3>2, <3>3, <3>4 DEF TypeOK
<1>3. CallsMatch
  BY <1>1, BoundTypes DEF CallsMatch, Stage
<1>4. RingInOrder
  BY <1>1 DEF RingInOrder
<1>5. Follows
  BY <1>1 DEF Follows, Reached
<1>6. FirstPass
  BY <1>1, <1>5 DEF FirstPass
<1>7. AloneSession
  BY <1>1, <1>5 DEF AloneSession, WritesFindSession, OnFirmware, SessionOpens, Init
<1>8. ImageIsPrefix /\ UpgradeIsWhole /\ AnsweredCommitStages
  BY <1>1 DEF Init, ImageIsPrefix, UpgradeIsWhole, AnsweredCommitStages
<1>9. QED
  BY <1>2, <1>3, <1>4, <1>6, <1>7, <1>8 DEF IInv

LEMMA NextInv ==
  ASSUME IInv, [Next]_vars
  PROVE  IInv'
<1>1. TypeOK /\ CallsMatch
  BY DEF IInv
<1>2. CASE HostTarget
  BY <1>1, <1>2, HostTargetStep, HostPreserves
<1>3. CASE HostTargetDone
  BY <1>1, <1>3, HostTargetDoneStep, HostPreserves
<1>4. CASE HostWrite
  BY <1>1, <1>4, HostWriteStep, HostPreserves
<1>5. CASE HostWriteDone
  BY <1>1, <1>5, HostWriteDoneStep, HostPreserves
<1>6. CASE HostCommit
  BY <1>1, <1>6, HostCommitStep, HostPreserves
<1>7. CASE HostCtl
  BY <1>1, <1>7, HostCtlStep, HostPreserves
<1>8. CASE HostCtlDone
  BY <1>1, <1>8, HostCtlDoneStep, HostPreserves
<1>9. CASE GwStart
  BY <1>1, <1>9, GwStartStep, GwPreserves
<1>10. CASE SendAcked
  BY <1>1, <1>10, SendAckedStep, GwPreserves
<1>11. CASE SendUnacked
  BY <1>1, <1>11, SendUnackedStep, GwPreserves
<1>12. CASE SendLost
  BY <1>1, <1>12, SendLostStep, GwPreserves
<1>13. CASE GwTake
  BY <1>1, <1>13, GwTakeStep, GwPreserves
<1>14. CASE GwTimeout
  BY <1>1, <1>14, GwTimeoutStep, GwPreserves
<1>15. CASE PeerServe
  BY <1>1, <1>15, PeerServeStep, PeerPreserves
<1>16. CASE PeerReboot
  BY <1>1, <1>16, PeerRebootStep, RebootPreserves
<1>17. CASE \E st \in {"version", "open"} : OtherSession(st)
  BY <1>1, <1>17, OtherSessionStep, OtherPreserves
<1>18. CASE UNCHANGED vars
  BY <1>18 DEF vars, peerVars, IInv, TypeOK, CallsMatch, RingInOrder, FirstPass, AloneSession,
     ImageIsPrefix, UpgradeIsWhole, AnsweredCommitStages, Closes, Reached, End, Follows,
     OpensFirmware, Alive, Versioned, Ready, Streams, WritesFindSession, OnFirmware,
     SessionOpens, Alone, Undisturbed
<1>19. QED
  BY <1>2, <1>3, <1>4, <1>5, <1>6, <1>7, <1>8, <1>9, <1>10, <1>11, <1>12, <1>13, <1>14, <1>15,
     <1>16, <1>17, <1>18 DEF Next, HostNext, GwNext

LEMMA InvHolds == Spec => []IInv
<1>1. Init => IInv
  BY InitInv
<1>2. IInv /\ [Next]_vars => IInv'
  BY NextInv
<1>3. QED
  BY <1>1, <1>2, PTL DEF Spec

(* The host, the gateway's call, the ring and the slot stay in their ranges.   *)
THEOREM TypeCorrect == Spec => []TypeOK
<1>1. IInv => TypeOK
  BY DEF IInv
<1>2. QED
  BY InvHolds, <1>1, PTL

(* A chunk sent again is skipped, and none is appended out of its place        *)
(* (ninep_dfu writes by offset; do_mesh_ota backs up after a stall).         *)
THEOREM SlotHoldsPrefix == Spec => []ImageIsPrefix
<1>1. IInv => ImageIsPrefix
  BY DEF IInv
<1>2. QED
  BY InvHolds, <1>1, PTL

(* The clunk of the commit comes to the peer after every chunk               *)
(* (aether_net_push_close), and nothing else finalizes, if the library's      *)
(* Tversion does not (~ResetFinalizes: OTA.md l.111-113).                     *)
THEOREM UpgradeIsOfWhole == Spec => []UpgradeIsWhole
<1>1. IInv => UpgradeIsWhole
  BY DEF IInv
<1>2. QED
  BY InvHolds, <1>1, PTL

(* What aether_net_push_write reported as written is in the slot once the      *)
(* peer has served its ring.                                                 *)
THEOREM WritesLand == Spec => []AloneWritesLand
<1>1. IInv => AloneWritesLand
  <2>1. SUFFICES ASSUME IInv, Alone, q = <<>>
                 PROVE  Len(image) >= host.off
    BY DEF AloneWritesLand
  <2>2. Reached(host.off, End) /\ Len(q) = 0
    BY <2>1 DEF IInv, AloneSession, Follows
  <2>3. QED
    BY <2>2, HostTypes, <2>1 DEF Reached, IInv, TypeOK
<1>2. QED
  BY InvHolds, <1>1, PTL

(* A commit whose clunk was answered (m9_rpc in aether_net_push_close) staged  *)
(* the upgrade.                                                              *)
THEOREM AnsweredCommitHasStaged == Spec => []AnsweredCommitStages
<1>1. IInv => AnsweredCommitStages
  BY DEF IInv
<1>2. QED
  BY InvHolds, <1>1, PTL

=============================================================================

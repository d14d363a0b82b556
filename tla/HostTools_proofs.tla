---------------------------- MODULE HostTools_proofs ----------------------------
(***************************************************************************)
(* Proofs about HostTools: every conversation tool keeps to the node's      *)
(* conversations that it allocated, and the careful ones give theirs back.  *)
(***************************************************************************)
EXTENDS HostTools, FiniteSetTheorems, SequenceTheorems, WellFoundedInduction, TLAPS

-----------------------------------------------------------------------------
(* Scripts.  What the proofs need to know of each of them, as facts about the *)
(* steps at their places.                                                    *)

Arg == Bind \cup {"-", "clone", "data", "status"}
OnErr == {"quit", "clean", "end", "over", "drop", "next", "zero"}
StepType ==
  [how : {"rpc", "loop", "post", "take", "wait", "pause"}, op : Ops, fid : Fids, arg : Arg,
   tag : Nat, onErr : OnErr]

(* Where a script's calls are: c and d are the fids of ctl and data, w and a   *)
(* the steps that walk to them.                                              *)
Places(S, c, d, w, a, up, held) ==
  /\ {c, d} \subseteq Fids \ {0} /\ c # d
  /\ {w, a, up, held} \subseteq Nat
  /\ 2 < w /\ w + 2 < a /\ a < up /\ up <= held /\ held <= Len(S)

(* The steps up to up are plain calls, in which only the number may be missed. *)
Strict(S, up) ==
  \A i \in 1 .. up :
    /\ S[i].how = "rpc" /\ S[i].op \in {"version", "attach", "walk", "open", "num", "ctl"}
    /\ S[i].onErr \in {"quit", "clean", "zero"}
    /\ S[i].onErr = "zero" => S[i].op = "num"
    /\ S[i].op = "num" => i < up /\ S[i + 1].op # "num" /\ S[i + 1].onErr # "zero"

Makes(S, c, d, w, a, data) ==
  /\ S[w].op = "walk" /\ S[w].arg = "clone" /\ S[w].fid = c
  /\ S[w + 2].op = "num" /\ S[w + 2].fid = c
  /\ S[a].op = "walk" /\ S[a].fid = d /\ (data => S[a].arg = "data")
  /\ \A i \in w + 3 .. a : S[i].op # "num"

(* The conversation is used by the data fid, and kept up to held.             *)
Keeps(S, c, d, a, held, data) ==
  \A i \in 1 .. Len(S) :
    /\ S[i] \in StepType
    /\ S[i].op = "version" => i = 1
    /\ S[i].op = "clunk" /\ i <= held => S[i].fid \notin {c, d}
    /\ S[i].op \in {"read", "write"} /\ S[i].how \in {"rpc", "loop"} =>
         data /\ a < i /\ i <= held /\ S[i].fid = d
    /\ S[i].how \in {"wait", "pause"} => S[i].op = "-"
    /\ S[i].op = "ctl" => S[i].arg \in Bind

(* A failure leads forward, behind held or out.                              *)
Forwards(S, up, held) ==
  \A i \in 1 .. Len(S) :
    /\ S[i].onErr = "clean" => held < Len(S) - 1
    /\ S[i].onErr = "end" \/ S[i].how = "loop" => up < i /\ held < Len(S) - 2
    /\ S[i].onErr = "drop" => up < i
    /\ S[i].op = "num" => i <= up
    /\ S[i].onErr = "over" =>
         up < i /\ \E j \in i .. Len(S) - 1 : S[j].op = "clunk" /\ S[j].fid = S[i].fid

Planned(m, S, c, d, w, a, up, held) ==
  /\ Len(S) \in Nat
  /\ Places(S, c, d, w, a, up, held)
  /\ Strict(S, up)
  /\ Makes(S, c, d, w, a, m # "bstatus")
  /\ Keeps(S, c, d, a, held, m # "bstatus")
  /\ Forwards(S, up, held)

(* What makes a mode careful.                                                *)
Clunks(S) ==
  /\ Len(S) \in Nat /\ Len(S) >= 9
  /\ S[Len(S) - 1].op = "clunk" /\ S[Len(S) - 1].fid = 1 /\ S[Len(S) - 1].how = "rpc"
  /\ S[Len(S)].op = "clunk"
  /\ \A i \in 1 .. Len(S) :
       /\ S[i].how \in {"rpc", "loop"}
       /\ i < 6 => S[i].op # "ctl" /\ S[i].onErr \in {"quit", "zero"}
       /\ i >= 6 => S[i].onErr \in {"clean", "end", "next"}
       /\ S[i].op = "walk" /\ S[i].arg = "clone" => S[i].fid = 1 /\ i < Len(S) - 1
       /\ S[i].op = "clunk" /\ S[i].fid = 1 => i = Len(S) - 1

(* A mode with its conversation bound, whatever calls it makes on data.       *)
Work(s) ==
  /\ s.how \in {"rpc", "loop"} /\ s.op \in {"read", "write"} /\ s.fid = 2
  /\ s.arg = "-" /\ s.tag = 1 /\ s.onErr \in {"next", "end"}

HeldList(S, b, k, x, y) ==
  /\ Len(S) = 11 + k
  /\ S[1] = Call("version", 0, "-", "quit") /\ S[2] = Call("attach", 0, "-", "quit")
  /\ S[3] = Call("walk", 1, "clone", "quit") /\ S[4] = Call("open", 1, "-", "quit")
  /\ S[5] = Call("num", 1, "-", "zero") /\ S[6] = Call("ctl", 1, b, "clean")
  /\ S[7] = Call("walk", 2, "data", "clean") /\ S[8] = Call("open", 2, "-", "clean")
  /\ S[9] = x /\ (k = 2 => S[10] = y)
  /\ S[9 + k] = Call("clunk", 2, "-", "next") /\ S[10 + k] = Call("clunk", 1, "-", "next")
  /\ S[11 + k] = Call("clunk", 0, "-", "next")

LEMMA HeldOne ==
  ASSUME NEW b, NEW x
  PROVE  HeldList(Held(b, <<x>>), b, 1, x, x)
BY DEF HeldList, Held, Bound, Clone, Attach, OpenClone, OpenData, Ctl, Bye

LEMMA HeldTwo ==
  ASSUME NEW b, NEW x, NEW y
  PROVE  HeldList(Held(b, <<x, y>>), b, 2, x, y)
BY DEF HeldList, Held, Bound, Clone, Attach, OpenClone, OpenData, Ctl, Bye

LEMMA HeldPlan ==
  ASSUME NEW S, NEW m, m # "bstatus", NEW b \in Bind, NEW k \in 1 .. 2, NEW x, NEW y,
         Work(x), x \in StepType, Work(y), y \in StepType, HeldList(S, b, k, x, y)
  PROVE  Planned(m, S, 1, 2, 3, 7, 8, Len(S) - 3) /\ Clunks(S)
<1>1. HeldList(S, b, k, x, y)
  OBVIOUS
<1> USE DEF HeldList
<1>2. Places(S, 1, 2, 3, 7, 8, Len(S) - 3)
  BY <1>1 DEF Places, Fids
<1>3. Strict(S, 8)
  BY <1>1 DEF Strict, Call, Step
<1>4. Makes(S, 1, 2, 3, 7, TRUE)
  BY <1>1 DEF Makes, Call, Step
<1>5. ASSUME NEW i \in 1 .. Len(S)
      PROVE  \/ i = 1 /\ S[i] = Call("version", 0, "-", "quit")
             \/ i = 2 /\ S[i] = Call("attach", 0, "-", "quit")
             \/ i = 3 /\ S[i] = Call("walk", 1, "clone", "quit")
             \/ i = 4 /\ S[i] = Call("open", 1, "-", "quit")
             \/ i = 5 /\ S[i] = Call("num", 1, "-", "zero")
             \/ i = 6 /\ S[i] = Call("ctl", 1, b, "clean")
             \/ i = 7 /\ S[i] = Call("walk", 2, "data", "clean")
             \/ i = 8 /\ S[i] = Call("open", 2, "-", "clean")
             \/ i \in 9 .. Len(S) - 3 /\ Work(S[i]) /\ S[i] \in StepType
             \/ i = Len(S) - 2 /\ S[i] = Call("clunk", 2, "-", "next")
             \/ i = Len(S) - 1 /\ S[i] = Call("clunk", 1, "-", "next")
             \/ i = Len(S) /\ S[i] = Call("clunk", 0, "-", "next")
  BY <1>1
<1>L. Len(S) \in {12, 13}
  BY <1>1
<1> HIDE DEF HeldList
<1>6. \A i \in 1 .. Len(S) : S[i] \in StepType
  BY <1>5 DEF Call, Step, StepType, Ops, Fids, Arg, OnErr
<1>7. Keeps(S, 1, 2, 7, Len(S) - 3, TRUE)
  BY <1>5, <1>6, <1>L DEF Keeps, Call, Step, Work
<1>8. Forwards(S, 8, Len(S) - 3)
  BY <1>5, <1>L, SMTT(30) DEF Forwards, Call, Step, Work
<1>9. Clunks(S)
  <2>1. S[Len(S) - 1] = Call("clunk", 1, "-", "next") /\ S[Len(S)] = Call("clunk", 0, "-", "next")
    BY <1>1, <1>L DEF HeldList
  <2>2. S[Len(S) - 1].op = "clunk" /\ S[Len(S) - 1].fid = 1 /\ S[Len(S) - 1].how = "rpc" /\ S[Len(S)].op = "clunk"
    BY <2>1 DEF Call, Step
  <2>3. \A i \in 1 .. Len(S) : S[i].how \in {"rpc", "loop"}
    BY <1>5, <1>L DEF Call, Step, Work
  <2>4. \A i \in 1 .. Len(S) : i < 6 => S[i].op # "ctl" /\ S[i].onErr \in {"quit", "zero"}
    <3>1. CASE Len(S) = 12
      BY <1>5, <3>1 DEF Call, Step, Work
    <3>2. CASE Len(S) = 13
      BY <1>5, <3>2 DEF Call, Step, Work
    <3>3. QED
      BY <1>L, <3>1, <3>2
  <2>5. \A i \in 1 .. Len(S) : i >= 6 => S[i].onErr \in {"clean", "end", "next"}
    BY <1>5, <1>L DEF Call, Step, Work
  <2>6. \A i \in 1 .. Len(S) :
          S[i].op = "walk" /\ S[i].arg = "clone" => S[i].fid = 1 /\ i < Len(S) - 1
    <3>1. CASE Len(S) = 12
      BY <1>5, <3>1 DEF Call, Step, Work
    <3>2. CASE Len(S) = 13
      BY <1>5, <3>2 DEF Call, Step, Work
    <3>3. QED
      BY <1>L, <3>1, <3>2
  <2>7. \A i \in 1 .. Len(S) : S[i].op = "clunk" /\ S[i].fid = 1 => i = Len(S) - 1
    BY <1>5, <1>L DEF Call, Step, Work
  <2>8. QED
    <3>1. Len(S) \in Nat /\ Len(S) >= 9
      <4>1. PICK n \in {12, 13} : n = Len(S)
        BY <1>L
      <4>2. n \in Nat /\ n >= 9
        OBVIOUS
      <4>3. QED
        BY <4>1, <4>2, Zenon
    <3>2. QED
      BY <3>1, <2>2, <2>3, <2>4, <2>5, <2>6, <2>7, Zenon DEF Clunks
<1>10. QED
  <2>1. (m # "bstatus") = TRUE
    OBVIOUS
  <2>2. Len(S) \in Nat
    BY <1>L
  <2>3. QED
    BY <1>2, <1>3, <1>4, <1>7, <1>8, <1>9, <2>1, <2>2 DEF Planned

(* The other scripts.                                                        *)
LEMMA BstatusPlan == Planned("bstatus", Bstatus, 1, 2, 3, 7, 8, Len(Bstatus) - 3) /\ Clunks(Bstatus)
<1> DEFINE S == Bstatus
<1>1. /\ Len(S) = 12
      /\ S[1] = Call("version", 0, "-", "quit") /\ S[2] = Call("attach", 0, "-", "quit")
      /\ S[3] = Call("walk", 1, "clone", "quit") /\ S[4] = Call("open", 1, "-", "quit")
      /\ S[5] = Call("num", 1, "-", "zero") /\ S[6] = Call("ctl", 1, "bcast", "clean")
      /\ S[7] = Call("walk", 2, "status", "clean") /\ S[8] = Call("open", 2, "-", "clean")
      /\ S[9] = Call("status", 2, "-", "next")
      /\ S[10] = Call("clunk", 2, "-", "next") /\ S[11] = Call("clunk", 1, "-", "next")
      /\ S[12] = Call("clunk", 0, "-", "next")
  BY DEF Bstatus, Bound, Clone, Attach, OpenClone, Ctl, Bye
<1> HIDE DEF S
<1>2. Places(S, 1, 2, 3, 7, 8, Len(S) - 3)
  BY <1>1 DEF Places, Fids
<1>3. Strict(S, 8)
  BY <1>1 DEF Strict, Call, Step
<1>4. Makes(S, 1, 2, 3, 7, FALSE)
  BY <1>1 DEF Makes, Call, Step
<1>5. \A i \in 1 .. Len(S) : S[i] \in StepType
  BY <1>1 DEF Call, Step, StepType, Ops, Fids, Arg, OnErr, Bind
<1>6. Keeps(S, 1, 2, 7, Len(S) - 3, FALSE)
  BY <1>1, <1>5 DEF Keeps, Call, Step, Bind
<1>7. Forwards(S, 8, Len(S) - 3)
  BY <1>1 DEF Forwards, Call, Step
<1>8. Clunks(S)
  BY <1>1 DEF Clunks, Call, Step
<1>9. QED
  <2>1. ("bstatus" # "bstatus") = FALSE
    OBVIOUS
  <2>2. Len(S) \in Nat
    BY <1>1
  <2>3. QED
    BY <1>2, <1>3, <1>4, <1>6, <1>7, <1>8, <2>1, <2>2 DEF Planned, S

LEMMA DefaultPlan == Planned("default", Default, 1, 2, 3, 6, 7, 13)
<1> DEFINE S == Default
<1>1. /\ Len(S) = 20
      /\ S[1] = Call("version", 0, "-", "quit") /\ S[2] = Call("attach", 0, "-", "quit")
      /\ S[3] = Call("walk", 1, "clone", "quit") /\ S[4] = Call("open", 1, "-", "quit")
      /\ S[5] = Call("num", 1, "-", "quit")
      /\ S[6] = Call("walk", 2, "data", "quit") /\ S[7] = Call("open", 2, "-", "quit")
      /\ S[8] = Call("walk", 3, "status", "over") /\ S[9] = Call("open", 3, "-", "over")
      /\ S[10] = Call("status", 3, "-", "next") /\ S[11] = Call("clunk", 3, "-", "next")
      /\ S[12] = Call("ctl", 1, "peer", "next") /\ S[13] = Call("write", 2, "-", "next")
      /\ S[14] = Call("clunk", 2, "-", "next") /\ S[15] = Call("clunk", 1, "-", "next")
      /\ S[16] = Call("walk", 4, "status", "over") /\ S[17] = Call("open", 4, "-", "over")
      /\ S[18] = Call("status", 4, "-", "next") /\ S[19] = Call("clunk", 4, "-", "next")
      /\ S[20] = Call("clunk", 0, "-", "next")
  BY DEF Default, Clone, Attach, OpenClone, OpenData, Status
<1> HIDE DEF S
<1>2. Places(S, 1, 2, 3, 6, 7, 13)
  BY <1>1 DEF Places, Fids
<1>3. Strict(S, 7)
  BY <1>1 DEF Strict, Call, Step
<1>4. Makes(S, 1, 2, 3, 6, TRUE)
  BY <1>1 DEF Makes, Call, Step
<1>5. \A i \in 1 .. Len(S) : S[i] \in StepType
  BY <1>1 DEF Call, Step, StepType, Ops, Fids, Arg, OnErr, Bind
<1>6. Keeps(S, 1, 2, 6, 13, TRUE)
  BY <1>1, <1>5 DEF Keeps, Call, Step, Bind
<1>7. Forwards(S, 7, 13)
  BY <1>1 DEF Forwards, Call, Step
<1>8. QED
  <2>1. ("default" # "bstatus") = TRUE
    OBVIOUS
  <2>2. Len(S) \in Nat
    BY <1>1
  <2>3. QED
    BY <1>2, <1>3, <1>4, <1>6, <1>7, <2>1, <2>2 DEF Planned, S

LEMMA HoldPlan == Planned("hold", Hold, 1, 2, 3, 6, 7, 7)
<1> DEFINE S == Hold
<1>1. /\ Len(S) = 9
      /\ S[1] = Call("version", 0, "-", "quit") /\ S[2] = Call("attach", 0, "-", "quit")
      /\ S[3] = Call("walk", 1, "clone", "quit") /\ S[4] = Call("open", 1, "-", "quit")
      /\ S[5] = Call("num", 1, "-", "zero") /\ S[6] = Call("walk", 2, "data", "quit")
      /\ S[7] = Call("open", 2, "-", "quit") /\ S[8] = Post("read", 2, "-", 10)
      /\ S[9] = Step("pause", "-", 0, "-", 0, "next")
  BY DEF Hold, Clone, Attach, OpenClone, OpenData
<1> HIDE DEF S
<1>2. Places(S, 1, 2, 3, 6, 7, 7)
  BY <1>1 DEF Places, Fids
<1>3. Strict(S, 7)
  BY <1>1 DEF Strict, Call, Step
<1>4. Makes(S, 1, 2, 3, 6, TRUE)
  BY <1>1 DEF Makes, Call, Step
<1>5. \A i \in 1 .. Len(S) : S[i] \in StepType
  BY <1>1 DEF Post, Call, Step, StepType, Ops, Fids, Arg, OnErr, Bind
<1>6. Keeps(S, 1, 2, 6, 7, TRUE)
  BY <1>1, <1>5 DEF Keeps, Post, Call, Step, Bind
<1>7. Forwards(S, 7, 7)
  BY <1>1 DEF Forwards, Post, Call, Step
<1>8. QED
  <2>1. ("hold" # "bstatus") = TRUE
    OBVIOUS
  <2>2. Len(S) \in Nat
    BY <1>1
  <2>3. QED
    BY <1>2, <1>3, <1>4, <1>6, <1>7, <2>1, <2>2 DEF Planned, S

LEMMA ConcurrentPlan == Planned("concurrent", Concurrent, 1, 2, 3, 6, 7, 7)
<1> DEFINE S == Concurrent
<1>1. /\ Len(S) = 22
      /\ S[1] = Call("version", 0, "-", "quit") /\ S[2] = Call("attach", 0, "-", "quit")
      /\ S[3] = Call("walk", 1, "clone", "quit") /\ S[4] = Call("open", 1, "-", "quit")
      /\ S[5] = Call("num", 1, "-", "zero") /\ S[6] = Call("walk", 2, "data", "quit")
      /\ S[7] = Call("open", 2, "-", "quit") /\ S[8] = Post("read", 2, "-", 10)
      /\ S[9] = Post("walk", 3, "status", 1) /\ S[10] = Take("walk", 1)
      /\ S[11] = Post("open", 3, "-", 1) /\ S[12] = Take("open", 1)
      /\ S[13] = Post("status", 3, "-", 1) /\ S[14] = Take("status", 1)
      /\ S[15] = Post("clunk", 3, "-", 1) /\ S[16] = Take("clunk", 1)
      /\ S[17] = Post("clunk", 1, "-", 1) /\ S[18] = Take("clunk", 1) /\ S[19] = Take("read", 10)
      /\ S[20] = Post("clunk", 2, "-", 1) /\ S[21] = Take("clunk", 1)
      /\ S[22] = Call("clunk", 0, "-", "next")
  BY DEF Concurrent, Clone, Attach, OpenClone, OpenData
<1> HIDE DEF S
<1>2. Places(S, 1, 2, 3, 6, 7, 7)
  BY <1>1 DEF Places, Fids
<1>3. Strict(S, 7)
  BY <1>1 DEF Strict, Call, Step
<1>4. Makes(S, 1, 2, 3, 6, TRUE)
  BY <1>1 DEF Makes, Call, Step
<1>5. \A i \in 1 .. Len(S) : S[i] \in StepType
  BY <1>1 DEF Post, Take, Call, Step, StepType, Ops, Fids, Arg, OnErr, Bind
<1>6. Keeps(S, 1, 2, 6, 7, TRUE)
  BY <1>1, <1>5 DEF Keeps, Post, Take, Call, Step, Bind
<1>7. Forwards(S, 7, 7)
  BY <1>1 DEF Forwards, Post, Take, Call, Step
<1>8. QED
  <2>1. ("concurrent" # "bstatus") = TRUE
    OBVIOUS
  <2>2. Len(S) \in Nat
    BY <1>1
  <2>3. QED
    BY <1>2, <1>3, <1>4, <1>6, <1>7, <2>1, <2>2 DEF Planned, S

LEMMA BridgePlan == Planned("bridge", Bridge, 1, 2, 3, 6, 7, Len(Bridge) - 3)
<1> DEFINE S == Bridge
<1>1. /\ Len(S) = 17
      /\ S[1] = Call("version", 0, "-", "quit") /\ S[2] = Call("attach", 0, "-", "quit")
      /\ S[3] = Call("walk", 1, "clone", "quit") /\ S[4] = Call("open", 1, "-", "quit")
      /\ S[5] = Call("num", 1, "-", "quit") /\ S[6] = Call("walk", 2, "data", "quit")
      /\ S[7] = Call("open", 2, "-", "quit") /\ S[8] = Call("ctl", 1, "peer", "quit")
      /\ S[9] = Accept /\ S[10] = Message /\ S[11] = Call("write", 2, "-", "drop")
      /\ S[12] = Call("read", 2, "-", "drop") /\ S[13] = Message /\ S[14] = Accept
      /\ S[15] = Call("clunk", 2, "-", "next") /\ S[16] = Call("clunk", 1, "-", "next")
      /\ S[17] = Call("clunk", 0, "-", "next")
  BY DEF Bridge, Clone, Attach, OpenClone, OpenData, Ctl, Bye
<1> HIDE DEF S
<1>2. Places(S, 1, 2, 3, 6, 7, Len(S) - 3)
  BY <1>1 DEF Places, Fids
<1>3. Strict(S, 7)
  BY <1>1 DEF Strict, Call, Step
<1>4. Makes(S, 1, 2, 3, 6, TRUE)
  BY <1>1 DEF Makes, Call, Step
<1>5. \A i \in 1 .. Len(S) : S[i] \in StepType
  BY <1>1 DEF Accept, Message, Call, Step, StepType, Ops, Fids, Arg, OnErr, Bind
<1>6. Keeps(S, 1, 2, 6, Len(S) - 3, TRUE)
  BY <1>1, <1>5 DEF Keeps, Accept, Message, Call, Step, Bind
<1>7. Forwards(S, 7, Len(S) - 3)
  BY <1>1 DEF Forwards, Accept, Message, Call, Step
<1>8. QED
  <2>1. ("bridge" # "bstatus") = TRUE
    OBVIOUS
  <2>2. Len(S) \in Nat
    BY <1>1
  <2>3. QED
    BY <1>2, <1>3, <1>4, <1>6, <1>7, <2>1, <2>2 DEF Planned, S

LEMMA ProbePlan == Planned("probe", Probe, 1, 2, 3, 6, 7, Len(Probe) - 3)
<1> DEFINE S == Probe
<1>1. /\ Len(S) = 14
      /\ S[1] = Call("version", 0, "-", "quit") /\ S[2] = Call("attach", 0, "-", "quit")
      /\ S[3] = Call("walk", 1, "clone", "quit") /\ S[4] = Call("open", 1, "-", "quit")
      /\ S[5] = Call("num", 1, "-", "quit") /\ S[6] = Call("walk", 2, "data", "quit")
      /\ S[7] = Call("open", 2, "-", "quit") /\ S[8] = Call("ctl", 1, "peer", "quit")
      /\ S[9] = Call("read", 2, "-", "next") /\ S[10] = Call("write", 2, "-", "quit")
      /\ S[11] = Call("read", 2, "-", "quit") /\ S[12] = Call("clunk", 2, "-", "next")
      /\ S[13] = Call("clunk", 1, "-", "next") /\ S[14] = Call("clunk", 0, "-", "next")
  BY DEF Probe, Clone, Attach, OpenClone, OpenData, Ctl, Bye
<1> HIDE DEF S
<1>2. Places(S, 1, 2, 3, 6, 7, Len(S) - 3)
  BY <1>1 DEF Places, Fids
<1>3. Strict(S, 7)
  BY <1>1 DEF Strict, Call, Step
<1>4. Makes(S, 1, 2, 3, 6, TRUE)
  BY <1>1 DEF Makes, Call, Step
<1>5. \A i \in 1 .. Len(S) : S[i] \in StepType
  BY <1>1 DEF Call, Step, StepType, Ops, Fids, Arg, OnErr, Bind
<1>6. Keeps(S, 1, 2, 6, Len(S) - 3, TRUE)
  BY <1>1, <1>5 DEF Keeps, Call, Step, Bind
<1>7. Forwards(S, 7, Len(S) - 3)
  BY <1>1 DEF Forwards, Call, Step
<1>8. QED
  <2>1. ("probe" # "bstatus") = TRUE
    OBVIOUS
  <2>2. Len(S) \in Nat
    BY <1>1
  <2>3. QED
    BY <1>2, <1>3, <1>4, <1>6, <1>7, <2>1, <2>2 DEF Planned, S

(* The conversation of do_iso_recv that must stay silent, and its read.       *)
Quiet(S) ==
  \A i \in 1 .. Len(S) :
    /\ S[i].op = "ctl" => i <= 20 /\ (S[i].fid = 2 => S[i].arg = "fake")
    /\ S[i].op # "clunk" /\ (S[i].how = "take" => S[i].tag = 0)
    /\ S[i].tag = 12 => S[i].op = "read" /\ S[i].how = "post" /\ S[i].fid = 12 /\ 20 < i

LEMMA IsoPlan == Planned("iso", Iso, 2, 12, 9, 13, 20, Len(Iso)) /\ Quiet(Iso)
<1> DEFINE S == Iso
<1>1. /\ Len(S) = 27
      /\ S[1] = Call("version", 0, "-", "quit") /\ S[2] = Call("attach", 0, "-", "quit")
      /\ S[3] = Call("walk", 1, "clone", "quit") /\ S[4] = Call("open", 1, "-", "quit")
      /\ S[5] = Call("num", 1, "-", "zero") /\ S[6] = Call("ctl", 1, "peer", "quit")
      /\ S[7] = Call("walk", 11, "data", "quit") /\ S[8] = Call("open", 11, "-", "quit")
      /\ S[9] = Call("walk", 2, "clone", "quit") /\ S[10] = Call("open", 2, "-", "quit")
      /\ S[11] = Call("num", 2, "-", "zero") /\ S[12] = Call("ctl", 2, "fake", "quit")
      /\ S[13] = Call("walk", 12, "data", "quit") /\ S[14] = Call("open", 12, "-", "quit")
      /\ S[15] = Call("walk", 3, "clone", "quit") /\ S[16] = Call("open", 3, "-", "quit")
      /\ S[17] = Call("num", 3, "-", "zero") /\ S[18] = Call("ctl", 3, "any", "quit")
      /\ S[19] = Call("walk", 13, "data", "quit") /\ S[20] = Call("open", 13, "-", "quit")
      /\ S[21] = Post("read", 11, "-", 11) /\ S[22] = Post("read", 12, "-", 12)
      /\ S[23] = Post("read", 13, "-", 13) /\ S[24] = RecvOne /\ S[25] = RecvOne /\ S[26] = RecvOne
      /\ S[27] = RecvOne
  BY DEF Iso, IsoConv, Attach, OpenClone, OpenData, Ctl
<1> HIDE DEF S
<1>2. Places(S, 2, 12, 9, 13, 20, Len(S))
  BY <1>1 DEF Places, Fids
<1>3. Strict(S, 20)
  BY <1>1 DEF Strict, Call, Step
<1>4. Makes(S, 2, 12, 9, 13, TRUE)
  BY <1>1 DEF Makes, Call, Step
<1>5. \A i \in 1 .. Len(S) : S[i] \in StepType
  BY <1>1 DEF RecvOne, Post, Call, Step, StepType, Ops, Fids, Arg, OnErr, Bind
<1>6. Keeps(S, 2, 12, 13, Len(S), TRUE)
  BY <1>1, <1>5 DEF Keeps, RecvOne, Post, Call, Step, Bind
<1>7. Forwards(S, 20, Len(S))
  BY <1>1 DEF Forwards, RecvOne, Post, Call, Step
<1>8. Quiet(S)
  BY <1>1 DEF Quiet, RecvOne, Post, Call, Step
<1>9. QED
  <2>1. ("iso" # "bstatus") = TRUE
    OBVIOUS
  <2>2. Len(S) \in Nat
    BY <1>1
  <2>3. QED
    BY <1>2, <1>3, <1>4, <1>6, <1>7, <1>8, <2>1, <2>2 DEF Planned, S

LEMMA DoStepTypes ==
  /\ Work(Loop("read")) /\ Loop("read") \in StepType
  /\ Work(Loop("write")) /\ Loop("write") \in StepType
  /\ Work(Call("write", 2, "-", "next")) /\ Call("write", 2, "-", "next") \in StepType
  /\ Work(Call("read", 2, "-", "end")) /\ Call("read", 2, "-", "end") \in StepType
BY DEF Work, StepType, Loop, Call, Step, Ops, Fids, Arg, OnErr

LEMMA HeldPlans ==
  /\ \A S \in {Bsend, Asend, Crecv, Bsendn, Brecv, Recv, Sendn, Sendbig} :
       \A m \in DOMAIN Script \ {"bstatus"} :
         Planned(m, S, 1, 2, 3, 7, 8, Len(S) - 3) /\ Clunks(S)
<1> SUFFICES ASSUME NEW m \in DOMAIN Script \ {"bstatus"}
             PROVE  \A S \in {Bsend, Asend, Crecv, Bsendn, Brecv, Recv, Sendn, Sendbig} :
                      Planned(m, S, 1, 2, 3, 7, 8, Len(S) - 3) /\ Clunks(S)
  OBVIOUS
<1>1. {"bcast", "any", "peer"} \subseteq Bind /\ 1 \in 1 .. 2 /\ 2 \in 1 .. 2 /\ m # "bstatus"
  BY DEF Bind
<1>2. ASSUME NEW b \in Bind, NEW x \in StepType, Work(x)
      PROVE  Planned(m, Held(b, <<x>>), 1, 2, 3, 7, 8, Len(Held(b, <<x>>)) - 3) /\ Clunks(Held(b, <<x>>))
  BY <1>1, <1>2, HeldOne, HeldPlan, Zenon
<1>3. ASSUME NEW b \in Bind, NEW x \in StepType, Work(x)
      PROVE  Planned(m, Held(b, <<x, x>>), 1, 2, 3, 7, 8, Len(Held(b, <<x, x>>)) - 3)
             /\ Clunks(Held(b, <<x, x>>))
  BY <1>1, <1>3, HeldTwo, HeldPlan, Zenon
<1>4. \A S \in {Bsend, Asend, Crecv} : Planned(m, S, 1, 2, 3, 7, 8, Len(S) - 3) /\ Clunks(S)
  BY <1>1, <1>2, DoStepTypes, Zenon DEF Bsend, Asend, Crecv
<1>5. \A S \in {Bsendn, Brecv, Recv, Sendn, Sendbig} :
        Planned(m, S, 1, 2, 3, 7, 8, Len(S) - 3) /\ Clunks(S)
  BY <1>1, <1>3, DoStepTypes, Zenon DEF Bsendn, Brecv, Recv, Sendn, Sendbig
<1>6. QED
  BY <1>4, <1>5, Zenon

(* Every script's plan.                                                      *)
LEMMA Plans ==
  ASSUME NEW m \in DOMAIN Script
  PROVE  /\ Planned(m, Script[m], CtlFid(m), DataFid(m), CloneAt(m), DataAt(m), SetUp(m), HeldTo(m))
         /\ m \in Careful => Clunks(Script[m])
         /\ m = "iso" => Quiet(Script[m])
<1>1. DOMAIN Script = Careful \cup {"hold", "concurrent", "bridge", "probe", "default", "iso"}
  BY DEF Script, Careful
<1>2. CASE m \in Careful \ {"bstatus"}
  <2>1. /\ CtlFid(m) = 1 /\ DataFid(m) = 2 /\ CloneAt(m) = 3 /\ DataAt(m) = 7 /\ SetUp(m) = 8
        /\ HeldTo(m) = Len(Script[m]) - 3 /\ m # "iso"
    BY <1>2 DEF CtlFid, DataFid, CloneAt, DataAt, SetUp, HeldTo, Careful
  <2>2. Script[m] \in {Bsend, Asend, Crecv, Bsendn, Brecv, Recv, Sendn, Sendbig}
    BY <1>2 DEF Script, Careful
  <2>3. QED
    BY <2>1, <2>2, <1>2, HeldPlans, Zenon
<1>3. CASE m = "bstatus"
  <2>1. /\ CtlFid(m) = 1 /\ DataFid(m) = 2 /\ CloneAt(m) = 3 /\ DataAt(m) = 7 /\ SetUp(m) = 8
        /\ HeldTo(m) = Len(Script[m]) - 3 /\ m # "iso" /\ Script[m] = Bstatus
    BY <1>3 DEF CtlFid, DataFid, CloneAt, DataAt, SetUp, HeldTo, Careful, Script
  <2>2. QED
    BY <2>1, <1>3, BstatusPlan, Zenon
<1>4. CASE m \in {"hold", "concurrent", "bridge", "probe", "default"}
  <2>1. /\ CtlFid(m) = 1 /\ DataFid(m) = 2 /\ CloneAt(m) = 3 /\ DataAt(m) = 6 /\ SetUp(m) = 7
        /\ m \notin Careful /\ m # "iso"
    BY <1>4 DEF CtlFid, DataFid, CloneAt, DataAt, SetUp, Careful
  <2>2. /\ m = "hold" => HeldTo(m) = 7 /\ Script[m] = Hold
        /\ m = "concurrent" => HeldTo(m) = 7 /\ Script[m] = Concurrent
        /\ m = "bridge" => HeldTo(m) = Len(Bridge) - 3 /\ Script[m] = Bridge
        /\ m = "probe" => HeldTo(m) = Len(Probe) - 3 /\ Script[m] = Probe
        /\ m = "default" => HeldTo(m) = 13 /\ Script[m] = Default
    BY DEF HeldTo, Careful, Script
  <2>3. QED
    BY <1>4, <2>1, <2>2, HoldPlan, ConcurrentPlan, BridgePlan, ProbePlan, DefaultPlan, Zenon
<1>5. CASE m = "iso"
  <2>1. /\ CtlFid(m) = 2 /\ DataFid(m) = 12 /\ CloneAt(m) = 9 /\ DataAt(m) = 13 /\ SetUp(m) = 20
        /\ HeldTo(m) = Len(Iso) /\ m \notin Careful /\ Script[m] = Iso
    BY <1>5 DEF CtlFid, DataFid, CloneAt, DataAt, SetUp, HeldTo, Careful, Script
  <2>2. QED
    BY <2>1, <1>5, IsoPlan, Zenon
<1>6. QED
  BY <1>1, <1>2, <1>3, <1>4, <1>5

-----------------------------------------------------------------------------
(* The operators the model is built from.                                    *)

LEMMA Below == IsWellFoundedOn({ss \in Nat \X Nat : ss[1] < ss[2]}, Nat)
BY NatLessThanWellFounded DEF OpToRel

LEMMA Least ==
  ASSUME NEW T \in SUBSET Nat, T # {}
  PROVE  Min(T) \in T /\ \A y \in T : Min(T) <= y
<1> DEFINE R == {ss \in Nat \X Nat : ss[1] < ss[2]}
<1>1. PICK x \in T : \A y \in T : <<y, x>> \notin R
  <2>1. IsWellFoundedOn(R, Nat)
    BY Below
  <2> HIDE DEF R
  <2>2. QED
    BY <2>1, WFMin, Zenon
<1>2. ASSUME NEW y \in T
      PROVE  x <= y
  <2>1. <<y, x>> \notin R
    BY <1>1
  <2>2. x \in Nat /\ y \in Nat
    OBVIOUS
  <2>3. ~(y < x)
    BY <2>1, <2>2
  <2>4. QED
    BY <2>2, <2>3
<1>3. QED
  BY <1>1, <1>2 DEF Min

(* What an order of a finite set is, and what its replies do to the pipe.     *)
LEMMA OrdersAre ==
  ASSUME NEW S, IsFiniteSet(S), NEW o \in Orders(S)
  PROVE  /\ Cardinality(S) \in Nat /\ o \in [1 .. Cardinality(S) -> S]
         /\ S = {} => Cardinality(S) = 0
<1>1. Cardinality(S) \in Nat
  BY FS_CardinalityType
<1>2. o \in [1 .. Cardinality(S) -> S]
  BY Zenon DEF Orders, Bijection, Injection
<1>3. S = {} => Cardinality(S) = 0
  BY FS_EmptySet
<1>4. QED
  BY <1>1, <1>2, <1>3

LEMMA Behindhand ==
  ASSUME NEW p \in Seq(Replies), NEW n \in Nat, NEW q \in [1 .. n -> Replies]
  PROVE  /\ p \o q \in Seq(Replies) /\ Len(p \o q) = Len(p) + n
         /\ n = 0 => p \o q = p
         /\ \A i \in 1 .. Len(p \o q) :
              \/ i <= Len(p) /\ (p \o q)[i] = p[i]
              \/ i > Len(p) /\ \E k \in 1 .. n : (p \o q)[i] = q[k]
<1>1. q \in Seq(Replies) /\ Len(q) = n
  OBVIOUS
<1>2. p \o q \in Seq(Replies) /\ Len(p \o q) = Len(p) + n
  BY <1>1
<1>3. ASSUME NEW i \in 1 .. Len(p \o q)
      PROVE  \/ i <= Len(p) /\ (p \o q)[i] = p[i]
             \/ i > Len(p) /\ \E k \in 1 .. n : (p \o q)[i] = q[k]
  <2>1. CASE i <= Len(p)
    BY <1>1, <1>2, <2>1
  <2>2. CASE i > Len(p)
    <3>1. i - Len(p) \in 1 .. n /\ (p \o q)[i] = q[i - Len(p)]
      BY <1>1, <1>2, <2>2
    <3>2. QED
      BY <2>2, <3>1
  <2>3. QED
    BY <2>1, <2>2, <1>2
<1>4. n = 0 => p \o q = p
  BY <1>1, <1>2, EmptySeq, ConcatEmptySeq
<1>5. QED
  BY <1>2, <1>3, <1>4

LEMMA Appended ==
  ASSUME NEW p \in Seq(Replies), NEW r \in Replies
  PROVE  /\ Append(p, r) \in Seq(Replies) /\ Len(p) \in Nat /\ Len(Append(p, r)) = Len(p) + 1
         /\ \A k \in 1 .. Len(p) : Append(p, r)[k] = p[k]
         /\ Append(p, r)[Len(p) + 1] = r
OBVIOUS

LEMMA Single ==
  ASSUME NEW p \in Seq(Replies), Len(p) = 1
  PROVE  p # <<>> /\ Tail(p) = <<>>
<1>1. p # <<>>
  <2>1. Len(<<>>) = 0
    BY EmptySeq
  <2>2. ASSUME p = <<>>
        PROVE  FALSE
    <3>1. Len(p) = Len(<<>>)
      BY <2>2, Zenon
    <3>2. QED
      BY <2>1, <3>1
  <2>3. QED
    BY <2>2
<1>2. Tail(p) \in Seq(Replies) /\ Len(Tail(p)) = 0
  BY <1>1, HeadTailProperties
<1>3. QED
  BY <1>1, <1>2, EmptySeq

(* A conversation's readers, and the conversations themselves, are finite.    *)
LEMMA Finite ==
  ASSUME TypeOK
  PROVE  /\ \A s \in Slot : IsFiniteSet(Mine(s)) /\ Mine(s) \subseteq 1 .. Len(parked[s])
                           /\ IsFiniteSet({0} \cup Mine(s))
         /\ \A T \in SUBSET Slot : IsFiniteSet(T)
<1>1. ASSUME NEW s \in Slot
      PROVE  /\ IsFiniteSet(Mine(s)) /\ Mine(s) \subseteq 1 .. Len(parked[s])
             /\ IsFiniteSet({0} \cup Mine(s))
  <2>1. Len(parked[s]) \in Nat /\ Mine(s) \subseteq 1 .. Len(parked[s])
    BY DEF TypeOK, Mine
  <2>2. IsFiniteSet(1 .. Len(parked[s]))
    BY <2>1, FS_Interval
  <2>3. IsFiniteSet(Mine(s))
    BY <2>1, <2>2, FS_Subset
  <2>4. IsFiniteSet(Mine(s) \cup {0})
    BY <2>3, FS_AddElement
  <2>5. {0} \cup Mine(s) = Mine(s) \cup {0}
    OBVIOUS
  <2>6. QED
    BY <2>1, <2>3, <2>4, <2>5
<1>2. IsFiniteSet(Slot)
  BY HostAssumption, FS_Interval DEF Slot
<1>3. QED
  BY <1>1, <1>2, FS_Subset

(* The slot a clone takes.                                                   *)
LEMMA FreeSlot ==
  ASSUME Free # {}, NEW s, s = CHOOSE x \in Free : \A y \in Free : x <= y
  PROVE  s \in Slot /\ ~conv[s].used
<1>1. Free \in SUBSET Nat
  BY DEF Free, Slot
<1>2. Min(Free) \in Free /\ \A y \in Free : Min(Free) <= y
  BY <1>1, Least
<1>3. \E x \in Free : \A y \in Free : x <= y
  BY <1>2
<1>4. s \in Free
  BY <1>3
<1>5. QED
  BY <1>4 DEF Free

-----------------------------------------------------------------------------
(* The tool's steps.                                                         *)

(* The script of the tool that runs, and its place in it.                     *)
LEMMA Here ==
  ASSUME TypeOK
  PROVE  /\ Planned(tool.name, script, CtlFid(tool.name), DataFid(tool.name), CloneAt(tool.name),
                    DataAt(tool.name), SetUp(tool.name), HeldTo(tool.name))
         /\ tool.name \in Careful => Clunks(script)
         /\ tool.name = "iso" => Quiet(script)
         /\ tool \in Tools /\ Len(script) \in Nat /\ tool.pc \in 0 .. Len(script)
         /\ On => tool.pc \in 1 .. Len(script) /\ cur = script[tool.pc] /\ cur \in StepType
<1>1. tool \in Tools /\ tool.name \in DOMAIN Script
  BY ModesAssumption DEF TypeOK, Tools
<1>2. /\ Planned(tool.name, script, CtlFid(tool.name), DataFid(tool.name), CloneAt(tool.name),
                 DataAt(tool.name), SetUp(tool.name), HeldTo(tool.name))
      /\ tool.name \in Careful => Clunks(script)
      /\ tool.name = "iso" => Quiet(script)
  BY <1>1, Plans, Zenon DEF script
<1>3. Len(script) \in Nat /\ \A i \in 1 .. Len(script) : script[i] \in StepType
  BY <1>2, Zenon DEF Planned, Keeps
<1>4. tool.pc \in Nat /\ tool.pc <= Len(script)
  BY <1>1 DEF TypeOK, Tools
<1>5. On => tool.pc \in 1 .. Len(script)
  BY <1>3, <1>4 DEF On
<1>6. QED
  BY <1>1, <1>2, <1>3, <1>4, <1>5 DEF cur

LEMMA AtFields ==
  ASSUME tool \in Tools, NEW p \in Nat
  PROVE  /\ At(p) \in Tools
         /\ At(p).name = tool.name /\ At(p).pc = p /\ At(p).phase = "top"
         /\ At(p).bound = tool.bound /\ At(p).killed = tool.killed
         /\ At(p).num = IF p = 0 THEN 0 ELSE tool.num
         /\ At(p).stop = IF p = 0 THEN FALSE ELSE tool.stop
         /\ At(p).stash = IF p = 0 THEN NoReply ELSE tool.stash
<1>1. NoReply \in Replies /\ 0 \in Slot
  BY HostAssumption DEF NoReply, Reply, Replies, Ops, Slot
<1>2. CASE p # 0
  BY <1>1, <1>2 DEF At, Tools
<1>3. CASE p = 0
  BY <1>1, <1>3 DEF At, Tools
<1>4. QED
  BY <1>2, <1>3

(* Where the search for the end of a failed part of the script may lead.      *)
LEMMA Targets ==
  ASSUME TypeOK, On
  PROVE  /\ Target("quit") = 0 /\ Target("clean") = Len(script) - 1 /\ Target("end") = Len(script) - 2
         /\ Target("next") = IF tool.pc = Len(script) THEN 0 ELSE tool.pc + 1
         /\ Target("zero") = Target("next")
         /\ cur.onErr = "over" => Target("over") \in tool.pc + 1 .. Len(script)
         /\ Target("drop") \in {0} \cup tool.pc + 1 .. Len(script)
<1>1. tool.pc \in 1 .. Len(script) /\ cur = script[tool.pc] /\ Len(script) \in Nat
  BY Here
<1>2. /\ Target("quit") = 0 /\ Target("clean") = Len(script) - 1 /\ Target("end") = Len(script) - 2
      /\ Target("next") = IF tool.pc = Len(script) THEN 0 ELSE tool.pc + 1
      /\ Target("zero") = Target("next")
  BY DEF Target
<1>3. ASSUME cur.onErr = "over"
      PROVE  Target("over") \in tool.pc + 1 .. Len(script)
  <2> DEFINE T == {i \in tool.pc .. Len(script) : script[i].op = "clunk" /\ script[i].fid = cur.fid}
  <2>1. Target("over") = 1 + (IF T # {} THEN Min(T) ELSE 0)
    BY Zenon DEF Target, SelectInSubSeq
  <2>2. PICK j \in tool.pc .. Len(script) - 1 : script[j].op = "clunk" /\ script[j].fid = cur.fid
    BY <1>1, <1>3, Here DEF Planned, Forwards
  <2>3. T # {} /\ T \in SUBSET Nat
    BY <1>1, <2>2
  <2>4. Min(T) \in T
    BY <2>3, Least
  <2>5. Min(T) < Len(script)
    <3>1. Min(T) <= j
      BY <1>1, <2>2, <2>3, Least
    <3>2. QED
      BY <3>1, <2>2, <2>4, <1>1
  <2>6. QED
    BY <2>1, <2>3, <2>4, <2>5, <1>1
<1>4. Target("drop") \in {0} \cup tool.pc + 1 .. Len(script)
  <2> DEFINE T == {i \in tool.pc + 1 .. Len(script) : script[i].how = "wait" /\ script[i].onErr = "end"}
  <2>1. Target("drop") = IF T # {} THEN Min(T) ELSE 0
    BY Zenon DEF Target, SelectInSubSeq
  <2>2. T \in SUBSET Nat
    BY <1>1
  <2>3. T # {} => Min(T) \in T
    BY <2>2, Least
  <2>4. QED
    BY <2>1, <2>3
<1>5. QED
  BY <1>2, <1>3, <1>4

(* A step goes on, leads forward or out of what the conversation is held for. *)
Leads(p) ==
  /\ p \in 0 .. Len(script)
  /\ p # 0 /\ tool.pc > SetUp(tool.name) => p > HeldTo(tool.name) \/ p > tool.pc
  /\ tool.name \in Careful =>
       /\ tool.pc < 6 => p \in {0, tool.pc + 1}
       /\ tool.pc >= 6 => p \in {Len(script) - 2, Len(script) - 1, Target("next")}

LEMMA Leading ==
  ASSUME TypeOK, On
  PROVE  /\ Leads(Target("next"))
         /\ tool.pc <= SetUp(tool.name) => Target("next") \in {0, tool.pc + 1}
         /\ Leads(Target(cur.onErr))
         /\ tool.pc <= SetUp(tool.name) /\ Target(cur.onErr) # 0 =>
              \/ Target(cur.onErr) > HeldTo(tool.name)
              \/ Target(cur.onErr) = tool.pc + 1 /\ cur.op = "num"
         /\ cur.how = "loop" => tool.pc > SetUp(tool.name) /\ Leads(Target("end"))
         /\ cur.onErr = "drop" => tool.pc > SetUp(tool.name)
         /\ cur.how \in {"take", "wait", "post", "pause"} =>
              tool.pc > SetUp(tool.name) /\ tool.name \notin Careful
<1> PICK m, n, i, up, held : /\ m = tool.name /\ n = Len(script) /\ i = tool.pc
                             /\ up = SetUp(m) /\ held = HeldTo(m)
  OBVIOUS
<1>1. /\ n \in Nat /\ i \in 1 .. n /\ cur = script[i] /\ cur \in StepType
      /\ up \in Nat /\ held \in Nat /\ up <= held /\ held <= n /\ up > 6
  <2>1. n \in Nat /\ i \in 1 .. n /\ cur = script[i] /\ cur \in StepType
    BY Here
  <2>2. Places(script, CtlFid(m), DataFid(m), CloneAt(m), DataAt(m), up, held)
    BY Here DEF Planned
  <2>3. QED
    BY <2>1, <2>2 DEF Places
<1>2. /\ cur.onErr = "clean" => held < n - 1
      /\ cur.onErr = "end" \/ cur.how = "loop" => up < i /\ held < n - 2
      /\ cur.onErr = "drop" => up < i
      /\ cur.onErr = "over" => up < i
  BY <1>1, Here DEF Planned, Forwards
<1>3. i <= up => cur.how = "rpc" /\ cur.onErr \in {"quit", "clean", "zero"}
                 /\ (cur.onErr = "zero" => cur.op = "num")
  BY <1>1, Here DEF Planned, Strict
<1>4. m \in Careful =>
        /\ n >= 9 /\ cur.how \in {"rpc", "loop"}
        /\ i < 6 => cur.onErr \in {"quit", "zero"}
        /\ i >= 6 => cur.onErr \in {"clean", "end", "next"}
  BY <1>1, Here DEF Clunks
<1>5. /\ Target("quit") = 0 /\ Target("clean") = n - 1 /\ Target("end") = n - 2
      /\ Target("next") = IF i = n THEN 0 ELSE i + 1
      /\ Target("zero") = Target("next")
      /\ cur.onErr = "over" => Target("over") \in i + 1 .. n
      /\ Target("drop") \in {0} \cup i + 1 .. n
  BY Targets
<1>6. cur.onErr \in OnErr
  BY <1>1 DEF StepType
<1>7. cur.how = "loop" => n - 2 \in 0 .. n
  BY <1>1, <1>2
<1>8. Leads(Target("next")) /\ (i <= up => Target("next") \in {0, i + 1})
  <2>1. Target("next") \in 0 .. n
    BY <1>1, <1>5
  <2>2. Target("next") # 0 => Target("next") > i
    BY <1>1, <1>5
  <2>3. i < 6 => Target("next") \in {0, i + 1}
    BY <1>5
  <2>4. QED
    BY <2>1, <2>2, <2>3, <1>5 DEF Leads
<1>9. CASE cur.onErr = "quit"
  BY <1>1, <1>2, <1>3, <1>4, <1>5, <1>7, <1>8, <1>9 DEF Leads
<1>10. CASE cur.onErr = "clean"
  BY <1>1, <1>2, <1>3, <1>4, <1>5, <1>7, <1>8, <1>10 DEF Leads
<1>11. CASE cur.onErr = "end"
  BY <1>1, <1>2, <1>3, <1>4, <1>5, <1>7, <1>8, <1>11 DEF Leads
<1>12. CASE cur.onErr = "over"
  BY <1>1, <1>2, <1>3, <1>4, <1>5, <1>7, <1>8, <1>12 DEF Leads
<1>13. CASE cur.onErr = "drop"
  BY <1>1, <1>2, <1>3, <1>4, <1>5, <1>7, <1>8, <1>13 DEF Leads
<1>14. CASE cur.onErr = "next"
  BY <1>1, <1>2, <1>3, <1>4, <1>5, <1>7, <1>8, <1>14, SMTT(30) DEF Leads
<1>15. CASE cur.onErr = "zero"
  BY <1>1, <1>2, <1>3, <1>4, <1>5, <1>7, <1>8, <1>15 DEF Leads
<1>16. QED
  BY <1>6, <1>9, <1>10, <1>11, <1>12, <1>13, <1>14, <1>15 DEF OnErr

(* What the steps of the tool alone have in common: it stays at its call, is   *)
(* killed, or goes where its call's outcome leads.                            *)
Stays ==
  /\ tool'.pc = tool.pc /\ tool'.num = tool.num
  /\ (tool'.phase = "top" <=> tool.phase = "top") \/ cur.how \in {"take", "wait"}
  /\ pipe' = pipe \/ (cur.how = "take" /\ pipe # <<>> /\ pipe' = Tail(pipe))

Dies == tool'.pc = 0 /\ tool'.killed /\ pipe' = pipe

Goes ==
  /\ Leads(tool'.pc) /\ tool'.phase = "top" /\ tool'.killed = tool.killed
  /\ tool.phase # "top" \/ cur.how \in {"loop", "take"}
  /\ pipe' = pipe \/ (pipe # <<>> /\ pipe' = Tail(pipe))
  /\ tool.pc <= SetUp(tool.name) =>
       \/ /\ pipe # <<>> /\ pipe' = Tail(pipe) /\ Succeeds(Head(pipe))
          /\ tool'.pc \in {0, tool.pc + 1}
          /\ tool'.pc # 0 => tool'.num = IF cur.op = "num" THEN Head(pipe).n ELSE tool.num
       \/ /\ pipe' = pipe \/ (pipe # <<>> /\ pipe' = Tail(pipe) /\ ~Succeeds(Head(pipe)))
          /\ tool'.pc # 0 =>
               tool'.pc > HeldTo(tool.name) \/ (tool'.pc = tool.pc + 1 /\ cur.op = "num")

Moves ==
  /\ On /\ UNCHANGED <<run, nodeVars, rx>>
  /\ tool' \in Tools /\ tool'.name = tool.name /\ tool'.bound = tool.bound
  /\ tool'.pc <= Len(script)
  /\ Stays \/ Dies \/ Goes

LEMMA After ==
  ASSUME TypeOK, tool.pc > SetUp(tool.name)
  PROVE  ~(tool.pc <= SetUp(tool.name))
<1>1. PICK u, i : u = SetUp(tool.name) /\ i = tool.pc
  OBVIOUS
<1>2. u \in Nat /\ i \in Nat
  BY <1>1, Here DEF Planned, Places
<1>3. QED
  BY <1>1, <1>2

LEMMA EarlyCalls ==
  ASSUME TypeOK, On, tool.pc <= SetUp(tool.name)
  PROVE  cur.how = "rpc" /\ cur.op \in {"version", "attach", "walk", "open", "num", "ctl"}
<1> PICK up : up = SetUp(tool.name)
  OBVIOUS
<1>1. up \in Nat /\ tool.pc \in Nat \ {0} /\ cur = script[tool.pc] /\ Strict(script, up)
  BY Here DEF Planned, Places
<1>2. tool.pc \in 1 .. up
  BY <1>1
<1>3. QED
  BY <1>1, <1>2 DEF Strict

LEMMA LeaveLoopMoves ==
  ASSUME TypeOK, LeaveLoop
  PROVE  Moves
<1>1. /\ On /\ cur.how = "loop" /\ tool' = At(Target("end")) /\ UNCHANGED <<run, nodeVars, rx, pipe>>
      /\ tool \in Tools
  BY DEF LeaveLoop, Stopped, TypeOK
<1>2. tool.pc > SetUp(tool.name) /\ Leads(Target("end"))
  BY <1>1, Leading
<1>3. PICK p \in 0 .. Len(script) : p = Target("end") /\ Leads(p)
  BY <1>2 DEF Leads
<1>4. p \in Nat
  BY Here
<1>5. /\ tool' \in Tools /\ tool'.name = tool.name /\ tool'.pc = p /\ tool'.phase = "top"
      /\ tool'.bound = tool.bound /\ tool'.killed = tool.killed
  BY <1>1, <1>3, <1>4, AtFields
<1>6. ~(tool.pc <= SetUp(tool.name))
  BY <1>2, After
<1>7. p <= Len(script)
  BY <1>3, Here
<1>8. QED
  BY <1>1, <1>3, <1>5, <1>6, <1>7 DEF Moves, Goes

LEMMA TakeStashMoves ==
  ASSUME TypeOK, TakeStash
  PROVE  Moves
<1>1. /\ On /\ cur.how = "take" /\ tool' = [NextStep EXCEPT !.stash = NoReply]
      /\ UNCHANGED <<run, nodeVars, rx, pipe>> /\ tool \in Tools
  BY DEF TakeStash, Stashed, TypeOK
<1>2. tool.pc > SetUp(tool.name) /\ Leads(Target("next"))
  BY <1>1, Leading
<1>3. PICK p \in 0 .. Len(script) : p = Target("next") /\ Leads(p)
  BY <1>2 DEF Leads
<1>4. p \in Nat
  BY Here
<1>5. /\ At(p) \in Tools /\ At(p).name = tool.name /\ At(p).pc = p /\ At(p).phase = "top"
      /\ At(p).bound = tool.bound /\ At(p).killed = tool.killed
  BY <1>1, <1>4, AtFields
<1>6. PICK t : t = At(p) /\ t = NextStep
  BY <1>3 DEF NextStep
<1>7. NoReply \in Replies
  BY DEF NoReply, Reply, Replies, Ops
<1>8. /\ tool' \in Tools /\ tool'.name = tool.name /\ tool'.pc = p /\ tool'.phase = "top"
      /\ tool'.bound = tool.bound /\ tool'.killed = tool.killed
  BY <1>1, <1>5, <1>6, <1>7 DEF Tools
<1>9. ~(tool.pc <= SetUp(tool.name)) /\ p <= Len(script)
  BY <1>2, After, Here
<1>10. QED
  BY <1>1, <1>3, <1>8, <1>9 DEF Moves, Goes

LEMMA BlockMoves ==
  ASSUME TypeOK, Block
  PROVE  Moves
<1>1. /\ On /\ tool' = [tool EXCEPT !.phase = "wait"] /\ UNCHANGED <<run, nodeVars, rx, pipe>>
      /\ tool \in Tools
      /\ \/ tool.phase = "sent"
         \/ tool.phase = "top" /\ cur.how \in {"take", "wait"}
  BY DEF Block, TypeOK
<1>2. /\ tool' \in Tools /\ tool'.name = tool.name /\ tool'.pc = tool.pc /\ tool'.phase = "wait"
      /\ tool'.bound = tool.bound /\ tool'.num = tool.num
  BY <1>1 DEF Tools
<1>3. tool.pc <= Len(script)
  BY Here
<1>4. Stays
  BY <1>1, <1>2 DEF Stays
<1>5. QED
  BY <1>1, <1>2, <1>3, <1>4 DEF Moves

LEMMA KillMoves ==
  ASSUME TypeOK, Kill
  PROVE  Moves
<1>1. /\ On /\ tool' = [At(0) EXCEPT !.killed = TRUE] /\ UNCHANGED <<run, nodeVars, rx, pipe>>
      /\ tool \in Tools
  BY DEF Kill, TypeOK
<1>2. PICK t : t = At(0)
  OBVIOUS
<1>3. t \in Tools /\ t.name = tool.name /\ t.pc = 0 /\ t.bound = tool.bound
  BY <1>1, <1>2, AtFields
<1>4. /\ tool' \in Tools /\ tool'.name = tool.name /\ tool'.pc = 0
      /\ tool'.bound = tool.bound /\ tool'.killed = TRUE
  BY <1>1, <1>2, <1>3 DEF Tools
<1>5. 0 <= Len(script)
  BY Here
<1>6. Dies
  BY <1>1, <1>4 DEF Dies
<1>7. QED
  BY <1>1, <1>4, <1>5, <1>6 DEF Moves

LEMMA ClientMoves ==
  ASSUME TypeOK, Client
  PROVE  Moves
<1>1. /\ On /\ cur.how = "wait" /\ tool.phase = "wait" /\ UNCHANGED <<run, nodeVars, rx, pipe>>
      /\ tool \in Tools
      /\ tool' = At(Target("next")) \/ (cur.onErr = "drop" /\ tool' = At(Target(cur.onErr)))
  BY DEF Client, NextStep, TypeOK
<1>2. tool.pc > SetUp(tool.name) /\ Leads(Target("next")) /\ Leads(Target(cur.onErr))
  BY <1>1, Leading
<1>3. PICK p \in 0 .. Len(script) : tool' = At(p) /\ Leads(p)
  BY <1>1, <1>2 DEF Leads
<1>4. p \in Nat
  BY Here
<1>5. /\ tool' \in Tools /\ tool'.name = tool.name /\ tool'.pc = p /\ tool'.phase = "top"
      /\ tool'.bound = tool.bound /\ tool'.killed = tool.killed
  BY <1>1, <1>3, <1>4, AtFields
<1>6. ~(tool.pc <= SetUp(tool.name)) /\ p <= Len(script)
  BY <1>2, After, Here
<1>7. ("wait" # "top") = TRUE
  OBVIOUS
<1>8. QED
  BY <1>1, <1>3, <1>5, <1>6, <1>7 DEF Moves, Goes

LEMMA TakeReplyMoves ==
  ASSUME TypeOK, InOrder, TakeReply
  PROVE  Moves
<1> PICK r : r = Head(pipe)
  OBVIOUS
<1>1. /\ On /\ tool.phase = "wait" /\ pipe # <<>> /\ cur.how \in {"rpc", "loop"}
      /\ pipe' = Tail(pipe) /\ UNCHANGED <<run, nodeVars, rx>> /\ tool \in Tools /\ pipe \in Seq(Replies)
  BY DEF TakeReply, TypeOK
<1>2. r = pipe[1] /\ r \in Replies /\ Len(pipe) >= 1
  BY <1>1
<1>3. PICK t : t = CASE ~Succeeds(r) -> Target(cur.onErr)
                     [] Succeeds(r) /\ cur.how = "loop" /\ cur.op = "read" /\ r.n = 0 -> Target("end")
                     [] OTHER -> Target("next")
  OBVIOUS
<1>4. tool' = [At(t) EXCEPT !.num = IF cur.op # "num" THEN @ ELSE IF Succeeds(r) THEN r.n ELSE 0]
  BY <1>3 DEF TakeReply
<1>5. \/ ~Succeeds(r) /\ t = Target(cur.onErr)
      \/ Succeeds(r) /\ cur.how = "loop" /\ t = Target("end")
      \/ Succeeds(r) /\ t = Target("next")
  BY <1>3, Zenon
<1>6. Leads(t)
  BY <1>1, <1>5, Leading
<1>7. PICK p \in 0 .. Len(script) : p = t /\ Leads(p)
  BY <1>6 DEF Leads
<1>8. p \in Nat /\ p <= Len(script)
  BY Here
<1>9. cur.op = "num" => r.op = "num" /\ r.n \in Slot
  <2>1. cur.op = "num" => tool.pc <= SetUp(tool.name)
    BY <1>1, Here DEF Planned, Forwards
  <2>2. cur.op = "num" => r.op = "num"
    BY <1>1, <1>2, <2>1 DEF InOrder, Behind
  <2>3. QED
    BY <1>2, <2>2 DEF TypeOK
<1>10. PICK b : b = At(p)
  OBVIOUS
<1>11. /\ b \in Tools /\ b.name = tool.name /\ b.pc = p /\ b.phase = "top"
       /\ b.bound = tool.bound /\ b.killed = tool.killed /\ b.num = IF p = 0 THEN 0 ELSE tool.num
  BY <1>1, <1>8, <1>10, AtFields
<1>12. PICK n : n = IF cur.op # "num" THEN b.num ELSE IF Succeeds(r) THEN r.n ELSE 0
  OBVIOUS
<1>13. n \in Slot
  BY <1>9, <1>11, <1>12, HostAssumption DEF Slot, Tools
<1>14. tool' = [b EXCEPT !.num = n]
  BY <1>4, <1>7, <1>10, <1>12, Zenon
<1>15. /\ tool' \in Tools /\ tool'.name = tool.name /\ tool'.pc = p /\ tool'.phase = "top"
       /\ tool'.bound = tool.bound /\ tool'.killed = tool.killed /\ tool'.num = n
  BY <1>11, <1>13, <1>14 DEF Tools
<1>16. ASSUME tool.pc <= SetUp(tool.name)
       PROVE  \/ /\ Succeeds(r) /\ p \in {0, tool.pc + 1}
                 /\ p # 0 => n = IF cur.op = "num" THEN r.n ELSE tool.num
              \/ ~Succeeds(r) /\ (p # 0 => p > HeldTo(tool.name) \/ (p = tool.pc + 1 /\ cur.op = "num"))
  <2>1. ~(cur.how = "loop")
    BY <1>1, <1>16, Leading, After
  <2>2. CASE ~Succeeds(r) /\ t = Target(cur.onErr)
    BY <1>1, <1>7, <1>16, <2>2, Leading
  <2>3. CASE Succeeds(r) /\ t = Target("next")
    BY <1>1, <1>7, <1>11, <1>12, <1>16, <2>3, Leading
  <2>4. QED
    BY <1>5, <2>1, <2>2, <2>3
<1>17. Goes
  <2>1. tool.phase # "top"
    BY <1>1
  <2>2. QED
    BY <1>1, <1>7, <1>15, <1>16, <2>1, Zenon DEF Goes
<1>18. QED
  BY <1>1, <1>8, <1>15, <1>17 DEF Moves

LEMMA TakeTaggedMoves ==
  ASSUME TypeOK, TakeTagged
  PROVE  Moves
<1>1. /\ On /\ cur.how = "take" /\ tool.phase = "wait" /\ pipe # <<>> /\ pipe' = Tail(pipe)
      /\ UNCHANGED <<run, nodeVars, rx>> /\ tool \in Tools /\ pipe \in Seq(Replies)
      /\ tool' = NextStep \/ tool' = Keep(Head(pipe))
  BY DEF TakeTagged, TypeOK
<1>2. tool.pc > SetUp(tool.name) /\ Leads(Target("next"))
  BY <1>1, Leading
<1>3. ~(tool.pc <= SetUp(tool.name)) /\ tool.pc <= Len(script)
  BY <1>2, After, Here
<1>4. CASE tool' = NextStep
  <2>1. PICK p \in 0 .. Len(script) : tool' = At(p) /\ Leads(p)
    BY <1>2, <1>4 DEF Leads, NextStep
  <2>2. p \in Nat /\ p <= Len(script)
    BY Here
  <2>3. /\ tool' \in Tools /\ tool'.name = tool.name /\ tool'.pc = p /\ tool'.phase = "top"
        /\ tool'.bound = tool.bound /\ tool'.killed = tool.killed
    BY <1>1, <2>1, <2>2, AtFields
  <2>4. ("wait" # "top") = TRUE
    OBVIOUS
  <2>5. QED
    BY <1>1, <1>3, <2>1, <2>2, <2>3, <2>4 DEF Moves, Goes
<1>5. CASE tool' = Keep(Head(pipe))
  <2>1. Head(pipe) \in Replies
    BY <1>1
  <2>2. /\ tool' \in Tools /\ tool'.name = tool.name /\ tool'.pc = tool.pc
        /\ tool'.bound = tool.bound /\ tool'.num = tool.num
    BY <1>1, <1>5, <2>1 DEF Tools, Keep
  <2>3. Stays
    BY <1>1, <2>2 DEF Stays
  <2>4. QED
    BY <1>1, <1>3, <2>2, <2>3 DEF Moves
<1>6. QED
  BY <1>1, <1>4, <1>5

LEMMA SignalMoves ==
  ASSUME TypeOK, Signal
  PROVE  Moves
<1> PICK interrupted \in Interrupts :
      tool' = [IF interrupted THEN At(Target(cur.onErr)) ELSE tool EXCEPT
                  !.stop = TRUE,
                  !.num = IF interrupted /\ cur.op = "num" THEN 0 ELSE @,
                  !.cut = @ \/ (tool.phase = "wait" /\ cur.op = "read")]
  BY DEF Signal
<1>1. On /\ UNCHANGED <<run, nodeVars, pipe, rx>> /\ tool \in Tools
  BY DEF Signal, TypeOK
<1>2. interrupted \in BOOLEAN /\ (interrupted => tool.phase = "wait")
  BY DEF Interrupts
<1>3. Leads(Target(cur.onErr))
  BY <1>1, Leading
<1>4. PICK p \in 0 .. Len(script) : p = Target(cur.onErr) /\ Leads(p)
  BY <1>3 DEF Leads
<1>5. p \in Nat /\ p <= Len(script) /\ tool.pc <= Len(script)
  BY Here
<1>6. PICK b : b = IF interrupted THEN At(p) ELSE tool
  OBVIOUS
<1>7. /\ b \in Tools /\ b.name = tool.name /\ b.bound = tool.bound /\ b.killed = tool.killed
      /\ interrupted => b.pc = p /\ b.phase = "top"
      /\ ~interrupted => b.pc = tool.pc /\ b.phase = tool.phase /\ b.num = tool.num
  BY <1>1, <1>2, <1>5, <1>6, AtFields
<1>8. PICK n : n = IF interrupted /\ cur.op = "num" THEN 0 ELSE b.num
  OBVIOUS
<1>9. PICK k : k = (b.cut \/ (tool.phase = "wait" /\ cur.op = "read"))
  OBVIOUS
<1>10. n \in Slot /\ k \in BOOLEAN /\ (~interrupted => n = tool.num)
  BY <1>2, <1>7, <1>8, <1>9, HostAssumption DEF Slot, Tools
<1>11. tool' = [b EXCEPT !.stop = TRUE, !.num = n, !.cut = k]
  BY <1>4, <1>6, <1>8, <1>9, Zenon
<1>12. tool' \in Tools
  BY <1>7, <1>10, <1>11 DEF Tools
<1>13. /\ tool'.name = tool.name /\ tool'.bound = tool.bound /\ tool'.killed = tool.killed
       /\ tool'.pc = b.pc /\ tool'.phase = b.phase /\ tool'.num = n
  BY <1>7, <1>11 DEF Tools
<1>14. CASE interrupted
  <2>1. tool.pc <= SetUp(tool.name) /\ p # 0 =>
          p > HeldTo(tool.name) \/ (p = tool.pc + 1 /\ cur.op = "num")
    BY <1>1, <1>4, Leading
  <2>2. tool.phase # "top"
    BY <1>2, <1>14
  <2>3. tool'.pc = p /\ tool'.phase = "top"
    BY <1>7, <1>13, <1>14
  <2>4. Goes
    BY <1>1, <1>4, <1>13, <2>1, <2>2, <2>3, Zenon DEF Goes
  <2>5. QED
    BY <1>1, <1>5, <1>12, <1>13, <2>3, <2>4 DEF Moves
<1>15. CASE ~interrupted
  <2>1. Stays
    BY <1>1, <1>7, <1>10, <1>13, <1>15 DEF Stays
  <2>2. tool'.pc <= Len(script)
    BY <1>5, <1>7, <1>13, <1>15
  <2>3. QED
    BY <1>1, <1>12, <1>13, <2>1, <2>2 DEF Moves
<1>16. QED
  BY <1>2, <1>14, <1>15

(* What such a step preserves.                                               *)
LEMMA MovesType ==
  ASSUME TypeOK, Moves
  PROVE  TypeOK'
<1>1. pipe \in Seq(Replies) /\ (pipe' = pipe \/ (pipe # <<>> /\ pipe' = Tail(pipe)))
  BY DEF TypeOK, Moves, Stays, Dies, Goes
<1>2. pipe' \in Seq(Replies) /\ \A i \in 1 .. Len(pipe') : pipe'[i].op = "num" => pipe'[i].n \in Slot
  <2>1. CASE pipe' = pipe
    BY <2>1 DEF TypeOK
  <2>2. CASE pipe # <<>> /\ pipe' = Tail(pipe)
    <3>1. /\ pipe' \in Seq(Replies) /\ Len(pipe') = Len(pipe) - 1
          /\ \A i \in 1 .. Len(pipe') : pipe'[i] = pipe[i + 1]
      BY <1>1, <2>2
    <3>2. Len(pipe) \in Nat /\ \A i \in 1 .. Len(pipe) : pipe[i].op = "num" => pipe[i].n \in Slot
      BY <1>1 DEF TypeOK
    <3>3. QED
      BY <3>1, <3>2
  <2>3. QED
    BY <1>1, <2>1, <2>2
<1>3. script' = script
  BY DEF script, Moves
<1>4. tool' \in Tools /\ tool'.pc <= Len(script')
  BY <1>3 DEF Moves
<1>5. UNCHANGED <<run, conv, fid, parked, rx>>
  BY DEF Moves, nodeVars
<1>6. QED
  BY <1>2, <1>4, <1>5 DEF TypeOK

LEMMA MovesApart ==
  ASSUME TypeOK, RunsApart, CtlFidsApart, PostsGoOn, Moves
  PROVE  RunsApart' /\ CtlFidsApart' /\ PostsGoOn'
<1>1. On /\ UNCHANGED <<run, conv, fid, parked>> /\ tool'.bound = tool.bound /\ script' = script
  BY DEF Moves, nodeVars, script
<1>2. RunsApart' /\ CtlFidsApart'
  BY <1>1 DEF RunsApart, CtlFidsApart
<1>3. PostsGoOn'
  <2>1. CASE Stays
    <3>1. cur' = cur
      BY <1>1, <2>1 DEF Stays, cur
    <3>2. QED
      BY <1>1, <2>1, <3>1 DEF PostsGoOn, Stays, On
  <2>2. CASE Dies \/ Goes
    BY <2>2 DEF Dies, Goes, PostsGoOn, On
  <2>3. QED
    BY <2>1, <2>2 DEF Moves
<1>4. QED
  BY <1>2, <1>3

LEMMA MovesInOrder ==
  ASSUME TypeOK, InOrder, Moves
  PROVE  InOrder'
<1> PICK S, up, held, i : S = script /\ up = SetUp(tool.name) /\ held = HeldTo(tool.name) /\ i = tool.pc
  OBVIOUS
<1>1. /\ On /\ script' = S /\ SetUp(tool'.name) = up /\ UNCHANGED <<run, parked>>
      /\ i \in 1 .. Len(S) /\ up \in Nat /\ held \in Nat /\ up <= held /\ cur = S[i]
      /\ pipe \in Seq(Replies)
  <2>1. Planned(tool.name, S, CtlFid(tool.name), DataFid(tool.name), CloneAt(tool.name),
                DataAt(tool.name), up, held)
    BY Here
  <2>2. up \in Nat /\ held \in Nat /\ up <= held
    BY <2>1 DEF Planned, Places
  <2>3. QED
    BY <2>2, Here DEF Moves, nodeVars, script, TypeOK
<1>2. \A s \in Slot : Mine(s)' = Mine(s)
  BY <1>1 DEF Mine
<1>3. Strict(S, up)
  BY Here DEF Planned
<1> SUFFICES ASSUME On', tool'.pc <= up
             PROVE  /\ \A s \in Slot : Mine(s)' = {}
                    /\ \/ tool'.phase = "top" /\ pipe' = <<>>
                       \/ tool'.phase # "top" /\ Len(pipe') = 1 /\ pipe'[1].op = cur'.op
                       \/ Behind' /\ tool'.pc > 1 /\ script'[tool'.pc - 1].op = "num"
  BY <1>1, Zenon DEF InOrder
<1>4. CASE Stays
  <2>1. tool'.pc = i /\ i <= up /\ cur' = cur
    BY <1>1, <1>4 DEF Stays, cur
  <2>2. cur.how = "rpc"
    BY <1>1, <1>3, <2>1 DEF Strict
  <2>3. pipe' = pipe /\ (tool'.phase = "top" <=> tool.phase = "top")
    BY <1>4, <2>2 DEF Stays
  <2>4. Behind' = Behind
    BY <2>1, <2>3 DEF Behind
  <2>5. QED
    BY <1>1, <1>2, <2>1, <2>3, <2>4 DEF InOrder
<1>5. CASE Dies
  BY <1>5 DEF Dies, On
<1>6. CASE Goes
  <2>1. i <= up /\ tool'.pc <= held /\ tool'.pc # 0 /\ tool'.pc \in Nat
    <3>1. tool'.pc \in Nat
      BY <1>1, Here DEF Moves, Tools
    <3>2. tool'.pc # 0 /\ tool'.pc <= held
      BY <1>1, <3>1 DEF On
    <3>3. i > up => tool'.pc > held \/ tool'.pc > i
      BY <1>6, <3>2 DEF Goes, Leads
    <3>4. QED
      BY <1>1, <3>1, <3>2, <3>3
  <2>2. cur.how = "rpc" /\ cur.op \in {"version", "attach", "walk", "open", "num", "ctl"}
    BY <1>1, <1>3, <2>1 DEF Strict
  <2>3. tool.phase # "top" /\ tool'.phase = "top"
    BY <1>6, <2>2 DEF Goes
  <2>4. /\ \A s \in Slot : Mine(s) = {}
        /\ \/ Len(pipe) = 1 /\ pipe[1].op = cur.op
           \/ Behind /\ i > 1 /\ S[i - 1].op = "num"
    BY <1>1, <2>1, <2>3 DEF InOrder
  <2>5. Behind => ~Succeeds(Head(pipe)) /\ cur.op # "num"
    <3>1. ASSUME Behind
          PROVE  ~Succeeds(Head(pipe)) /\ cur.op # "num"
      <4>1. Head(pipe).op = "num" /\ cur.op # "num"
        BY <1>1, <3>1 DEF Behind
      <4>2. QED
        BY <2>2, <4>1 DEF Succeeds, ReplyType
    <3>2. QED
      BY <3>1
  <2>6. CASE Behind
    BY <1>1, <1>6, <2>1, <2>5, <2>6 DEF Goes
  <2>7. CASE Len(pipe) = 1 /\ pipe[1].op = cur.op
    <3>1. pipe # <<>> /\ Tail(pipe) = <<>>
      BY <1>1, <2>7, Single
    <3>2. CASE pipe' = Tail(pipe)
      BY <1>2, <2>3, <2>4, <2>7, <3>1, <3>2
    <3>3. CASE pipe' = pipe /\ pipe' # Tail(pipe)
      <4>1. tool'.pc = i + 1 /\ cur.op = "num"
        BY <1>1, <1>6, <2>1, <3>3 DEF Goes
      <4>2. S[i + 1].op # "num"
        BY <1>1, <1>3, <2>1, <4>1 DEF Strict
      <4>3. cur' = S[i + 1]
        BY <1>1, <4>1 DEF cur
      <4>4. Behind'
        BY <2>7, <3>1, <3>3, <4>1, <4>2, <4>3 DEF Behind
      <4>5. QED
        BY <1>1, <1>2, <2>4, <4>1, <4>4
    <3>4. QED
      BY <1>6, <3>2, <3>3 DEF Goes
  <2>8. QED
    BY <2>4, <2>6, <2>7
<1>7. QED
  BY <1>4, <1>5, <1>6 DEF Moves

LEMMA MovesHolds ==
  ASSUME TypeOK, InOrder, Holds, Moves
  PROVE  /\ Holds'
         /\ \A w \in Nat : /\ On' /\ tool'.pc <= HeldTo(tool.name)
                          /\ w = CloneAt(tool.name) /\ Got(w)' => Got(w)
<1> PICK m, S, c, d, w, a, up, held, i :
      /\ m = tool.name /\ S = script /\ c = CtlFid(m) /\ d = DataFid(m) /\ w = CloneAt(m)
      /\ a = DataAt(m) /\ up = SetUp(m) /\ held = HeldTo(m) /\ i = tool.pc
  OBVIOUS
<1>1. /\ On /\ tool'.name = m /\ script' = S /\ UNCHANGED <<run, conv, fid>>
      /\ i \in 1 .. Len(S) /\ cur = S[i] /\ pipe \in Seq(Replies) /\ Len(S) \in Nat
  BY Here DEF Moves, nodeVars, script, TypeOK
<1>2. /\ w \in Nat /\ a \in Nat /\ up \in Nat /\ held \in Nat
      /\ 2 < w /\ w + 2 < a /\ a < up /\ up <= held /\ NumAt(m) = w + 2
  BY Here DEF Planned, Places, NumAt
<1>3. Strict(S, up) /\ Makes(S, c, d, w, a, m # "bstatus")
  BY Here DEF Planned
<1> PICK s : s = fid[c].slot
  OBVIOUS
<1>4. i <= held =>
        /\ Got(w) => fid[c].kind = "ctl" /\ conv[s].by = run
        /\ i = w + 2 /\ pipe # <<>> => pipe[1].ok /\ pipe[1].n = s
        /\ i \in w + 3 .. a /\ ~Behind => tool.num = s
        /\ Got(a) /\ m # "bstatus" => fid[d] = [kind |-> "data", slot |-> s]
  BY <1>1, <1>2 DEF Holds
<1> SUFFICES ASSUME On', tool'.pc <= held
             PROVE  /\ Got(w)' => Got(w)
                    /\ Got(w)' => fid[c].kind = "ctl" /\ conv[s].by = run
                    /\ tool'.pc = w + 2 /\ pipe' # <<>> => pipe'[1].ok /\ pipe'[1].n = s
                    /\ tool'.pc \in w + 3 .. a /\ ~Behind' => tool'.num = s
                    /\ Got(a)' /\ m # "bstatus" => fid[d] = [kind |-> "data", slot |-> s]
  <2>1. /\ CloneAt(tool'.name) = w /\ DataAt(tool'.name) = a /\ HeldTo(tool'.name) = held
        /\ CtlFid(tool'.name) = c /\ DataFid(tool'.name) = d /\ NumAt(tool'.name) = w + 2
        /\ NumAt(tool'.name) + 1 = w + 3
    BY <1>1, <1>2
  <2>2. Holds'
    BY <1>1, <2>1, Zenon DEF Holds
  <2>3. QED
    BY <2>2, Zenon
<1>5. CASE Stays
  <2>1. tool'.pc = i /\ i <= held /\ cur' = cur /\ tool'.num = tool.num
    BY <1>1, <1>5 DEF Stays, cur
  <2>2. CASE i <= up
    <3>1. cur.how = "rpc"
      BY <1>1, <1>3, <2>2 DEF Strict
    <3>2. pipe' = pipe
      BY <1>5, <3>1 DEF Stays
    <3>3. Behind' = Behind /\ Got(w)' = Got(w) /\ Got(a)' = Got(a)
      BY <2>1, <3>2 DEF Behind, Got
    <3>4. QED
      BY <1>4, <2>1, <3>2, <3>3
  <2>3. CASE i > up
    <3>1. Got(w) /\ Got(a)
      BY <1>1, <1>2, <2>3 DEF Got
    <3>2. QED
      BY <1>1, <1>2, <1>4, <2>1, <2>3, <3>1
  <2>4. QED
    BY <1>1, <1>2, <2>2, <2>3
<1>6. CASE Dies
  BY <1>6 DEF Dies, On
<1>7. CASE Goes
  <2>1. tool'.pc \in Nat /\ tool'.pc # 0 /\ i <= held
    <3>1. tool'.pc \in Nat
      BY <1>1, Here DEF Moves, Tools
    <3>2. tool'.pc # 0 /\ tool'.pc <= held
      BY <1>1, <3>1 DEF On
    <3>3. i > up => tool'.pc > held \/ tool'.pc > i
      BY <1>7, <3>2 DEF Goes, Leads
    <3>4. QED
      BY <1>1, <1>2, <3>1, <3>2, <3>3
  <2>2. CASE i > up
    <3>1. Got(w) /\ Got(a)
      BY <1>1, <1>2, <2>2 DEF Got
    <3>2. tool'.pc > up
      BY <1>1, <1>2, <1>7, <2>1, <2>2 DEF Goes, Leads
    <3>3. QED
      BY <1>2, <1>4, <2>1, <3>1, <3>2
  <2>3. CASE i <= up
    <3>1. tool'.pc = i + 1
      BY <1>1, <1>2, <1>7, <2>1, <2>3 DEF Goes
    <3>2. cur.how = "rpc" /\ cur.op \in {"version", "attach", "walk", "open", "num", "ctl"}
      BY <1>1, <1>3, <2>3 DEF Strict
    <3>3. tool.phase # "top"
      BY <1>7, <3>2 DEF Goes
    <3>4. \/ ~Behind /\ Len(pipe) = 1 /\ pipe[1].op = cur.op
          \/ Behind
      BY <1>1, <2>3, <3>3 DEF InOrder
    <3>5. Behind => ~Succeeds(Head(pipe)) /\ cur.op # "num"
      <4>1. ASSUME Behind
            PROVE  ~Succeeds(Head(pipe)) /\ cur.op # "num"
        <5>1. Head(pipe).op = "num" /\ cur.op # "num"
          BY <1>1, <4>1 DEF Behind
        <5>2. QED
          BY <3>2, <5>1 DEF Succeeds, ReplyType
      <4>2. QED
        BY <4>1
    <3>6. CASE Succeeds(Head(pipe)) /\ pipe # <<>> /\ pipe' = Tail(pipe)
      <4>1. ~Behind /\ Len(pipe) = 1 /\ pipe[1].op = cur.op
        BY <3>4, <3>5, <3>6
      <4>2. pipe' = <<>> /\ pipe[1].ok
        BY <1>1, <3>6, <4>1, Single DEF Succeeds
      <4>3. tool'.num = IF cur.op = "num" THEN pipe[1].n ELSE tool.num
        BY <1>1, <1>2, <1>7, <2>1, <2>3, <3>6, SMTT(30) DEF Goes
      <4>4. Got(i)
        BY <3>6, <4>1, <4>2 DEF Got
      <4>5. (Got(w)' => Got(w)) /\ (Got(a)' => Got(a))
        BY <1>1, <1>2, <3>1, <4>2, <4>4 DEF Got
      <4>6. ASSUME tool'.pc \in w + 3 .. a
            PROVE  tool'.num = s
        <5>1. CASE i = w + 2
          <6>1. cur.op = "num"
            BY <1>1, <1>3, <5>1 DEF Makes
          <6>2. QED
            BY <1>4, <2>1, <3>6, <4>3, <5>1, <6>1
        <5>2. CASE i # w + 2
          <6>1. i \in w + 3 .. a
            BY <1>1, <1>2, <3>1, <4>6, <5>2
          <6>2. cur.op # "num"
            BY <1>1, <1>3, <6>1 DEF Makes
          <6>3. QED
            BY <1>4, <2>1, <4>1, <4>3, <6>1, <6>2
        <5>3. QED
          BY <5>1, <5>2
      <4>7. QED
        BY <1>4, <2>1, <4>2, <4>5, <4>6
    <3>7. CASE /\ cur.op = "num"
               /\ pipe' = pipe \/ (pipe # <<>> /\ pipe' = Tail(pipe) /\ ~Succeeds(Head(pipe)))
      <4>1. Len(pipe) = 1 /\ pipe[1].op = "num" /\ pipe # <<>> /\ Tail(pipe) = <<>>
        BY <1>1, <3>4, <3>5, <3>7, Single
      <4>2. S[i + 1].op # "num" /\ cur' = S[i + 1]
        BY <1>1, <1>3, <2>3, <3>1, <3>7 DEF Strict, cur
      <4>3. Behind' \/ pipe' = <<>>
        BY <3>7, <4>1, <4>2 DEF Behind
      <4>4. i # w /\ i # a
        BY <1>1, <1>3, <3>7 DEF Makes
      <4>5. (Got(w)' => Got(w)) /\ (Got(a)' => Got(a))
        BY <1>1, <1>2, <3>1, <4>3, <4>4 DEF Got
      <4>6. tool'.pc # w + 2
        BY <1>1, <1>3, <3>1, <4>2 DEF Makes
      <4>7. ASSUME tool'.pc \in w + 3 .. a
            PROVE  Behind'
        <5>1. i = w + 2
          <6>1. i # w + 2 => i \in w + 3 .. a
            BY <1>1, <1>2, <3>1, <4>7, SMTT(30)
          <6>2. i \in w + 3 .. a => S[i].op # "num"
            BY <1>3 DEF Makes
          <6>3. QED
            BY <1>1, <3>7, <6>1, <6>2
        <5>2. pipe[1].ok
          BY <1>4, <2>1, <4>1, <5>1
        <5>3. Succeeds(Head(pipe))
          BY <1>1, <3>7, <4>1, <5>2 DEF Succeeds
        <5>4. pipe' = pipe
          BY <3>7, <5>3
        <5>5. QED
          BY <4>1, <4>2, <5>4 DEF Behind
      <4>8. QED
        BY <1>4, <2>1, <4>5, <4>6, <4>7
    <3>8. QED
      BY <1>1, <1>2, <1>7, <2>1, <2>3, <3>1, <3>6, <3>7 DEF Goes
  <2>4. QED
    BY <1>1, <1>2, <2>2, <2>3
<1>8. QED
  BY <1>5, <1>6, <1>7 DEF Moves

LEMMA MovesSilent ==
  ASSUME TypeOK, InOrder, Holds, IsoSilent, Moves
  PROVE  IsoSilent'
<1>1. /\ On /\ tool'.name = tool.name /\ UNCHANGED <<run, conv, fid, parked>>
      /\ pipe \in Seq(Replies)
      /\ pipe' = pipe \/ (pipe # <<>> /\ pipe' = Tail(pipe))
  BY DEF Moves, nodeVars, TypeOK, Stays, Dies, Goes
<1> SUFFICES ASSUME tool.name = "iso"
             PROVE  /\ On' /\ Got(CloneAt("iso"))' => Silent(fid[2].slot)
                    /\ \A s \in Slot : \A i \in Mine(s) : parked[s][i].tag = 12 => Silent(s)
                    /\ \A i \in 1 .. Len(pipe') : pipe'[i].tag = 12 => pipe'[i].n = 0
  BY <1>1 DEF IsoSilent, Silent, Mine
<1>2. \A s \in Slot : \A i \in Mine(s) : parked[s][i].tag = 12 => Silent(s)
  BY DEF IsoSilent
<1>3. ASSUME On', Got(CloneAt("iso"))'
      PROVE  Silent(fid[2].slot)
  <2>1. HeldTo("iso") = Len(script) /\ CloneAt("iso") = 9
    BY DEF HeldTo, Careful, CloneAt, script, Script
  <2>2. tool'.pc <= HeldTo("iso")
    BY <2>1 DEF Moves
  <2>3. Got(9)
    <3>1. 9 \in Nat /\ CloneAt(tool.name) = 9 /\ tool'.pc <= HeldTo(tool.name) /\ Got(9)'
      BY <1>3, <2>1, <2>2 DEF CloneAt
    <3>2. QED
      BY <3>1, <1>3, MovesHolds
  <2>4. QED
    BY <1>1, <2>1, <2>3 DEF IsoSilent
<1>4. \A i \in 1 .. Len(pipe) : pipe[i].tag = 12 => pipe[i].n = 0
  BY DEF IsoSilent
<1>5. \A i \in 1 .. Len(pipe') : pipe'[i].tag = 12 => pipe'[i].n = 0
  <2>1. CASE pipe' = pipe
    BY <1>4, <2>1
  <2>2. CASE pipe # <<>> /\ pipe' = Tail(pipe)
    <3>1. /\ Len(pipe') = Len(pipe) - 1 /\ Len(pipe) \in Nat
          /\ \A i \in 1 .. Len(pipe') : pipe'[i] = pipe[i + 1]
      BY <1>1, <2>2
    <3>2. QED
      BY <1>4, <3>1
  <2>3. QED
    BY <1>1, <2>1, <2>2
<1>6. QED
  BY <1>2, <1>3, <1>5

LEMMA MovesGives ==
  ASSUME TypeOK, RunsApart, OneToGive, BoundToolsRelease, Moves
  PROVE  OneToGive' /\ BoundToolsRelease'
<1> PICK S, i, n : S = script /\ i = tool.pc /\ n = Len(S)
  OBVIOUS
<1>1. /\ On /\ tool'.name = tool.name /\ tool'.bound = tool.bound /\ UNCHANGED <<run, conv, fid>>
      /\ i \in 1 .. n /\ script' = S /\ n \in Nat /\ cur = S[i] /\ tool'.pc \in Nat
  BY Here DEF Moves, nodeVars, script, Tools
<1> SUFFICES ASSUME tool.name \in Careful
             PROVE  OneToGive' /\ BoundToolsRelease'
  BY <1>1 DEF OneToGive, BoundToolsRelease
<1>2. Clunks(S)
  BY Here
<1>3. n >= 9 /\ cur.how \in {"rpc", "loop"}
  BY <1>1, <1>2 DEF Clunks
<1>4. /\ \A s \in Slot : conv[s].used /\ conv[s].by = run =>
           ~Given /\ (i > 1 \/ tool.phase # "top") /\ fid[1] = [kind |-> "ctl", slot |-> s]
      /\ tool.bound => i >= 6
  BY <1>1 DEF OneToGive
<1>5. ASSUME On', ~Dies
      PROVE  /\ ~Given => ~Given'
             /\ (i > 1 \/ tool.phase # "top") => (tool'.pc > 1 \/ tool'.phase # "top")
             /\ i >= 6 => tool'.pc >= 6
  <2>1. CASE Stays
    <3>1. tool'.pc = i /\ (tool'.phase = "top" <=> tool.phase = "top")
      BY <1>3, <2>1 DEF Stays
    <3>2. QED
      BY <1>1, <3>1 DEF Given
  <2>2. CASE Goes
    <3>1. /\ i < 6 => tool'.pc \in {0, i + 1}
          /\ i >= 6 => tool'.pc \in {n - 2, n - 1, Target("next")}
          /\ tool'.phase = "top" /\ tool'.pc # 0
      BY <1>1, <1>5, <2>2 DEF Goes, Leads, On
    <3>2. Target("next") = IF i = n THEN 0 ELSE i + 1
      BY <1>1, Targets
    <3>3. tool.phase # "top" \/ i > 7
      <4>1. cur.how = "loop" => i > SetUp(tool.name)
        BY <1>1, Leading
      <4>2. SetUp(tool.name) = 8
        BY DEF SetUp, DataAt, Careful
      <4>3. QED
        BY <1>1, <1>3, <2>2, <4>1, <4>2 DEF Goes
    <3>4. ASSUME ~Given
          PROVE  ~Given'
      <4>1. i < n - 1 \/ (i = n - 1 /\ tool.phase = "top")
        BY <1>1, <3>4 DEF Given
      <4>2. i # n - 1
        <5>1. cur.how = "rpc" => tool.phase # "top"
          BY <2>2 DEF Goes
        <5>2. S[n - 1].how = "rpc"
          BY <1>2 DEF Clunks
        <5>3. QED
          BY <1>1, <4>1, <5>1, <5>2
      <4>3. QED
        BY <1>1, <1>3, <3>1, <3>2, <4>1, <4>2 DEF Given
    <3>5. QED
      BY <1>1, <1>3, <3>1, <3>2, <3>3, <3>4
  <2>3. QED
    BY <1>5, <2>1, <2>2 DEF Moves
<1>6. OneToGive'
  <2>1. On' => ~Dies
    BY DEF On, Dies
  <2>2. Given' \in BOOLEAN /\ Given \in BOOLEAN
    BY DEF Given
  <2>3. QED
    BY <1>1, <1>4, <1>5, <2>1, <2>2 DEF OneToGive
<1>7. BoundToolsRelease'
  <2>1. SUFFICES ASSUME ~On', tool.bound, ~tool'.killed
                 PROVE  \A s \in Slot : ~(conv[s].used /\ conv[s].by = run)
    BY <1>1 DEF BoundToolsRelease
  <2>2. tool'.pc = 0
    BY <2>1 DEF On
  <2>3. Goes
    BY <1>1, <2>1, <2>2 DEF Moves, Dies, Stays
  <2>4. i >= 6
    BY <1>4, <2>1
  <2>5. 0 \in {n - 2, n - 1, Target("next")}
    BY <2>2, <2>3, <2>4, <1>1 DEF Goes, Leads
  <2>6. i = n
    <3>1. Target("next") = IF i = n THEN 0 ELSE i + 1
      BY <1>1, Targets
    <3>2. QED
      BY <1>1, <1>3, <2>5, <3>1
  <2>7. Given
    BY <1>1, <2>6 DEF Given
  <2>8. QED
    BY <1>4, <2>7
<1>8. QED
  BY <1>6, <1>7

-----------------------------------------------------------------------------
(* The steps of the mesh, of the relay and of other sessions.                *)

(* What they have in common: they answer reads, and leave alone what a tool    *)
(* allocated.                                                                *)
Answers ==
  /\ pipe' \in Seq(Replies) /\ Len(pipe') >= Len(pipe)
  /\ \A i \in 1 .. Len(pipe') :
       \/ i <= Len(pipe) /\ pipe'[i] = pipe[i]
       \/ pipe'[i].op = "read" /\ (tool.name = "iso" /\ pipe'[i].tag = 12 => pipe'[i].n = 0)
  /\ (\A s \in Slot : Mine(s) = {}) => pipe' = pipe

Spares(s) ==
  /\ conv[s].used /\ conv[s].by > 0 => conv'[s].used /\ conv'[s].by = conv[s].by
  /\ conv'[s].by = conv[s].by \/ conv'[s].by = 0
  /\ conv'[s].used /\ conv'[s].by > 0 => conv[s].used /\ conv'[s].by = conv[s].by
  /\ run > 0 /\ Silent(s) => conv'[s] = conv[s]
  /\ \A i \in 1 .. Len(parked'[s]) :
       \/ run > 0 /\ parked'[s][i] = [run |-> 0, tag |-> 0]
       \/ \E j \in 1 .. Len(parked[s]) : parked'[s][i] = parked[s][j]

ConvType == [used : BOOLEAN, bind : Bind, q : 0 .. Depth, by : 0 .. MaxRuns]
ReadType == [run : 0 .. MaxRuns, tag : Nat]

Worlds ==
  /\ UNCHANGED <<tool, run, fid>>
  /\ rx' \in 0 .. MaxRx /\ conv' \in [Slot -> ConvType] /\ parked' \in [Slot -> Seq(ReadType)]
  /\ Answers
  /\ \A s \in Slot : Spares(s)

(* The replies of reads that end together.                                    *)
LEMMA ReadReplies ==
  ASSUME TypeOK, NEW s \in Slot, NEW i \in 1 .. Len(parked[s]), NEW n \in Nat
  PROVE  /\ ReadReply(s, i, n) \in Replies /\ ReadReply(s, i, n).op = "read"
         /\ ReadReply(s, i, n).tag = parked[s][i].tag /\ ReadReply(s, i, n).n = n
<1>1. parked[s] \in Seq(ReadType)
  BY DEF TypeOK, ReadType
<1>2. parked[s][i] \in ReadType
  BY <1>1
<1>3. parked[s][i].tag \in Nat
  BY <1>2 DEF ReadType
<1>4. QED
  BY <1>3 DEF ReadReply, Reply, Replies, Ops

(* A conversation that is given free, and one that is allocated.              *)
LEMMA Fresher ==
  ASSUME NEW by \in 0 .. MaxRuns
  PROVE  Fresh(by) \in ConvType
<1>1. "none" \in Bind /\ 0 \in 0 .. Depth
  BY HostAssumption DEF Bind
<1>2. QED
  BY <1>1 DEF Fresh, ConvType

LEMMA Freed ==
  ASSUME TypeOK, NEW s \in Slot, ConvFreed(s)
  PROVE  /\ conv' \in [Slot -> ConvType]
         /\ conv'[s] = [used |-> FALSE, bind |-> "none", q |-> 0, by |-> conv[s].by]
         /\ \A t \in Slot \ {s} : conv'[t] = conv[t]
<1>1. conv \in [Slot -> ConvType]
  BY DEF TypeOK, ConvType
<1>2. PICK by \in 0 .. MaxRuns : by = conv[s].by
  BY <1>1 DEF ConvType
<1>3. PICK z : z = [Fresh(by) EXCEPT !.used = FALSE]
  OBVIOUS
<1>4. z = [used |-> FALSE, bind |-> "none", q |-> 0, by |-> by]
  BY <1>3 DEF Fresh
<1>5. z \in ConvType
  <2>1. Fresh(by) \in ConvType
    BY Fresher
  <2>2. QED
    BY <1>3, <2>1 DEF ConvType
<1>6. conv' = [conv EXCEPT ![s] = z]
  BY <1>2, <1>3, Zenon DEF ConvFreed
<1>7. QED
  BY <1>1, <1>2, <1>4, <1>5, <1>6

LEMMA AnswersMany ==
  ASSUME TypeOK, NEW n \in Nat, NEW q \in [1 .. n -> Replies], pipe' = pipe \o q,
         \A k \in 1 .. n : /\ q[k].op = "read"
                           /\ tool.name = "iso" /\ q[k].tag = 12 => q[k].n = 0,
         (\A s \in Slot : Mine(s) = {}) => n = 0
  PROVE  Answers
<1>1. pipe \in Seq(Replies)
  BY DEF TypeOK
<1>2. /\ pipe' \in Seq(Replies) /\ Len(pipe') = Len(pipe) + n /\ (n = 0 => pipe' = pipe)
      /\ \A i \in 1 .. Len(pipe') :
           \/ i <= Len(pipe) /\ pipe'[i] = pipe[i]
           \/ \E k \in 1 .. n : pipe'[i] = q[k]
  BY <1>1, Behindhand
<1>3. QED
  BY <1>1, <1>2 DEF Answers

LEMMA OtherClunkWorlds ==
  ASSUME TypeOK, RunsApart, OtherClunk
  PROVE  Worlds
<1>1. PICK s \in Slot :
        /\ conv[s].used /\ conv[s].by = 0 /\ ConvFreed(s)
        /\ parked' = [parked EXCEPT ![s] = <<>>]
        /\ \E o \in Orders(Mine(s)) : pipe' = pipe \o [i \in DOMAIN o |-> ReadReply(s, o[i], 0)]
        /\ UNCHANGED <<tool, run, fid, rx>>
  BY DEF OtherClunk
<1>2. PICK o \in Orders(Mine(s)) : pipe' = pipe \o [i \in DOMAIN o |-> ReadReply(s, o[i], 0)]
  BY <1>1
<1>3. /\ conv \in [Slot -> ConvType] /\ parked \in [Slot -> Seq(ReadType)] /\ rx \in 0 .. MaxRx
  BY DEF TypeOK, ConvType, ReadType
<1>4. PICK n \in Nat : /\ o \in [1 .. n -> Mine(s)] /\ Mine(s) \subseteq 1 .. Len(parked[s])
                       /\ Mine(s) = {} => n = 0
  BY Finite, OrdersAre
<1>5. PICK q : q = [i \in 1 .. n |-> ReadReply(s, o[i], 0)]
  OBVIOUS
<1>6. pipe' = pipe \o q
  BY <1>2, <1>4, <1>5
<1>7. \A k \in 1 .. n : q[k] \in Replies /\ q[k].op = "read" /\ q[k].n = 0
  <2>1. ASSUME NEW k \in 1 .. n
        PROVE  q[k] \in Replies /\ q[k].op = "read" /\ q[k].n = 0
    <3>1. o[k] \in 1 .. Len(parked[s]) /\ q[k] = ReadReply(s, o[k], 0)
      BY <1>4, <1>5
    <3>2. QED
      BY <3>1, ReadReplies
  <2>2. QED
    BY <2>1
<1>8. q \in [1 .. n -> Replies]
  BY <1>5, <1>7
<1>9. Answers
  BY <1>4, <1>6, <1>7, <1>8, AnswersMany
<1>10. /\ conv'[s] = [used |-> FALSE, bind |-> "none", q |-> 0, by |-> 0]
       /\ \A t \in Slot \ {s} : conv'[t] = conv[t]
  BY <1>1, Freed
<1>11. conv' \in [Slot -> ConvType]
  BY <1>1, Freed
<1>12. parked' \in [Slot -> Seq(ReadType)]
  <2>1. <<>> \in Seq(ReadType)
    BY EmptySeq
  <2>2. QED
    BY <1>1, <1>3, <2>1
<1>13. ASSUME NEW t \in Slot
       PROVE  Spares(t)
  <2>1. CASE t = s
    <3>1. conv'[t].used = FALSE /\ conv'[t].by = 0 /\ parked'[t] = <<>>
      BY <1>1, <1>3, <1>10, <2>1
    <3>2. run > 0 => ~Silent(t)
      BY <1>1, <2>1 DEF Silent, TypeOK
    <3>3. Len(parked'[t]) = 0
      BY <3>1, EmptySeq
    <3>4. ~(conv[t].by > 0)
      BY <1>1, <2>1
    <3>5. QED
      BY <3>1, <3>2, <3>3, <3>4 DEF Spares
  <2>2. CASE t # s
    <3>1. conv'[t] = conv[t] /\ parked'[t] = parked[t]
      BY <1>1, <1>3, <1>10, <2>2
    <3>2. QED
      BY <3>1 DEF Spares
  <2>3. QED
    BY <2>1, <2>2
<1>14. QED
  BY <1>1, <1>3, <1>9, <1>11, <1>12, <1>13 DEF Worlds

LEMMA OtherCloneWorlds ==
  ASSUME TypeOK, RunsApart, OtherClone
  PROVE  Worlds
<1> PICK s : s = CHOOSE x \in Free : \A y \in Free : x <= y
  OBVIOUS
<1>1. /\ Free # {} /\ UNCHANGED <<tool, run, fid, pipe, rx>>
      /\ conv' = [conv EXCEPT ![s] = Fresh(0)] /\ parked' = [parked EXCEPT ![s] = <<>>]
  BY DEF OtherClone
<1>2. s \in Slot /\ ~conv[s].used
  BY <1>1, FreeSlot
<1>3. /\ conv \in [Slot -> ConvType] /\ parked \in [Slot -> Seq(ReadType)] /\ rx \in 0 .. MaxRx
      /\ pipe \in Seq(Replies)
  BY DEF TypeOK, ConvType, ReadType
<1>4. Answers
  BY <1>1, <1>3 DEF Answers
<1>5. conv' \in [Slot -> ConvType]
  <2>1. Fresh(0) \in ConvType
    BY Fresher, HostAssumption
  <2>2. QED
    BY <1>1, <1>3, <2>1
<1>6. parked' \in [Slot -> Seq(ReadType)]
  <2>1. <<>> \in Seq(ReadType)
    BY EmptySeq
  <2>2. QED
    BY <1>1, <1>3, <2>1
<1>7. ASSUME NEW t \in Slot
      PROVE  Spares(t)
  <2>1. CASE t = s
    <3>1. conv'[t].by = 0 /\ parked'[t] = <<>>
      BY <1>1, <1>3, <2>1 DEF Fresh
    <3>2. ~Silent(t) /\ ~conv[t].used
      BY <1>2, <2>1 DEF Silent
    <3>3. Len(parked'[t]) = 0
      BY <3>1, EmptySeq
    <3>4. QED
      BY <3>1, <3>2, <3>3 DEF Spares
  <2>2. CASE t # s
    <3>1. conv'[t] = conv[t] /\ parked'[t] = parked[t]
      BY <1>1, <1>3, <2>2
    <3>2. QED
      BY <3>1 DEF Spares
  <2>3. QED
    BY <2>1, <2>2
<1>8. QED
  BY <1>1, <1>3, <1>4, <1>5, <1>6, <1>7 DEF Worlds

LEMMA ExpireWorlds ==
  ASSUME TypeOK, RunsApart, Expire, IsoSilent
  PROVE  Worlds
<1> PICK s \in Slot :
      \E i \in Mine(s) :
        /\ tool.pc # 0
        /\ parked' = [parked EXCEPT ![s][i] = [run |-> 0, tag |-> 0]]
        /\ pipe' = Append(pipe, Reply("read", parked[s][i].tag, FALSE, 0))
        /\ UNCHANGED <<tool, run, conv, fid, rx>>
  BY Zenon DEF Expire
<1>1. PICK i \in Mine(s) :
        /\ tool.pc # 0
        /\ parked' = [parked EXCEPT ![s][i] = [run |-> 0, tag |-> 0]]
        /\ pipe' = Append(pipe, Reply("read", parked[s][i].tag, FALSE, 0))
        /\ UNCHANGED <<tool, run, conv, fid, rx>>
  OBVIOUS
<1>2. /\ conv \in [Slot -> ConvType] /\ parked \in [Slot -> Seq(ReadType)] /\ rx \in 0 .. MaxRx
      /\ pipe \in Seq(Replies)
  BY DEF TypeOK, ConvType, ReadType
<1>3. i \in 1 .. Len(parked[s]) /\ parked[s] \in Seq(ReadType) /\ run > 0
  BY <1>1, <1>2 DEF Mine, RunsApart, On
<1>4. PICK r : r = Reply("read", parked[s][i].tag, FALSE, 0)
  OBVIOUS
<1>5. r \in Replies /\ r.op = "read" /\ r.n = 0
  <2>1. parked[s][i] \in ReadType
    BY <1>3
  <2>2. parked[s][i].tag \in Nat
    BY <2>1 DEF ReadType
  <2>3. QED
    BY <1>4, <2>2 DEF Reply, Replies, Ops
<1>6. /\ pipe' \in Seq(Replies) /\ Len(pipe') = Len(pipe) + 1 /\ Len(pipe) \in Nat
      /\ \A k \in 1 .. Len(pipe) : pipe'[k] = pipe[k]
      /\ pipe'[Len(pipe) + 1] = r
  <2>1. pipe' = Append(pipe, r)
    BY <1>1, <1>4, Zenon
  <2>2. Len(pipe) \in Nat
    BY <1>2
  <2>3. /\ Append(pipe, r) \in Seq(Replies) /\ Len(Append(pipe, r)) = Len(pipe) + 1
        /\ \A k \in 1 .. Len(pipe) : Append(pipe, r)[k] = pipe[k]
        /\ Append(pipe, r)[Len(pipe) + 1] = r
    <3>1. pipe \in Seq(Replies) /\ r \in Replies
      BY <1>2, <1>5
    <3>2. QED
      BY <3>1, Appended, Zenon
  <2>4. QED
    BY <2>1, <2>2, <2>3, Zenon
<1>7. Answers
  <2>1. \A k \in 1 .. Len(pipe') :
          \/ k <= Len(pipe) /\ pipe'[k] = pipe[k]
          \/ pipe'[k].op = "read" /\ (tool.name = "iso" /\ pipe'[k].tag = 12 => pipe'[k].n = 0)
    <3>1. \A k \in 1 .. Len(pipe') :
            (k \in 1 .. Len(pipe) /\ k <= Len(pipe)) \/ k = Len(pipe) + 1
      BY <1>6
    <3>2. QED
      BY <1>5, <1>6, <3>1, Zenon
  <2>2. ~\A t \in Slot : Mine(t) = {}
    OBVIOUS
  <2>3. Len(pipe') >= Len(pipe)
    BY <1>6
  <2>4. QED
    BY <1>6, <2>1, <2>2, <2>3, Zenon DEF Answers
<1>8. PICK z : z = [run |-> 0, tag |-> 0]
  OBVIOUS
<1>9. z \in ReadType
  BY <1>8, HostAssumption DEF ReadType
<1>10. PICK p : p = [parked[s] EXCEPT ![i] = z]
  OBVIOUS
<1>11. /\ p \in Seq(ReadType) /\ Len(p) = Len(parked[s])
       /\ \A k \in 1 .. Len(p) : p[k] = IF k = i THEN z ELSE parked[s][k]
  BY <1>3, <1>9, <1>10, ExceptSeq
<1>12. parked' = [parked EXCEPT ![s] = p]
  BY <1>1, <1>8, <1>10, Zenon
<1>13. parked' \in [Slot -> Seq(ReadType)] /\ \A t \in Slot : parked'[t] = IF t = s THEN p ELSE parked[t]
  BY <1>2, <1>11, <1>12
<1>14. ASSUME NEW t \in Slot
       PROVE  Spares(t)
  BY <1>1, <1>3, <1>8, <1>11, <1>13 DEF Spares
<1>15. QED
  BY <1>1, <1>2, <1>7, <1>13, <1>14 DEF Worlds

LEMMA DeliverWorlds ==
  ASSUME TypeOK, RunsApart, IsoSilent, NEW d \in {"peer", "party"}, Deliver(d)
  PROVE  Worlds
<1> DEFINE T == {s \in Slot : Takes(s, d)}
           W == {s \in T : parked[s] # <<>>}
           R == {s \in W : 1 \in Mine(s)}
<1>1. /\ rx' = rx + 1 /\ rx < MaxRx
      /\ conv' = [s \in Slot |-> IF s \in T \ W /\ Room(s) THEN [conv[s] EXCEPT !.q = @ + 1]
                                 ELSE conv[s]]
      /\ parked' = [s \in Slot |-> IF s \in W THEN Tail(parked[s]) ELSE parked[s]]
      /\ UNCHANGED <<tool, run, fid>>
  BY Zenon DEF Deliver
<1>2. PICK o \in Orders(R) : pipe' = pipe \o [i \in DOMAIN o |-> ReadReply(o[i], 1, 1)]
  BY Zenon DEF Deliver
<1>3. /\ conv \in [Slot -> ConvType] /\ parked \in [Slot -> Seq(ReadType)] /\ rx \in 0 .. MaxRx
  BY DEF TypeOK, ConvType, ReadType
<1>4. /\ \A s \in T : s \in Slot /\ Takes(s, d)
      /\ \A s \in W : s \in T /\ parked[s] # <<>>
      /\ R \in SUBSET Slot /\ \A s \in R : 1 \in Mine(s) /\ s \in T
      /\ (\A s \in Slot : Mine(s) = {}) => R = {}
  OBVIOUS
<1> HIDE DEF T, W, R
<1>5. \A s \in Slot : Takes(s, d) => conv[s].bind \notin {"none", "fake"}
  BY DEF Takes
<1>6. PICK n \in Nat : o \in [1 .. n -> R] /\ (R = {} => n = 0)
  BY <1>4, Finite, OrdersAre
<1>7. PICK q : q = [i \in 1 .. n |-> ReadReply(o[i], 1, 1)]
  OBVIOUS
<1>8. pipe' = pipe \o q
  BY <1>2, <1>6, <1>7
<1>9. ASSUME NEW k \in 1 .. n
      PROVE  /\ q[k] \in Replies /\ q[k].op = "read"
             /\ tool.name = "iso" /\ q[k].tag = 12 => q[k].n = 0
  <2>1. o[k] \in R /\ q[k] = ReadReply(o[k], 1, 1)
    BY <1>6, <1>7
  <2>2. o[k] \in Slot /\ 1 \in Mine(o[k]) /\ 1 \in 1 .. Len(parked[o[k]]) /\ Takes(o[k], d)
    BY <1>4, <2>1 DEF Mine
  <2>3. q[k] \in Replies /\ q[k].op = "read" /\ q[k].tag = parked[o[k]][1].tag
    BY <2>1, <2>2, ReadReplies
  <2>4. tool.name = "iso" => q[k].tag # 12
    BY <1>5, <2>2, <2>3 DEF IsoSilent, Silent
  <2>5. QED
    BY <2>3, <2>4
<1>10. q \in [1 .. n -> Replies]
  BY <1>7, <1>9
<1>11. Answers
  BY <1>4, <1>6, <1>8, <1>9, <1>10, AnswersMany
<1>12. conv' \in [Slot -> ConvType]
  <2>1. ASSUME NEW s \in Slot
        PROVE  (IF s \in T \ W /\ Room(s) THEN [conv[s] EXCEPT !.q = @ + 1] ELSE conv[s]) \in ConvType
    <3>1. conv[s] \in ConvType
      BY <1>3
    <3>2. Room(s) => conv[s].q + 1 \in 0 .. Depth
      BY <3>1, HostAssumption DEF Room, ConvType
    <3>3. Room(s) => [conv[s] EXCEPT !.q = @ + 1] \in ConvType
      BY <3>1, <3>2 DEF ConvType
    <3>4. QED
      BY <3>1, <3>3
  <2>2. QED
    BY <1>1, <2>1, Zenon
<1>13. ASSUME NEW s \in Slot
       PROVE  /\ parked'[s] \in Seq(ReadType)
              /\ \A i \in 1 .. Len(parked'[s]) :
                   \E j \in 1 .. Len(parked[s]) : parked'[s][i] = parked[s][j]
  <2>1. parked[s] \in Seq(ReadType)
    BY <1>3
  <2>2. CASE s \in W
    <3>1. parked'[s] = Tail(parked[s]) /\ parked[s] # <<>>
      BY <1>1, <1>4, <2>2
    <3>2. /\ parked'[s] \in Seq(ReadType) /\ Len(parked'[s]) = Len(parked[s]) - 1
          /\ \A i \in 1 .. Len(parked'[s]) : parked'[s][i] = parked[s][i + 1]
      BY <2>1, <3>1, HeadTailProperties
    <3>3. Len(parked[s]) \in Nat
      BY <2>1
    <3>4. \A i \in 1 .. Len(parked'[s]) : i + 1 \in 1 .. Len(parked[s])
      BY <3>2, <3>3
    <3>5. QED
      BY <3>2, <3>4
  <2>3. CASE s \notin W
    <3>1. parked'[s] = parked[s]
      BY <1>1, <2>3
    <3>2. QED
      BY <2>1, <3>1
  <2>4. QED
    BY <2>2, <2>3
<1>14. parked' \in [Slot -> Seq(ReadType)]
  BY <1>1, <1>13
<1>15. ASSUME NEW s \in Slot
       PROVE  Spares(s)
  <2>1. conv'[s].used = conv[s].used /\ conv'[s].by = conv[s].by
    BY <1>1, <1>3 DEF ConvType
  <2>2. Silent(s) => conv'[s] = conv[s]
    <3>1. Silent(s) => s \notin T
      BY <1>4, <1>5 DEF Silent
    <3>2. QED
      BY <1>1, <3>1
  <2>3. QED
    BY <2>1, <2>2, <1>13 DEF Spares
<1>16. rx' \in 0 .. MaxRx
  BY <1>1, <1>3, HostAssumption
<1>17. QED
  BY <1>1, <1>11, <1>12, <1>14, <1>15, <1>16 DEF Worlds

(* What such a step preserves.                                               *)
LEMMA WorldsPreserve ==
  ASSUME IInv, Worlds
  PROVE  IInv'
<1>1. /\ UNCHANGED <<tool, run, fid>> /\ On' = On /\ cur' = cur /\ script' = script /\ Given' = Given
      /\ Slot' = Slot /\ pipe \in Seq(Replies) /\ run \in Nat
  BY DEF Worlds, On, cur, script, Given, IInv, TypeOK
<1>2. TypeOK'
  <2>1. \A i \in 1 .. Len(pipe') : pipe'[i].op = "num" => pipe'[i].n \in Slot
    BY <1>1 DEF Worlds, Answers, IInv, TypeOK
  <2>2. pipe' \in Seq(Replies)
    BY DEF Worlds, Answers
  <2>3. /\ conv' \in [Slot -> [used : BOOLEAN, bind : Bind, q : 0 .. Depth, by : 0 .. MaxRuns]]
        /\ parked' \in [Slot -> Seq([run : 0 .. MaxRuns, tag : Nat])] /\ rx' \in 0 .. MaxRx
    BY DEF Worlds, ConvType, ReadType
  <2>4. tool' \in Tools /\ tool'.pc <= Len(script') /\ run' \in 0 .. MaxRuns
        /\ fid' \in [Fids -> [kind : {"none", "root", "ctl", "data", "status"}, slot : Slot]]
    BY <1>1 DEF IInv, TypeOK
  <2>5. QED
    BY <2>1, <2>2, <2>3, <2>4 DEF TypeOK
<1>3. \A s \in Slot : Spares(s) /\ conv[s].by \in Nat /\ Len(parked[s]) \in Nat
  BY DEF Worlds, IInv, TypeOK
<1>4. RunsApart'
  <2>1. On' \/ tool'.bound => run' > 0
    BY <1>1 DEF IInv, RunsApart
  <2>2. \A s \in Slot : conv'[s].by <= run'
    BY <1>1, <1>3 DEF IInv, RunsApart, Spares
  <2>3. \A s \in Slot : \A i \in 1 .. Len(parked'[s]) : run' > 0 /\ parked'[s][i].run <= run'
    BY <1>1, <1>3 DEF IInv, RunsApart, Spares
  <2>4. QED
    BY <2>1, <2>2, <2>3 DEF RunsApart
<1>5. \A f \in Fids : fid[f].slot \in Slot
  BY DEF IInv, TypeOK
<1>6. CtlFidsApart'
  BY <1>1, <1>3, <1>5 DEF IInv, CtlFidsApart, Spares
<1>7. PostsGoOn'
  BY <1>1 DEF IInv, PostsGoOn
<1>8. \A s \in Slot : On => (\A i \in Mine(s)' : \E j \in Mine(s) : parked'[s][i] = parked[s][j])
  BY <1>1, <1>3 DEF Mine, Spares
<1>9. \A s \in Slot : \A i \in Mine(s)' :
        parked'[s][i].tag = 12 => \E j \in Mine(s) : parked'[s][i] = parked[s][j]
  BY <1>1, <1>3, SMTT(30) DEF Mine, Spares
<1>10. InOrder'
  <2>1. SUFFICES ASSUME On, tool.pc <= SetUp(tool.name)
                 PROVE  InOrder'
    BY <1>1 DEF InOrder
  <2>2. \A s \in Slot : Mine(s) = {}
    BY <2>1 DEF IInv, InOrder
  <2>3. pipe' = pipe /\ \A s \in Slot : Mine(s)' = {}
    BY <1>8, <2>1, <2>2 DEF Worlds, Answers
  <2>4. Behind' = Behind
    BY <1>1, <2>3 DEF Behind
  <2>5. QED
    BY <1>1, <2>1, <2>3, <2>4 DEF IInv, InOrder
<1>11. Holds'
  <2> PICK m, c, d, w, a, up, held, i :
        /\ m = tool.name /\ c = CtlFid(m) /\ d = DataFid(m) /\ w = CloneAt(m)
        /\ a = DataAt(m) /\ up = SetUp(m) /\ held = HeldTo(m) /\ i = tool.pc
    OBVIOUS
  <2>1. SUFFICES ASSUME On, tool.pc <= held
                 PROVE  Holds'
    BY <1>1 DEF Holds
  <2>2. /\ w \in Nat /\ a \in Nat /\ up \in Nat /\ held \in Nat /\ i \in Nat /\ c \in Fids
        /\ 2 < w /\ w + 2 < a /\ a < up /\ up <= held /\ NumAt(m) = w + 2
    BY Here DEF IInv, Planned, Places, NumAt
  <2>3. i <= up => pipe' = pipe
    BY <2>1 DEF IInv, InOrder, Worlds, Answers
  <2>4. /\ (Got(w)' => Got(w)) /\ (Got(a)' => Got(a))
        /\ i = w + 2 => pipe' = pipe
        /\ i \in w + 3 .. a => (~Behind' => ~Behind)
    BY <1>1, <2>2, <2>3 DEF Got, Behind
  <2>5. fid[c].slot \in Slot /\ (fid[c].kind = "ctl" => conv[fid[c].slot].used /\ conv[fid[c].slot].by > 0)
    BY <1>5, <2>2 DEF IInv, CtlFidsApart
  <2>6. fid[c].kind = "ctl" => conv'[fid[c].slot].by = conv[fid[c].slot].by
    BY <1>3, <2>5 DEF Spares
  <2>7. /\ Got(w) => fid[c].kind = "ctl" /\ conv[fid[c].slot].by = run
        /\ i = w + 2 /\ pipe # <<>> => pipe[1].ok /\ pipe[1].n = fid[c].slot
        /\ i \in w + 3 .. a /\ ~Behind => tool.num = fid[c].slot
        /\ Got(a) /\ m # "bstatus" => fid[d] = [kind |-> "data", slot |-> fid[c].slot]
    BY <2>1, <2>2 DEF IInv, Holds
  <2>8. /\ Got(w)' => fid'[c].kind = "ctl" /\ conv'[fid'[c].slot].by = run'
        /\ tool'.pc = w + 2 /\ pipe' # <<>> => pipe'[1].ok /\ pipe'[1].n = fid'[c].slot
        /\ tool'.pc \in w + 3 .. a /\ ~Behind' => tool'.num = fid'[c].slot
        /\ Got(a)' /\ m # "bstatus" => fid'[d] = [kind |-> "data", slot |-> fid'[c].slot]
    BY <1>1, <2>4, <2>6, <2>7
  <2>9. /\ CloneAt(tool'.name) = w /\ DataAt(tool'.name) = a /\ CtlFid(tool'.name) = c
        /\ DataFid(tool'.name) = d /\ NumAt(tool'.name) = w + 2 /\ NumAt(tool'.name) + 1 = w + 3
        /\ tool'.name = m
    BY <1>1, <2>2
  <2>10. QED
    BY <2>8, <2>9, Zenon DEF Holds
<1>12. IsoSilent'
  <2>1. SUFFICES ASSUME tool.name = "iso"
                 PROVE  IsoSilent'
    BY <1>1 DEF IsoSilent
  <2>2. \A s \in Slot : Silent(s) /\ run > 0 => Silent(s)'
    BY <1>1, <1>3 DEF Spares, Silent
  <2>3. On => run > 0
    BY DEF IInv, RunsApart
  <2>4. \A s \in Slot : \A i \in Mine(s) : run > 0
    BY DEF IInv, RunsApart, Mine
  <2>5. On' /\ Got(CloneAt("iso"))' => Silent(fid[2].slot)'
    <3>1. CloneAt("iso") = 9 /\ SetUp(tool.name) = 20
      BY <2>1 DEF CloneAt, SetUp
    <3>2. tool.pc \in Nat
      BY Here DEF IInv
    <3>3. On /\ tool.pc <= 20 => pipe' = pipe
      BY <3>1 DEF IInv, InOrder, Worlds, Answers
    <3>4. On /\ Got(9)' => Got(9)
      BY <1>1, <3>2, <3>3 DEF Got, Behind
    <3>5. On /\ Got(9) => Silent(fid[2].slot)
      BY <2>1, <3>1 DEF IInv, IsoSilent
    <3>6. fid[2].slot \in Slot
      BY <1>5 DEF Fids
    <3>7. QED
      BY <1>1, <2>2, <2>3, <3>1, <3>4, <3>5, <3>6
  <2>6. \A s \in Slot : \A i \in Mine(s)' : parked'[s][i].tag = 12 => Silent(s)'
    <3>1. \A s \in Slot : \A i \in Mine(s) : parked[s][i].tag = 12 => Silent(s)
      BY <2>1 DEF IInv, IsoSilent
    <3>2. QED
      BY <1>9, <2>2, <2>4, <3>1
  <2>7. \A i \in 1 .. Len(pipe') : pipe'[i].tag = 12 => pipe'[i].n = 0
    <3>1. \A i \in 1 .. Len(pipe) : pipe[i].tag = 12 => pipe[i].n = 0
      BY <2>1 DEF IInv, IsoSilent
    <3>2. QED
      BY <1>1, <2>1, <3>1 DEF Worlds, Answers
  <2>8. QED
    BY <1>1, <2>5, <2>6, <2>7 DEF IsoSilent
<1>13. \A s \in Slot : run > 0 /\ conv'[s].used /\ conv'[s].by = run => conv[s].used /\ conv[s].by = run
  BY <1>3 DEF Spares
<1>14. OneToGive'
  <2>1. On => run > 0
    BY DEF IInv, RunsApart
  <2>2. QED
    BY <1>1, <1>13, <2>1 DEF IInv, OneToGive
<1>15. BoundToolsRelease'
  <2>1. tool.bound => run > 0
    BY DEF IInv, RunsApart
  <2>2. QED
    BY <1>1, <1>13, <2>1 DEF IInv, BoundToolsRelease
<1>16. QED
  BY <1>2, <1>4, <1>6, <1>7, <1>10, <1>11, <1>12, <1>14, <1>15 DEF IInv

-----------------------------------------------------------------------------
(* Calls.                                                                    *)

(* The tool's side of a call.                                                *)
Sends ==
  /\ On /\ tool.phase = "top" /\ UNCHANGED <<run, rx>>
  /\ tool' \in Tools /\ tool'.name = tool.name /\ tool'.killed = tool.killed
  /\ tool'.bound \in BOOLEAN /\ (tool'.bound <=> tool.bound \/ cur.op = "ctl")
  /\ tool'.pc <= Len(script)
  /\ \/ /\ cur.how \in {"rpc", "loop"}
        /\ tool'.pc = tool.pc /\ tool'.phase = "sent" /\ tool'.num = tool.num
     \/ /\ cur.how = "post" /\ tool.pc > SetUp(tool.name) /\ tool.name \notin Careful
        /\ tool'.phase = "top" /\ tool'.pc \in {0, tool.pc + 1}

LEMMA SendSends ==
  ASSUME TypeOK, Send
  PROVE  Sends /\ Serve(cur)
<1>1. /\ On /\ tool.phase = "top" /\ UNCHANGED <<run, rx>> /\ Serve(cur) /\ tool \in Tools
      /\ cur.how \in {"rpc", "loop", "post"}
      /\ tool' = [IF cur.how = "post" THEN NextStep ELSE [tool EXCEPT !.phase = "sent"]
                  EXCEPT !.bound = @ \/ cur.op = "ctl"]
  BY DEF Send, TypeOK
<1>2. PICK p : p = Target("next")
  OBVIOUS
<1>3. /\ p \in {0, tool.pc + 1} /\ p \in Nat /\ p <= Len(script) /\ tool.pc <= Len(script)
      /\ cur.how = "post" => tool.pc > SetUp(tool.name) /\ tool.name \notin Careful
  <2>1. tool.pc \in 1 .. Len(script) /\ Len(script) \in Nat
    BY <1>1, Here
  <2>2. p = IF tool.pc = Len(script) THEN 0 ELSE tool.pc + 1
    BY <1>1, <1>2, Targets
  <2>3. cur.how = "post" => tool.pc > SetUp(tool.name) /\ tool.name \notin Careful
    BY <1>1, Leading
  <2>4. QED
    BY <2>1, <2>2, <2>3
<1>4. PICK b : b = IF cur.how = "post" THEN At(p) ELSE [tool EXCEPT !.phase = "sent"]
  OBVIOUS
<1>5. PICK k : k = (b.bound \/ cur.op = "ctl")
  OBVIOUS
<1>6. tool' = [b EXCEPT !.bound = k]
  BY <1>1, <1>2, <1>4, <1>5, Zenon DEF NextStep
<1>7. k \in BOOLEAN
  BY <1>5
<1>8. CASE cur.how = "post"
  <2>1. /\ b \in Tools /\ b.name = tool.name /\ b.pc = p /\ b.phase = "top"
        /\ b.bound = tool.bound /\ b.killed = tool.killed
    BY <1>1, <1>3, <1>4, <1>8, AtFields
  <2>2. tool' \in Tools
    BY <1>6, <1>7, <2>1 DEF Tools
  <2>3. /\ tool'.name = tool.name /\ tool'.pc = p /\ tool'.phase = "top"
        /\ tool'.killed = tool.killed /\ tool'.bound = k
    BY <1>6, <2>1 DEF Tools
  <2>4. k <=> tool.bound \/ cur.op = "ctl"
    BY <1>5, <2>1
  <2>5. QED
    BY <1>1, <1>3, <1>7, <1>8, <2>2, <2>3, <2>4 DEF Sends
<1>9. CASE cur.how # "post"
  <2>1. b = [tool EXCEPT !.phase = "sent"]
    BY <1>4, <1>9
  <2>2. /\ b \in Tools /\ b.name = tool.name /\ b.pc = tool.pc /\ b.phase = "sent"
        /\ b.bound = tool.bound /\ b.killed = tool.killed /\ b.num = tool.num
    BY <1>1, <2>1 DEF Tools
  <2>3. tool' \in Tools
    BY <1>6, <1>7, <2>2 DEF Tools
  <2>4. /\ tool'.name = tool.name /\ tool'.pc = tool.pc /\ tool'.phase = "sent"
        /\ tool'.killed = tool.killed /\ tool'.bound = k /\ tool'.num = tool.num
    BY <1>6, <2>2 DEF Tools
  <2>5. k <=> tool.bound \/ cur.op = "ctl"
    BY <1>5, <2>2
  <2>6. QED
    BY <1>1, <1>3, <1>7, <1>9, <2>3, <2>4, <2>5 DEF Sends
<1>10. QED
  BY <1>8, <1>9

(* The node's side: what a call does to a conversation, to a fid, to the waiting *)
(* reads, and which replies it has.                                          *)
Same(s) ==
  /\ conv'[s].used = conv[s].used /\ conv'[s].by = conv[s].by
  /\ conv[s].q = 0 => conv'[s].q = 0
  /\ \/ conv'[s].bind = conv[s].bind
     \/ cur.op = "ctl" /\ fid[cur.fid] = [kind |-> "ctl", slot |-> s] /\ conv'[s].bind = cur.arg

New(s) ==
  /\ cur.op = "walk" /\ cur.arg = "clone"
  /\ s \in Slot /\ ~conv[s].used /\ conv'[s] = Fresh(run)
  /\ fid[cur.fid].kind = "none" /\ fid'[cur.fid] = [kind |-> "ctl", slot |-> s]

Gone(s) ==
  /\ cur.op = "clunk" /\ fid[cur.fid] = [kind |-> "ctl", slot |-> s]
  /\ conv'[s].used = FALSE /\ conv'[s].by = conv[s].by

FidKind == [kind : {"none", "root", "ctl", "data", "status"}, slot : Slot]

Convs ==
  /\ conv' \in [Slot -> ConvType] /\ fid' \in [Fids -> FidKind]
  /\ \A s \in Slot :
       /\ Same(s) \/ New(s) \/ Gone(s)
       /\ cur.op = "clunk" /\ fid[cur.fid] = [kind |-> "ctl", slot |-> s] => Gone(s)
  /\ cur.op = "clunk" => fid'[cur.fid] = NoFid
  /\ \A f \in Fids :
       \/ fid'[f] = fid[f]
       \/ cur.op = "version" /\ fid'[f] = NoFid
       \/ cur.op = "attach" /\ f = 0 /\ fid'[f].kind = "root"
       \/ cur.op = "clunk" /\ f = cur.fid /\ fid'[f] = NoFid
       \/ /\ cur.op = "walk" /\ f = cur.fid /\ fid[f].kind = "none"
          /\ New(fid'[f].slot) \/ fid'[f].kind # "ctl"

Reads ==
  /\ parked' \in [Slot -> Seq(ReadType)]
  /\ \A s \in Slot : \A i \in 1 .. Len(parked'[s]) :
       \/ \E j \in 1 .. Len(parked[s]) : parked'[s][i] = parked[s][j]
       \/ /\ cur.op = "read" /\ s = fid[cur.fid].slot
          /\ parked'[s][i].run = run /\ parked'[s][i].tag = cur.tag

(* The reply to a call.                                                      *)
Outcome(r) ==
  /\ r.op = cur.op
  /\ cur.op = "num" => r.n = fid[cur.fid].slot /\ (r.ok <=> fid[cur.fid].kind # "none")
  /\ cur.op = "walk" /\ r.ok =>
       /\ cur.arg = "clone" => New(fid'[cur.fid].slot)
       /\ cur.arg = "data" => fid'[cur.fid] = [kind |-> "data", slot |-> tool.num]

Replied ==
  /\ pipe' \in Seq(Replies)
  /\ \A i \in 1 .. Len(pipe') :
       \/ i <= Len(pipe) /\ pipe'[i] = pipe[i]
       \/ /\ pipe'[i].op = "num" => pipe'[i].n \in Slot
          /\ tool.name = "iso" /\ pipe'[i].tag = 12 => pipe'[i].n = 0
  /\ tool.pc <= SetUp(tool.name) =>
       \E r \in Replies : pipe' = Append(pipe, r) /\ Outcome(r)

LEMMA RepliedOne ==
  ASSUME TypeOK, NEW r \in Replies, pipe' = Append(pipe, r),
         tool.pc <= SetUp(tool.name) => Outcome(r),
         r.op = "num" => r.n \in Slot,
         tool.name = "iso" /\ r.tag = 12 => r.n = 0
  PROVE  Replied
<1>1. pipe \in Seq(Replies)
  BY DEF TypeOK
<1>2. /\ pipe' \in Seq(Replies) /\ Len(pipe') = Len(pipe) + 1 /\ Len(pipe) \in Nat
      /\ \A k \in 1 .. Len(pipe) : pipe'[k] = pipe[k]
      /\ pipe'[Len(pipe) + 1] = r
  BY <1>1, Appended, Zenon
<1>3. \A k \in 1 .. Len(pipe') :
        (k \in 1 .. Len(pipe) /\ k <= Len(pipe)) \/ k = Len(pipe) + 1
  BY <1>2
<1>4. \A k \in 1 .. Len(pipe') : (k <= Len(pipe) /\ pipe'[k] = pipe[k]) \/ pipe'[k] = r
  BY <1>2, <1>3, Zenon
<1>5. QED
  BY <1>2, <1>4, Zenon DEF Replied

(* The read of the silent conversation of do_iso_recv.                        *)
LEMMA SilentRead ==
  ASSUME IInv, On, tool.name = "iso", cur.tag = 12
  PROVE  cur.op = "read" /\ cur.fid = 12 /\ Silent(fid[12].slot)
<1>1. /\ tool.pc \in 1 .. Len(script) /\ cur = script[tool.pc] /\ Len(script) \in Nat
      /\ Quiet(script)
  BY Here DEF IInv
<1>2. cur.op = "read" /\ cur.fid = 12 /\ 20 < tool.pc
  BY <1>1 DEF Quiet
<1>3. /\ CloneAt("iso") = 9 /\ DataAt("iso") = 13 /\ HeldTo("iso") = Len(script)
      /\ CtlFid("iso") = 2 /\ DataFid("iso") = 12
  BY DEF CloneAt, DataAt, HeldTo, CtlFid, DataFid, Careful, script, Script
<1>4. Got(9) /\ Got(13) /\ tool.pc <= Len(script)
  BY <1>1, <1>2 DEF Got
<1>5. fid[12] = [kind |-> "data", slot |-> fid[2].slot]
  <2>1. ("iso" # "bstatus") = TRUE
    OBVIOUS
  <2>2. QED
    BY <1>3, <1>4, <2>1, Zenon DEF IInv, Holds
<1>6. Silent(fid[2].slot)
  BY <1>3, <1>4 DEF IInv, IsoSilent
<1>7. QED
  BY <1>2, <1>5, <1>6

LEMMA ReplyMade ==
  ASSUME TypeOK, On, NEW ok \in BOOLEAN, NEW n \in Nat, Answer(cur, ok, n)
  PROVE  \E r \in Replies : /\ pipe' = Append(pipe, r)
                            /\ r.op = cur.op /\ r.tag = cur.tag /\ r.ok = ok /\ r.n = n
<1>1. cur \in StepType
  BY Here
<1>2. PICK r : r = Reply(cur.op, cur.tag, ok, n)
  OBVIOUS
<1>3. cur.op \in Ops /\ cur.tag \in Nat
  BY <1>1 DEF StepType
<1>4. r \in Replies /\ r.op = cur.op /\ r.tag = cur.tag /\ r.ok = ok /\ r.n = n
  BY <1>2, <1>3 DEF Reply, Replies
<1>5. pipe' = Append(pipe, r)
  BY <1>2 DEF Answer
<1>6. QED
  BY <1>4, <1>5

LEMMA Node ==
  ASSUME TypeOK
  PROVE  /\ conv \in [Slot -> ConvType] /\ fid \in [Fids -> FidKind] /\ parked \in [Slot -> Seq(ReadType)]
         /\ NoFid \in FidKind /\ 0 \in Slot /\ Slot \subseteq Nat
         /\ run \in 0 .. MaxRuns /\ pipe \in Seq(Replies) /\ tool.num \in Slot
         /\ On => cur \in StepType /\ cur.fid \in Fids /\ fid[cur.fid] \in FidKind
                  /\ fid[cur.fid].slot \in Slot /\ cur.op \in Ops /\ cur.tag \in Nat
<1>1. /\ conv \in [Slot -> ConvType] /\ fid \in [Fids -> FidKind] /\ parked \in [Slot -> Seq(ReadType)]
      /\ run \in 0 .. MaxRuns /\ pipe \in Seq(Replies)
  BY DEF TypeOK, ConvType, FidKind, ReadType
<1>2. 0 \in Slot /\ Slot \subseteq Nat
  BY HostAssumption DEF Slot
<1>3. NoFid \in FidKind
  BY <1>2 DEF NoFid, FidKind
<1>4. tool.num \in Slot
  BY DEF TypeOK, Tools
<1>5. On => cur \in StepType
  BY Here
<1>6. On => cur.fid \in Fids /\ cur.op \in Ops /\ cur.tag \in Nat
  BY <1>5 DEF StepType
<1>7. On => fid[cur.fid] \in FidKind
  BY <1>1, <1>6
<1>8. On => fid[cur.fid].slot \in Slot
  BY <1>7 DEF FidKind
<1>9. QED
  BY <1>1, <1>2, <1>3, <1>4, <1>5, <1>6, <1>7, <1>8

(* A call that leaves the waiting reads alone.                                *)
LEMMA NoReads ==
  ASSUME TypeOK, UNCHANGED parked
  PROVE  Reads
<1>1. parked \in [Slot -> Seq(ReadType)]
  BY Node
<1>2. QED
  BY <1>1 DEF Reads

LEMMA VersionServes ==
  ASSUME IInv, On, ServeVersion(cur)
  PROVE  Convs /\ Reads /\ Replied
<1>1. /\ cur.op = "version" /\ fid' = [f \in Fids |-> NoFid] /\ Answer(cur, TRUE, 0)
      /\ UNCHANGED <<conv, parked>>
  BY DEF ServeVersion
<1>2. TypeOK
  BY DEF IInv
<1>3. Convs
  BY <1>1, <1>2, Node DEF Convs, Same
<1>4. Reads
  BY <1>1, <1>2, NoReads
<1>5. PICK r \in Replies : pipe' = Append(pipe, r) /\ r.op = cur.op /\ r.tag = cur.tag /\ r.n = 0
  BY <1>1, <1>2, ReplyMade
<1>6. Outcome(r)
  BY <1>1, <1>5 DEF Outcome
<1>7. Replied
  BY <1>1, <1>2, <1>5, <1>6, RepliedOne
<1>8. QED
  BY <1>3, <1>4, <1>7

LEMMA AttachServes ==
  ASSUME IInv, On, ServeAttach(cur)
  PROVE  Convs /\ Reads /\ Replied
<1>1. /\ cur.op = "attach" /\ fid' = [fid EXCEPT ![0] = [kind |-> "root", slot |-> 0]]
      /\ Answer(cur, TRUE, 0) /\ UNCHANGED <<conv, parked>>
  BY DEF ServeAttach, SetFid
<1>2. TypeOK
  BY DEF IInv
<1>3. Convs
  <2>1. [kind |-> "root", slot |-> 0] \in FidKind
    BY <1>2, Node DEF FidKind
  <2>2. fid' \in [Fids -> FidKind] /\ \A f \in Fids : fid'[f] = fid[f] \/ (f = 0 /\ fid'[f].kind = "root")
    BY <1>1, <1>2, <2>1, Node
  <2>3. QED
    BY <1>1, <1>2, <2>2, Node DEF Convs, Same
<1>4. Reads
  BY <1>1, <1>2, NoReads
<1>5. PICK r \in Replies : pipe' = Append(pipe, r) /\ r.op = cur.op /\ r.tag = cur.tag /\ r.n = 0
  BY <1>1, <1>2, ReplyMade
<1>6. Outcome(r)
  BY <1>1, <1>5 DEF Outcome
<1>7. Replied
  BY <1>1, <1>2, <1>5, <1>6, RepliedOne
<1>8. QED
  BY <1>3, <1>4, <1>7

LEMMA WalkServes ==
  ASSUME IInv, On, ServeWalk(cur)
  PROVE  Convs /\ Reads /\ Replied
<1> DEFINE OK == /\ fid[0].kind = "root" /\ fid[cur.fid].kind = "none"
                 /\ \/ cur.arg = "status"
                    \/ cur.arg = "clone" /\ Free # {}
                    \/ cur.arg = "data" /\ conv[tool.num].used
           SS == IF cur.arg = "clone" THEN CHOOSE x \in Free : \A y \in Free : x <= y ELSE tool.num
           KK == IF cur.arg = "clone" THEN "ctl" ELSE cur.arg
<1> HIDE DEF OK, SS, KK
<1> PICK ok, s, k : ok = OK /\ s = SS /\ k = KK
  OBVIOUS
<1> USE DEF OK, SS, KK
<1>1. /\ cur.op = "walk"
      /\ IF ok THEN fid' = [fid EXCEPT ![cur.fid] = [kind |-> k, slot |-> s]] ELSE UNCHANGED fid
      /\ conv' = IF ok /\ cur.arg = "clone" THEN [conv EXCEPT ![s] = Fresh(run)] ELSE conv
      /\ parked' = IF ok /\ cur.arg = "clone" THEN [parked EXCEPT ![s] = <<>>] ELSE parked
      /\ Answer(cur, ok, 0)
  BY Zenon DEF ServeWalk, SetFid
<1>2. TypeOK /\ ok \in BOOLEAN
  BY DEF IInv
<1>3. ok => fid[cur.fid].kind = "none" /\ k \in {"ctl", "data", "status"} /\ (k = "ctl" <=> cur.arg = "clone")
            /\ (cur.arg = "data" => k = "data" /\ s = tool.num)
  OBVIOUS
<1>4. ok => s \in Slot /\ (cur.arg = "clone" => ~conv[s].used)
  <2>1. ASSUME ok, cur.arg = "clone"
        PROVE  s \in Slot /\ ~conv[s].used
    <3>1. Free # {} /\ s = CHOOSE x \in Free : \A y \in Free : x <= y
      BY <2>1
    <3>2. QED
      BY <3>1, FreeSlot
  <2>2. ASSUME ok, cur.arg # "clone"
        PROVE  s \in Slot
    BY <1>2, <2>2, Node
  <2>3. QED
    BY <1>2, <2>1, <2>2
<1> HIDE DEF OK, SS, KK
<1>5. CASE ok
  <2>1. [kind |-> k, slot |-> s] \in FidKind
    BY <1>3, <1>4, <1>5 DEF FidKind
  <2>2. /\ fid' \in [Fids -> FidKind] /\ fid'[cur.fid] = [kind |-> k, slot |-> s]
        /\ \A f \in Fids : f # cur.fid => fid'[f] = fid[f]
    BY <1>1, <1>2, <1>5, <2>1, Node
  <2>3. CASE cur.arg = "clone"
    <3>1. Fresh(run) \in ConvType
      BY <1>2, Node, Fresher
    <3>2. /\ conv' \in [Slot -> ConvType] /\ conv'[s] = Fresh(run)
          /\ \A t \in Slot \ {s} : conv'[t] = conv[t]
      BY <1>1, <1>2, <1>4, <1>5, <2>3, <3>1, Node
    <3>3. New(s)
      BY <1>1, <1>3, <1>4, <1>5, <2>2, <2>3, <3>2 DEF New
    <3>4. \A t \in Slot : Same(t) \/ New(t)
      BY <3>2, <3>3 DEF Same
    <3>5. fid'[cur.fid].slot = s
      BY <2>2
    <3>6. Convs
      BY <1>1, <1>3, <1>5, <2>2, <3>2, <3>3, <3>4, <3>5 DEF Convs
    <3>7. Reads
      <4>1. <<>> \in Seq(ReadType) /\ Len(<<>>) = 0
        BY EmptySeq
      <4>2. /\ parked' \in [Slot -> Seq(ReadType)] /\ parked'[s] = <<>>
            /\ \A t \in Slot \ {s} : parked'[t] = parked[t]
        BY <1>1, <1>2, <1>4, <1>5, <2>3, <4>1, Node
      <4>3. Len(parked'[s]) = 0
        BY <4>1, <4>2, Zenon
      <4>4. QED
        BY <4>2, <4>3 DEF Reads
    <3>8. PICK r \in Replies : pipe' = Append(pipe, r) /\ r.op = cur.op /\ r.tag = cur.tag /\ r.n = 0
      BY <1>1, <1>2, ReplyMade
    <3>9. Outcome(r)
      BY <1>1, <2>3, <3>3, <3>5, <3>8 DEF Outcome
    <3>10. Replied
      BY <1>1, <1>2, <3>8, <3>9, RepliedOne
    <3>11. QED
      BY <3>6, <3>7, <3>10
  <2>4. CASE cur.arg # "clone"
    <3>1. conv' = conv /\ parked' = parked /\ k # "ctl"
      BY <1>1, <1>3, <1>5, <2>4
    <3>2. fid'[cur.fid].kind # "ctl"
      BY <2>2, <3>1
    <3>3. Convs
      BY <1>1, <1>2, <1>3, <1>5, <2>2, <3>1, <3>2, Node DEF Convs, Same
    <3>4. Reads
      BY <1>2, <3>1, NoReads
    <3>5. PICK r \in Replies : pipe' = Append(pipe, r) /\ r.op = cur.op /\ r.tag = cur.tag /\ r.n = 0
      BY <1>1, <1>2, ReplyMade
    <3>6. Outcome(r)
      BY <1>1, <1>3, <1>5, <2>2, <2>4, <3>5 DEF Outcome
    <3>7. Replied
      BY <1>1, <1>2, <3>5, <3>6, RepliedOne
    <3>8. QED
      BY <3>3, <3>4, <3>7
  <2>5. QED
    BY <2>3, <2>4
<1>6. CASE ~ok
  <2>1. UNCHANGED <<conv, fid, parked>>
    BY <1>1, <1>6
  <2>2. Convs
    BY <1>1, <1>2, <2>1, Node DEF Convs, Same
  <2>3. Reads
    BY <1>2, <2>1, NoReads
  <2>4. PICK r \in Replies : pipe' = Append(pipe, r) /\ r.op = cur.op /\ r.tag = cur.tag /\ r.n = 0 /\ r.ok = ok
    BY <1>1, <1>2, ReplyMade
  <2>5. Outcome(r)
    BY <1>1, <1>6, <2>4 DEF Outcome
  <2>6. Replied
    BY <1>1, <1>2, <2>4, <2>5, RepliedOne
  <2>7. QED
    BY <2>2, <2>3, <2>6
<1>7. QED
  BY <1>2, <1>5, <1>6

LEMMA PlainServes ==
  ASSUME IInv, On, ServePlain(cur)
  PROVE  Convs /\ Reads /\ Replied
<1> PICK ok, n : /\ ok = (fid[cur.fid].kind # "none")
                 /\ n = IF cur.op = "num" THEN fid[cur.fid].slot ELSE 0
  OBVIOUS
<1>1. /\ cur.op \in {"open", "num", "status"} /\ Answer(cur, ok, n)
      /\ UNCHANGED <<conv, fid, parked>>
  BY DEF ServePlain, nodeVars
<1>2. TypeOK /\ ok \in BOOLEAN
  BY DEF IInv
<1>3. Convs
  BY <1>1, <1>2, Node DEF Convs, Same
<1>4. Reads
  BY <1>1, <1>2, NoReads
<1>5. n \in Slot /\ n \in Nat
  BY <1>2, Node
<1>6. PICK r \in Replies : pipe' = Append(pipe, r) /\ r.op = cur.op /\ r.tag = cur.tag /\ r.n = n /\ r.ok = ok
  BY <1>1, <1>2, <1>5, ReplyMade
<1>7. Outcome(r)
  BY <1>1, <1>6 DEF Outcome
<1>8. tool.name = "iso" /\ r.tag = 12 => r.n = 0
  BY <1>1, <1>6, SilentRead
<1>9. Replied
  BY <1>2, <1>5, <1>6, <1>7, <1>8, RepliedOne
<1>10. QED
  BY <1>3, <1>4, <1>9

LEMMA CtlServes ==
  ASSUME IInv, On, ServeCtl(cur)
  PROVE  Convs /\ Reads /\ Replied
<1> PICK ok, s : ok = (fid[cur.fid].kind = "ctl") /\ s = fid[cur.fid].slot
  OBVIOUS
<1>1. /\ cur.op = "ctl" /\ Answer(cur, ok, 0) /\ UNCHANGED <<fid, parked>>
      /\ conv' = IF ok THEN [conv EXCEPT ![s].bind = cur.arg] ELSE conv
  BY DEF ServeCtl
<1>2. TypeOK /\ ok \in BOOLEAN
  BY DEF IInv
<1>3. /\ cur.arg \in Bind /\ s \in Slot /\ conv \in [Slot -> ConvType] /\ fid \in [Fids -> FidKind]
      /\ fid[cur.fid] \in FidKind
  <2>1. tool.pc \in 1 .. Len(script) /\ cur = script[tool.pc]
    BY <1>2, Here
  <2>2. cur.arg \in Bind
    BY <1>1, <1>2, <2>1, Here DEF Planned, Keeps
  <2>3. QED
    BY <1>2, <2>2, Node
<1>4. ok => fid[cur.fid] = [kind |-> "ctl", slot |-> s]
  BY <1>3 DEF FidKind
<1>5. /\ conv' \in [Slot -> ConvType]
      /\ \A t \in Slot : /\ conv'[t].used = conv[t].used /\ conv'[t].by = conv[t].by /\ conv'[t].q = conv[t].q
                         /\ conv'[t].bind = conv[t].bind \/ (ok /\ t = s /\ conv'[t].bind = cur.arg)
  BY <1>1, <1>3 DEF ConvType
<1>6. \A t \in Slot : Same(t)
  BY <1>1, <1>4, <1>5 DEF Same
<1>7. Convs
  BY <1>1, <1>3, <1>5, <1>6 DEF Convs
<1>8. Reads
  BY <1>1, <1>2, NoReads
<1>9. PICK r \in Replies : pipe' = Append(pipe, r) /\ r.op = cur.op /\ r.tag = cur.tag /\ r.n = 0
  BY <1>1, <1>2, ReplyMade
<1>10. Outcome(r)
  BY <1>1, <1>9 DEF Outcome
<1>11. Replied
  BY <1>1, <1>2, <1>9, <1>10, RepliedOne
<1>12. QED
  BY <1>7, <1>8, <1>11

LEMMA WriteServes ==
  ASSUME IInv, On, ServeWrite(cur)
  PROVE  Convs /\ Reads /\ Replied
<1>1. PICK ok \in BOOLEAN : Answer(cur, ok, 0)
  BY DEF ServeWrite
<1>2. cur.op = "write" /\ UNCHANGED <<conv, fid, parked>>
  BY DEF ServeWrite, nodeVars
<1>3. TypeOK
  BY DEF IInv
<1>4. Convs
  BY <1>2, <1>3, Node DEF Convs, Same
<1>5. Reads
  BY <1>2, <1>3, NoReads
<1>6. PICK r \in Replies : pipe' = Append(pipe, r) /\ r.op = cur.op /\ r.tag = cur.tag /\ r.n = 0
  BY <1>1, <1>3, ReplyMade
<1>7. Outcome(r)
  BY <1>2, <1>6 DEF Outcome
<1>8. Replied
  BY <1>2, <1>3, <1>6, <1>7, RepliedOne
<1>9. QED
  BY <1>4, <1>5, <1>8

LEMMA ReadServes ==
  ASSUME IInv, On, ServeRead(cur)
  PROVE  Convs /\ Reads /\ Replied
<1> PICK s : s = fid[cur.fid].slot
  OBVIOUS
<1>1. /\ cur.op = "read" /\ UNCHANGED fid
      /\ \/ Answer(cur, FALSE, 0) /\ UNCHANGED <<conv, parked>>
         \/ /\ conv[s].q > 0 /\ conv' = [conv EXCEPT ![s].q = @ - 1]
            /\ Answer(cur, TRUE, 1) /\ UNCHANGED parked
         \/ /\ parked' = [parked EXCEPT ![s] = Append(@, [run |-> run, tag |-> cur.tag])]
            /\ UNCHANGED <<conv, pipe>>
  BY DEF ServeRead
<1>2. TypeOK
  BY DEF IInv
<1>3. /\ s \in Slot /\ conv \in [Slot -> ConvType] /\ fid \in [Fids -> FidKind]
      /\ parked \in [Slot -> Seq(ReadType)] /\ cur.tag \in Nat /\ run \in 0 .. MaxRuns
      /\ pipe \in Seq(Replies)
  BY <1>2, Node
<1>4. tool.name = "iso" /\ cur.tag = 12 => conv[s].q = 0
  BY SilentRead DEF Silent
<1>5. ~(tool.pc <= SetUp(tool.name))
  BY <1>1, <1>2, EarlyCalls
<1>6. CASE Answer(cur, FALSE, 0) /\ UNCHANGED <<conv, parked>>
  <2>1. Convs
    BY <1>1, <1>3, <1>6 DEF Convs, Same
  <2>2. Reads
    BY <1>2, <1>6, NoReads
  <2>3. PICK r \in Replies : pipe' = Append(pipe, r) /\ r.op = cur.op /\ r.n = 0
    BY <1>2, <1>6, ReplyMade
  <2>4. Replied
    BY <1>1, <1>2, <1>5, <2>3, RepliedOne
  <2>5. QED
    BY <2>1, <2>2, <2>4
<1>7. CASE conv[s].q > 0 /\ conv' = [conv EXCEPT ![s].q = @ - 1] /\ Answer(cur, TRUE, 1) /\ UNCHANGED parked
  <2>1. conv[s] \in ConvType /\ conv[s].q \in 0 .. Depth
    BY <1>3 DEF ConvType
  <2>2. conv[s].q - 1 \in 0 .. Depth
    BY <1>7, <2>1, HostAssumption
  <2>3. /\ conv' \in [Slot -> ConvType]
        /\ \A t \in Slot : /\ conv'[t].used = conv[t].used /\ conv'[t].by = conv[t].by
                           /\ conv'[t].bind = conv[t].bind
                           /\ conv[t].q = 0 => conv'[t].q = 0
    <3>1. PICK z : z = [conv[s] EXCEPT !.q = @ - 1]
      OBVIOUS
    <3>2. z \in ConvType /\ z.used = conv[s].used /\ z.by = conv[s].by /\ z.bind = conv[s].bind
      BY <2>1, <2>2, <3>1 DEF ConvType
    <3>3. conv' = [conv EXCEPT ![s] = z]
      BY <1>7, <3>1, Zenon
    <3>4. conv' \in [Slot -> ConvType] /\ \A t \in Slot : conv'[t] = IF t = s THEN z ELSE conv[t]
      BY <1>3, <3>2, <3>3
    <3>5. ~(conv[s].q = 0)
      BY <1>7
    <3>6. QED
      BY <3>2, <3>4, <3>5
  <2>4. Convs
    BY <1>1, <1>3, <2>3 DEF Convs, Same
  <2>5. Reads
    BY <1>2, <1>7, NoReads
  <2>6. PICK r \in Replies : pipe' = Append(pipe, r) /\ r.op = cur.op /\ r.tag = cur.tag
    BY <1>2, <1>7, ReplyMade
  <2>7. tool.name = "iso" => r.tag # 12
    BY <1>4, <1>7, <2>6
  <2>8. Replied
    BY <1>1, <1>2, <1>5, <2>6, <2>7, RepliedOne
  <2>9. QED
    BY <2>4, <2>5, <2>8
<1>8. CASE /\ parked' = [parked EXCEPT ![s] = Append(@, [run |-> run, tag |-> cur.tag])]
           /\ UNCHANGED <<conv, pipe>>
  <2>1. Convs
    BY <1>1, <1>3, <1>8 DEF Convs, Same
  <2>2. PICK z : z = [run |-> run, tag |-> cur.tag]
    OBVIOUS
  <2>3. z \in ReadType /\ z.run = run /\ z.tag = cur.tag
    BY <1>3, <2>2 DEF ReadType
  <2>4. parked[s] \in Seq(ReadType)
    BY <1>3
  <2>5. PICK p : p = Append(parked[s], z)
    OBVIOUS
  <2>6. /\ p \in Seq(ReadType) /\ Len(parked[s]) \in Nat /\ Len(p) = Len(parked[s]) + 1
        /\ \A k \in 1 .. Len(parked[s]) : p[k] = parked[s][k]
        /\ p[Len(parked[s]) + 1] = z
    BY <2>3, <2>4, <2>5
  <2>7. parked' = [parked EXCEPT ![s] = p]
    BY <1>8, <2>2, <2>5, Zenon
  <2>8. parked' \in [Slot -> Seq(ReadType)] /\ \A t \in Slot : parked'[t] = IF t = s THEN p ELSE parked[t]
    BY <1>3, <2>6, <2>7
  <2>9. \A k \in 1 .. Len(p) : k \in 1 .. Len(parked[s]) \/ k = Len(parked[s]) + 1
    BY <2>6
  <2>10. Reads
    BY <1>1, <2>3, <2>6, <2>8, <2>9 DEF Reads
  <2>11. Replied
    BY <1>3, <1>5, <1>8 DEF Replied
  <2>12. QED
    BY <2>1, <2>10, <2>11
<1>9. QED
  BY <1>1, <1>6, <1>7, <1>8

LEMMA ClunkServes ==
  ASSUME IInv, On, ServeClunk(cur)
  PROVE  Convs /\ Reads /\ Replied
<1> PICK s, ok : s = fid[cur.fid].slot /\ ok = (fid[cur.fid].kind # "none")
  OBVIOUS
<1> PICK z : z = Reply("clunk", cur.tag, ok, 0)
  OBVIOUS
<1>1. /\ cur.op = "clunk" /\ fid' = [fid EXCEPT ![cur.fid] = NoFid]
      /\ IF fid[cur.fid].kind = "ctl"
         THEN /\ ConvFreed(s)
              /\ parked' = [parked EXCEPT ![s] = <<>>]
              /\ \E o \in Orders({0} \cup Mine(s)) :
                   pipe' = pipe \o [i \in DOMAIN o |-> IF o[i] = 0 THEN z ELSE ReadReply(s, o[i], 0)]
         ELSE /\ pipe' = Append(pipe, z)
              /\ UNCHANGED <<conv, parked>>
  BY Zenon DEF ServeClunk
<1>2. TypeOK /\ ok \in BOOLEAN
  BY DEF IInv
<1>3. /\ s \in Slot /\ conv \in [Slot -> ConvType] /\ fid \in [Fids -> FidKind] /\ NoFid \in FidKind
      /\ parked \in [Slot -> Seq(ReadType)] /\ cur.tag \in Nat /\ cur.fid \in Fids
      /\ pipe \in Seq(Replies) /\ fid[cur.fid] \in FidKind
  BY <1>2, Node
<1>4. z \in Replies /\ z.op = "clunk" /\ z.tag = cur.tag /\ z.n = 0
  BY <1>2, <1>3 DEF Reply, Replies, Ops
<1>5. ~(tool.pc <= SetUp(tool.name))
  BY <1>1, <1>2, EarlyCalls
<1>6. fid' \in [Fids -> FidKind] /\ \A f \in Fids : fid'[f] = IF f = cur.fid THEN NoFid ELSE fid[f]
  BY <1>1, <1>3
<1>7. CASE fid[cur.fid].kind = "ctl"
  <2>1. fid[cur.fid] = [kind |-> "ctl", slot |-> s]
    BY <1>3, <1>7 DEF FidKind
  <2>2. /\ conv' \in [Slot -> ConvType] /\ conv'[s].used = FALSE /\ conv'[s].by = conv[s].by
        /\ \A t \in Slot \ {s} : conv'[t] = conv[t]
    <3>1. ConvFreed(s)
      BY <1>1, <1>7
    <3>2. /\ conv' \in [Slot -> ConvType]
          /\ conv'[s] = [used |-> FALSE, bind |-> "none", q |-> 0, by |-> conv[s].by]
          /\ \A t \in Slot \ {s} : conv'[t] = conv[t]
      BY <1>2, <1>3, <3>1, Freed
    <3>3. QED
      BY <3>2
  <2>3. Gone(s)
    BY <1>1, <2>1, <2>2 DEF Gone
  <2>4. Convs
    BY <1>1, <1>3, <1>6, <2>1, <2>2, <2>3 DEF Convs, Same
  <2>5. Reads
    <3>1. <<>> \in Seq(ReadType) /\ Len(<<>>) = 0
      BY EmptySeq
    <3>2. /\ parked' \in [Slot -> Seq(ReadType)] /\ parked'[s] = <<>>
          /\ \A t \in Slot \ {s} : parked'[t] = parked[t]
      BY <1>1, <1>3, <1>7, <3>1
    <3>3. Len(parked'[s]) = 0
      BY <3>1, <3>2, Zenon
    <3>4. QED
      BY <3>2, <3>3 DEF Reads
  <2>6. Replied
    <3>1. PICK o \in Orders({0} \cup Mine(s)) :
            pipe' = pipe \o [i \in DOMAIN o |-> IF o[i] = 0 THEN z ELSE ReadReply(s, o[i], 0)]
      BY <1>1, <1>7
    <3>2. PICK n \in Nat : o \in [1 .. n -> {0} \cup Mine(s)]
      BY <1>2, <1>3, Finite, OrdersAre
    <3>3. PICK q : q = [i \in 1 .. n |-> IF o[i] = 0 THEN z ELSE ReadReply(s, o[i], 0)]
      OBVIOUS
    <3>4. pipe' = pipe \o q
      BY <3>1, <3>2, <3>3
    <3>5. ASSUME NEW k \in 1 .. n
          PROVE  q[k] \in Replies /\ q[k].op \in {"clunk", "read"} /\ q[k].n = 0
      <4>1. CASE o[k] = 0
        BY <1>4, <3>3, <4>1
      <4>2. CASE o[k] # 0
        <5>1. o[k] \in 1 .. Len(parked[s]) /\ q[k] = ReadReply(s, o[k], 0)
          BY <3>2, <3>3, <4>2 DEF Mine
        <5>2. QED
          BY <1>2, <1>3, <5>1, ReadReplies
      <4>3. QED
        BY <4>1, <4>2
    <3>6. q \in [1 .. n -> Replies]
      BY <3>3, <3>5
    <3>7. /\ pipe' \in Seq(Replies)
          /\ \A i \in 1 .. Len(pipe') :
               (i <= Len(pipe) /\ pipe'[i] = pipe[i]) \/ \E k \in 1 .. n : pipe'[i] = q[k]
      BY <1>3, <3>4, <3>6, Behindhand
    <3>8. QED
      BY <1>5, <3>5, <3>7 DEF Replied
  <2>7. QED
    BY <2>4, <2>5, <2>6
<1>8. CASE fid[cur.fid].kind # "ctl"
  <2>1. pipe' = Append(pipe, z) /\ UNCHANGED <<conv, parked>>
    BY <1>1, <1>8
  <2>2. Convs
    BY <1>1, <1>3, <1>6, <1>8, <2>1 DEF Convs, Same
  <2>3. Reads
    BY <1>2, <2>1, NoReads
  <2>4. Replied
    BY <1>2, <1>4, <1>5, <2>1, RepliedOne
  <2>5. QED
    BY <2>2, <2>3, <2>4
<1>9. QED
  BY <1>7, <1>8

LEMMA Serves ==
  ASSUME IInv, On, Serve(cur)
  PROVE  Convs /\ Reads /\ Replied
BY VersionServes, AttachServes, WalkServes, PlainServes, CtlServes, WriteServes, ReadServes,
   ClunkServes, Zenon DEF Serve

(* What a call preserves.                                                    *)
Calls == Sends /\ Convs /\ Reads /\ Replied

LEMMA CallsType ==
  ASSUME IInv, Calls
  PROVE  TypeOK' /\ RunsApart' /\ PostsGoOn'
<1>1. TypeOK /\ On /\ UNCHANGED <<run, rx>> /\ tool'.name = tool.name /\ script' = script
  BY DEF IInv, Calls, Sends, script
<1>2. TypeOK'
  <2>1. \A i \in 1 .. Len(pipe') : pipe'[i].op = "num" => pipe'[i].n \in Slot
    <3>1. \A i \in 1 .. Len(pipe) : pipe[i].op = "num" => pipe[i].n \in Slot
      BY <1>1 DEF TypeOK
    <3>2. Len(pipe) \in Nat
      BY <1>1, Node
    <3>3. \A i \in 1 .. Len(pipe') :
            (i <= Len(pipe) /\ pipe'[i] = pipe[i]) \/ (pipe'[i].op = "num" => pipe'[i].n \in Slot)
      BY DEF Calls, Replied
    <3>4. QED
      BY <3>1, <3>2, <3>3
  <2>2. pipe' \in Seq(Replies)
    BY DEF Calls, Replied
  <2>3. /\ conv' \in [Slot -> [used : BOOLEAN, bind : Bind, q : 0 .. Depth, by : 0 .. MaxRuns]]
        /\ parked' \in [Slot -> Seq([run : 0 .. MaxRuns, tag : Nat])]
        /\ fid' \in [Fids -> [kind : {"none", "root", "ctl", "data", "status"}, slot : Slot]]
    BY DEF Calls, Convs, Reads, ConvType, ReadType, FidKind
  <2>4. tool' \in Tools /\ tool'.pc <= Len(script') /\ run' \in 0 .. MaxRuns /\ rx' \in 0 .. MaxRx
    BY <1>1 DEF Calls, Sends, TypeOK
  <2>5. QED
    BY <2>1, <2>2, <2>3, <2>4 DEF TypeOK
<1>3. run > 0 /\ run \in Nat
  BY <1>1, Node DEF IInv, RunsApart
<1>4. RunsApart'
  <2>1. \A s \in Slot : conv'[s].by <= run
    <3>1. \A s \in Slot : conv'[s].by = conv[s].by \/ conv'[s].by = run
      <4>1. \A s \in Slot : Same(s) \/ New(s) \/ Gone(s)
        BY DEF Calls, Convs
      <4>2. \A s \in Slot : New(s) => conv'[s].by = run
        BY DEF New, Fresh
      <4>3. \A s \in Slot : Same(s) \/ Gone(s) => conv'[s].by = conv[s].by
        BY DEF Same, Gone
      <4>4. QED
        BY <4>1, <4>2, <4>3
    <3>2. QED
      BY <1>3, <3>1 DEF IInv, RunsApart
  <2>2. \A s \in Slot : \A i \in 1 .. Len(parked'[s]) : run > 0 /\ parked'[s][i].run <= run
    <3>1. \A s \in Slot : \A i \in 1 .. Len(parked'[s]) :
            \/ \E j \in 1 .. Len(parked[s]) : parked'[s][i] = parked[s][j]
            \/ parked'[s][i].run = run
      BY DEF Calls, Reads
    <3>2. QED
      BY <1>3, <3>1 DEF IInv, RunsApart
  <2>3. QED
    BY <1>1, <1>3, <2>1, <2>2 DEF RunsApart
<1>5. PostsGoOn'
  <2>1. ASSUME tool'.phase # "top"
        PROVE  cur'.how # "post"
    <3>1. tool'.pc = tool.pc /\ cur.how \in {"rpc", "loop"}
      BY <2>1 DEF Calls, Sends
    <3>2. cur' = cur
      BY <1>1, <3>1 DEF cur
    <3>3. QED
      BY <3>1, <3>2
  <2>2. QED
    BY <2>1 DEF PostsGoOn
<1>6. QED
  BY <1>2, <1>4, <1>5

LEMMA CallsApart ==
  ASSUME IInv, Calls
  PROVE  CtlFidsApart'
<1>1. On /\ run > 0 /\ TypeOK /\ cur.fid \in Fids
  BY Node DEF IInv, RunsApart, Calls, Sends
<1>2. \A f \in Fids : fid[f].slot \in Slot /\ fid[f] \in FidKind
  BY <1>1, Node DEF FidKind
<1>3. \A f \in Fids : fid'[f].kind = "ctl" =>
        \/ fid'[f] = fid[f]
        \/ f = cur.fid /\ New(fid'[f].slot)
  BY DEF Calls, Convs, NoFid
<1>4. ASSUME NEW f \in Fids, fid'[f].kind = "ctl"
      PROVE  /\ conv'[fid'[f].slot].used /\ conv'[fid'[f].slot].by > 0
             /\ \A g \in Fids : g # f /\ fid'[g].kind = "ctl" => fid'[g].slot # fid'[f].slot
  <2>1. CASE New(fid'[f].slot) /\ f = cur.fid
    <3>1. conv'[fid'[f].slot].used /\ conv'[fid'[f].slot].by = run /\ ~conv[fid'[f].slot].used
      BY <2>1 DEF New, Fresh
    <3>2. ASSUME NEW g \in Fids, g # f, fid'[g].kind = "ctl"
          PROVE  fid'[g].slot # fid'[f].slot
      <4>1. fid'[g] = fid[g]
        BY <1>3, <2>1, <3>2
      <4>2. conv[fid[g].slot].used
        BY <3>2, <4>1 DEF IInv, CtlFidsApart
      <4>3. QED
        BY <3>1, <4>1, <4>2
    <3>3. QED
      BY <1>1, <3>1, <3>2
  <2>2. CASE fid'[f] = fid[f]
    <3> PICK s \in Slot : s = fid[f].slot
      BY <1>2
    <3>1. /\ conv[s].used /\ conv[s].by > 0
          /\ \A g \in Fids : g # f /\ fid[g].kind = "ctl" => fid[g].slot # s
      BY <1>4, <2>2 DEF IInv, CtlFidsApart
    <3>2. ~New(s)
      BY <3>1 DEF New
    <3>3. ~Gone(s)
      <4>1. ASSUME Gone(s)
            PROVE  FALSE
        <5>1. fid[cur.fid].kind = "ctl" /\ fid[cur.fid].slot = s /\ cur.op = "clunk" /\ conv'[s].used = FALSE
          BY <4>1 DEF Gone
        <5>2. cur.fid = f
          BY <1>1, <3>1, <5>1
        <5>3. fid[f].kind = "ctl" /\ fid'[f] = fid[f]
          BY <1>4, <2>2
        <5>4. fid'[f].kind = "none"
          BY <5>1, <5>2 DEF Calls, Convs, NoFid
        <5>5. QED
          BY <5>3, <5>4
      <4>2. QED
        BY <4>1
    <3>4. Same(s)
      BY <3>2, <3>3 DEF Calls, Convs
    <3>5. conv'[s].used /\ conv'[s].by > 0
      BY <3>1, <3>4 DEF Same
    <3>6. ASSUME NEW g \in Fids, g # f, fid'[g].kind = "ctl"
          PROVE  fid'[g].slot # s
      <4>1. fid'[g] = fid[g] \/ New(fid'[g].slot)
        BY <1>3, <3>6
      <4>2. QED
        BY <3>1, <3>2, <3>6, <4>1
    <3>7. QED
      BY <2>2, <3>5, <3>6
  <2>3. QED
    BY <1>3, <1>4, <2>1, <2>2
<1>5. QED
  BY <1>4 DEF CtlFidsApart

(* A call of the strict part is the only one on its way, or goes behind the    *)
(* number's late reply.                                                      *)
LEMMA CallsPipe ==
  ASSUME IInv, Calls, tool.pc <= SetUp(tool.name)
  PROVE  /\ tool'.pc = tool.pc /\ tool'.phase = "sent" /\ tool'.num = tool.num /\ cur' = cur
         /\ \/ /\ ~Behind /\ ~Behind' /\ pipe = <<>> /\ Len(pipe') = 1
               /\ pipe'[1] \in Replies /\ Outcome(pipe'[1])
            \/ Behind /\ Behind' /\ pipe # <<>> /\ pipe' # <<>>
<1>1. /\ TypeOK /\ On /\ tool.phase = "top" /\ tool'.name = tool.name /\ pipe \in Seq(Replies)
  BY Node DEF IInv, Calls, Sends
<1>2. cur.how = "rpc"
  BY <1>1, EarlyCalls
<1>3. tool'.pc = tool.pc /\ tool'.phase = "sent" /\ tool'.num = tool.num /\ cur' = cur
  BY <1>1, <1>2 DEF Calls, Sends, cur, script
<1>4. PICK r \in Replies : pipe' = Append(pipe, r) /\ Outcome(r)
  BY DEF Calls, Replied
<1>5. /\ Len(pipe) \in Nat /\ Len(Append(pipe, r)) = Len(pipe) + 1
      /\ \A k \in 1 .. Len(pipe) : Append(pipe, r)[k] = pipe[k]
      /\ Append(pipe, r)[Len(pipe) + 1] = r
  BY <1>1, Appended, Zenon
<1>6. Len(<<>>) = 0 /\ (pipe # <<>> => Len(pipe) # 0)
  BY <1>1, EmptySeq
<1>7. CASE pipe = <<>>
  <2>1. Len(pipe) = 0
    BY <1>6, <1>7, Zenon
  <2>2. Len(pipe') = 1 /\ pipe'[1] = r
    BY <1>4, <1>5, <2>1
  <2>3. r.op = cur.op
    BY <1>4 DEF Outcome
  <2>4. ~Behind /\ ~Behind'
    BY <1>3, <1>7, <2>2, <2>3 DEF Behind
  <2>5. QED
    BY <1>3, <1>4, <1>7, <2>2, <2>4
<1>8. CASE pipe # <<>>
  <2>1. Behind
    BY <1>1, <1>8 DEF IInv, InOrder
  <2>2. 1 \in 1 .. Len(pipe) /\ Len(pipe') # 0
    BY <1>4, <1>5, <1>6, <1>8
  <2>3. pipe'[1] = pipe[1]
    BY <1>4, <1>5, <2>2
  <2>4. pipe' # <<>>
    BY <1>6, <2>2, Zenon
  <2>5. Behind'
    BY <1>3, <2>1, <2>3, <2>4 DEF Behind
  <2>6. QED
    BY <1>3, <1>8, <2>1, <2>4, <2>5
<1>9. QED
  BY <1>7, <1>8

(* A call behind the strict part does not lead back into it.                  *)
LEMMA CallsOn ==
  ASSUME IInv, Calls, ~(tool.pc <= SetUp(tool.name))
  PROVE  tool'.pc = 0 \/ ~(tool'.pc <= SetUp(tool.name))
<1> PICK up : up = SetUp(tool.name)
  OBVIOUS
<1>1. up \in Nat /\ tool.pc \in Nat
  BY Here DEF IInv, Planned, Places
<1>2. tool'.pc \in {0, tool.pc, tool.pc + 1}
  BY DEF Calls, Sends
<1>3. QED
  BY <1>1, <1>2

LEMMA CallsInOrder ==
  ASSUME IInv, Calls
  PROVE  InOrder'
<1>1. TypeOK /\ On /\ tool.phase = "top" /\ tool'.name = tool.name /\ UNCHANGED run /\ script' = script
  BY DEF IInv, Calls, Sends, script
<1> SUFFICES ASSUME On', tool'.pc <= SetUp(tool.name)
             PROVE  InOrder'
  BY <1>1 DEF InOrder
<1>2. tool.pc <= SetUp(tool.name)
  BY CallsOn DEF On
<1>3. /\ tool'.pc = tool.pc /\ tool'.phase = "sent" /\ cur' = cur
      /\ \/ Len(pipe') = 1 /\ Outcome(pipe'[1])
         \/ Behind /\ Behind' /\ pipe # <<>>
  BY <1>2, CallsPipe
<1>4. \A s \in Slot : Mine(s)' = {}
  <2>1. cur.op # "read"
    BY <1>1, <1>2, EarlyCalls
  <2>2. \A s \in Slot : Mine(s) = {}
    BY <1>1, <1>2 DEF IInv, InOrder
  <2>3. \A s \in Slot : \A i \in 1 .. Len(parked'[s]) :
          \E j \in 1 .. Len(parked[s]) : parked'[s][i] = parked[s][j]
    BY <2>1 DEF Calls, Reads
  <2>4. QED
    BY <1>1, <2>2, <2>3 DEF Mine
<1>5. ("sent" # "top") = TRUE
  OBVIOUS
<1>6. Behind /\ pipe # <<>> => tool.pc > 1 /\ script[tool.pc - 1].op = "num"
  <2>1. Behind /\ pipe # <<>> => ~(tool.phase = "top" /\ pipe = <<>>)
    OBVIOUS
  <2>2. QED
    BY <1>1, <1>2, <2>1 DEF IInv, InOrder
<1>7. Outcome(pipe'[1]) => pipe'[1].op = cur.op
  BY DEF Outcome
<1>8. QED
  BY <1>1, <1>3, <1>4, <1>5, <1>6, <1>7 DEF InOrder

(* A call does not take the mode's conversation or its fids away while it is   *)
(* held.                                                                     *)
LEMMA CallsKeep ==
  ASSUME IInv, Calls, tool.pc <= HeldTo(tool.name),
         NEW c, c = CtlFid(tool.name), NEW d, d = DataFid(tool.name)
  PROVE  /\ tool.pc > 2 /\ fid[c].kind = "ctl" =>
              fid'[c] = fid[c] /\ conv'[fid[c].slot].by = conv[fid[c].slot].by
         /\ tool.pc > 2 /\ fid[d].kind = "data" => fid'[d] = fid[d]
         /\ c \in Fids /\ fid[c].slot \in Slot
<1> PICK S, i, held : S = script /\ i = tool.pc /\ held = HeldTo(tool.name)
  OBVIOUS
<1>1. TypeOK /\ On
  BY DEF IInv, Calls, Sends
<1>2. /\ i \in 1 .. Len(S) /\ cur = S[i] /\ {c, d} \subseteq Fids \ {0}
      /\ S[i].op = "version" => i = 1
      /\ S[i].op = "clunk" => S[i].fid \notin {c, d}
  <2>1. i \in 1 .. Len(S) /\ cur = S[i]
    BY <1>1, Here
  <2>2. {c, d} \subseteq Fids \ {0}
    BY <1>1, Here DEF Planned, Places
  <2>3. Keeps(S, c, d, DataAt(tool.name), held, tool.name # "bstatus")
    BY <1>1, Here DEF Planned
  <2>4. QED
    BY <2>1, <2>2, <2>3 DEF Keeps
<1>3. ASSUME i > 2, NEW f \in {c, d}, fid[f].kind # "none"
      PROVE  fid'[f] = fid[f]
  <2>1. cur.op # "version"
    BY <1>2, <1>3
  <2>2. ~(cur.op = "clunk" /\ f = cur.fid)
    BY <1>2
  <2>3. f \in Fids /\ f # 0
    BY <1>2
  <2>4. QED
    BY <1>3, <2>1, <2>2, <2>3 DEF Calls, Convs
<1>4. c \in Fids /\ fid[c].slot \in Slot
  <2>1. c \in Fids
    BY <1>2
  <2>2. fid[c] \in FidKind
    BY <1>1, <2>1, Node
  <2>3. QED
    BY <2>1, <2>2 DEF FidKind
<1>5. fid[c].kind = "ctl" => conv'[fid[c].slot].by = conv[fid[c].slot].by
  <2>1. fid[c].kind = "ctl" => conv[fid[c].slot].used
    BY <1>4 DEF IInv, CtlFidsApart
  <2>2. Same(fid[c].slot) \/ New(fid[c].slot) \/ Gone(fid[c].slot)
    BY <1>4 DEF Calls, Convs
  <2>3. QED
    BY <2>1, <2>2 DEF Same, New, Gone
<1>6. QED
  BY <1>3, <1>4, <1>5

LEMMA CallsHolds ==
  ASSUME IInv, Calls
  PROVE  Holds'
<1> PICK m, S, c, d, w, a, up, held, i :
      /\ m = tool.name /\ S = script /\ c = CtlFid(m) /\ d = DataFid(m) /\ w = CloneAt(m)
      /\ a = DataAt(m) /\ up = SetUp(m) /\ held = HeldTo(m) /\ i = tool.pc
  OBVIOUS
<1>1. /\ TypeOK /\ On /\ tool.phase = "top" /\ tool'.name = m /\ UNCHANGED run /\ script' = S
      /\ i \in 1 .. Len(S) /\ cur = S[i] /\ Len(S) \in Nat
  BY Here DEF IInv, Calls, Sends, script
<1>2. /\ w \in Nat /\ a \in Nat /\ up \in Nat /\ held \in Nat
      /\ 2 < w /\ w + 2 < a /\ a < up /\ up <= held /\ NumAt(m) = w + 2
  BY <1>1, Here DEF Planned, Places, NumAt
<1>3. Makes(S, c, d, w, a, m # "bstatus")
  BY <1>1, Here DEF Planned
<1> PICK s : s = fid[c].slot
  OBVIOUS
<1>4. i <= held =>
        /\ Got(w) => fid[c].kind = "ctl" /\ conv[s].by = run
        /\ i \in w + 3 .. a /\ ~Behind => tool.num = s
        /\ Got(a) /\ m # "bstatus" => fid[d] = [kind |-> "data", slot |-> s]
  BY <1>1, <1>2 DEF IInv, Holds
<1> SUFFICES ASSUME On', tool'.pc <= held
             PROVE  /\ Got(w)' => fid'[c].kind = "ctl" /\ conv'[fid'[c].slot].by = run
                    /\ tool'.pc = w + 2 /\ pipe' # <<>> => pipe'[1].ok /\ pipe'[1].n = fid'[c].slot
                    /\ tool'.pc \in w + 3 .. a /\ ~Behind' => tool'.num = fid'[c].slot
                    /\ Got(a)' /\ m # "bstatus" => fid'[d] = [kind |-> "data", slot |-> fid'[c].slot]
  <2>1. /\ CloneAt(tool'.name) = w /\ DataAt(tool'.name) = a /\ HeldTo(tool'.name) = held
        /\ CtlFid(tool'.name) = c /\ DataFid(tool'.name) = d /\ NumAt(tool'.name) = w + 2
        /\ NumAt(tool'.name) + 1 = w + 3 /\ run' = run
    BY <1>1, <1>2
  <2>2. QED
    BY <1>1, <2>1, Zenon DEF Holds
<1>5. i <= held /\ tool'.pc \in Nat /\ tool'.pc # 0
  <2>1. tool'.pc \in {0, i, i + 1}
    BY DEF Calls, Sends
  <2>2. QED
    BY <1>1, <1>2, <2>1 DEF On
<1>6. /\ i > 2 /\ fid[c].kind = "ctl" => fid'[c] = fid[c] /\ conv'[s].by = conv[s].by
      /\ i > 2 /\ fid[d].kind = "data" => fid'[d] = fid[d]
  BY <1>5, CallsKeep
<1>7. CASE i > up
  <2>1. Got(w) /\ Got(a) /\ i > 2
    BY <1>1, <1>2, <1>7 DEF Got
  <2>2. tool'.pc > up
    <3>1. tool'.pc \in {0, i, i + 1}
      BY DEF Calls, Sends
    <3>2. QED
      BY <1>1, <1>2, <1>5, <1>7, <3>1
  <2>3. tool'.pc # w + 2 /\ tool'.pc \notin w + 3 .. a
    BY <1>2, <1>5, <2>2
  <2>4. QED
    BY <1>4, <1>5, <1>6, <2>1, <2>3
<1>8. CASE i <= up
  <2>1. /\ tool'.pc = i /\ tool'.num = tool.num
        /\ \/ /\ ~Behind /\ ~Behind' /\ pipe = <<>> /\ Len(pipe') = 1
              /\ pipe'[1] \in Replies /\ Outcome(pipe'[1])
           \/ Behind /\ Behind' /\ pipe # <<>>
    BY <1>8, CallsPipe
  <2>2. i > w => fid[c].kind = "ctl" /\ conv[s].by = run /\ fid'[c] = fid[c] /\ conv'[s].by = run
    <3>1. i > w => Got(w) /\ i > 2
      BY <1>1, <1>2 DEF Got
    <3>2. QED
      BY <1>4, <1>5, <1>6, <3>1
  <2>3. i > a /\ m # "bstatus" => fid'[d] = [kind |-> "data", slot |-> s] /\ fid'[c] = fid[c]
    <3>1. i > a => Got(a) /\ i > 2 /\ i > w
      BY <1>1, <1>2 DEF Got
    <3>2. QED
      BY <1>4, <1>5, <1>6, <2>2, <3>1
  <2>4. CASE Behind /\ Behind'
    <3>1. (Got(w)' => i > w) /\ (Got(a)' => i > a)
      BY <1>1, <1>2, <2>1, <2>4 DEF Got
    <3>2. i # w + 2
      BY <1>1, <1>3, <2>4 DEF Behind, Makes
    <3>3. QED
      BY <2>1, <2>2, <2>3, <2>4, <3>1, <3>2
  <2>5. CASE ~Behind /\ ~Behind' /\ Outcome(pipe'[1])
    <3>1. /\ Got(w)' => i > w \/ (i = w /\ pipe'[1].ok)
          /\ Got(a)' => i > a \/ (i = a /\ pipe'[1].ok)
      BY <1>1, <1>2, <2>1 DEF Got
    <3>2. ASSUME i = w, pipe'[1].ok
          PROVE  fid'[c].kind = "ctl" /\ conv'[fid'[c].slot].by = run
      <4>1. cur.op = "walk" /\ cur.arg = "clone" /\ cur.fid = c
        BY <1>1, <1>3, <3>2 DEF Makes
      <4>2. New(fid'[c].slot)
        BY <2>5, <3>2, <4>1 DEF Outcome
      <4>3. QED
        BY <4>1, <4>2 DEF New, Fresh
    <3>3. ASSUME i = w + 2
          PROVE  pipe'[1].ok /\ pipe'[1].n = fid'[c].slot
      <4>1. cur.op = "num" /\ cur.fid = c
        BY <1>1, <1>3, <3>3 DEF Makes
      <4>2. i > w
        BY <1>2, <3>3
      <4>3. fid[c].kind = "ctl" /\ fid'[c] = fid[c]
        BY <2>2, <4>2
      <4>4. QED
        BY <2>5, <4>1, <4>3 DEF Outcome
    <3>4. ASSUME i \in w + 3 .. a
          PROVE  tool'.num = fid'[c].slot /\ tool.num = s /\ fid'[c] = fid[c]
      <4>1. i > w
        BY <1>2, <3>4
      <4>2. tool.num = s
        BY <1>4, <1>5, <2>5, <3>4
      <4>3. QED
        BY <2>1, <2>2, <4>1, <4>2
    <3>5. ASSUME i = a, pipe'[1].ok, m # "bstatus"
          PROVE  fid'[d] = [kind |-> "data", slot |-> fid'[c].slot]
      <4>1. cur.op = "walk" /\ cur.fid = d /\ cur.arg = "data"
        BY <1>1, <1>3, <3>5 DEF Makes
      <4>2. i \in w + 3 .. a
        BY <1>2, <3>5
      <4>3. tool.num = fid'[c].slot
        BY <2>1, <3>4, <4>2
      <4>4. QED
        BY <2>5, <3>5, <4>1, <4>3 DEF Outcome
    <3>6. Got(w)' => fid'[c].kind = "ctl" /\ conv'[fid'[c].slot].by = run
      BY <2>2, <3>1, <3>2
    <3>7. Got(a)' /\ m # "bstatus" => fid'[d] = [kind |-> "data", slot |-> fid'[c].slot]
      BY <2>3, <3>1, <3>5
    <3>8. QED
      BY <2>1, <3>3, <3>4, <3>6, <3>7
  <2>6. QED
    BY <2>1, <2>4, <2>5
<1>9. QED
  BY <1>1, <1>2, <1>7, <1>8

LEMMA CallsSilent ==
  ASSUME IInv, Calls
  PROVE  IsoSilent'
<1>1. TypeOK /\ On /\ tool.phase = "top" /\ tool'.name = tool.name /\ UNCHANGED run
  BY DEF IInv, Calls, Sends
<1> SUFFICES ASSUME tool.name = "iso"
             PROVE  IsoSilent'
  BY <1>1 DEF IsoSilent
<1>2. /\ CloneAt("iso") = 9 /\ SetUp("iso") = 20 /\ HeldTo("iso") = Len(script)
      /\ CtlFid("iso") = 2 /\ DataFid("iso") = 12
  BY DEF CloneAt, SetUp, HeldTo, CtlFid, DataFid, Careful, script, Script
<1>3. /\ tool.pc \in 1 .. Len(script) /\ Len(script) \in Nat /\ cur = script[tool.pc] /\ Quiet(script)
      /\ cur.fid \in Fids
  BY <1>1, Here, Node
<1>4. cur.op # "clunk" /\ (cur.op = "ctl" => tool.pc <= 20 /\ (cur.fid = 2 => cur.arg = "fake"))
  BY <1>3 DEF Quiet
<1>5. ASSUME NEW s \in Slot, Silent(s), cur.op # "ctl" \/ fid[2] = [kind |-> "ctl", slot |-> s]
      PROVE  Silent(s)'
  <2>1. ~New(s) /\ ~Gone(s)
    BY <1>4, <1>5 DEF Silent, New, Gone
  <2>2. Same(s)
    BY <2>1 DEF Calls, Convs
  <2>3. cur.op = "ctl" /\ fid[cur.fid] = [kind |-> "ctl", slot |-> s] => cur.arg = "fake"
    <3>1. ASSUME cur.op = "ctl", fid[cur.fid] = [kind |-> "ctl", slot |-> s]
          PROVE  cur.fid = 2
      <4>1. /\ fid[2].kind = "ctl" /\ fid[2].slot = s /\ fid[cur.fid].kind = "ctl"
            /\ fid[cur.fid].slot = s /\ 2 \in Fids
        BY <1>5, <3>1 DEF Fids
      <4>2. QED
        BY <1>3, <4>1 DEF IInv, CtlFidsApart
    <3>2. QED
      BY <1>4, <3>1
  <2>4. QED
    BY <1>1, <1>5, <2>2, <2>3 DEF Silent, Same
<1>6. ASSUME On', Got(9)'
      PROVE  Silent(fid[2].slot)'
  <2>1. CASE Got(9) /\ tool.pc > 9
    <3>1. Silent(fid[2].slot) /\ fid[2].kind = "ctl"
      <4>1. Silent(fid[2].slot)
        BY <1>1, <1>2, <2>1 DEF IInv, IsoSilent
      <4>2. fid[2].kind = "ctl"
        BY <1>1, <1>2, <1>3, <2>1 DEF IInv, Holds
      <4>3. QED
        BY <4>1, <4>2
    <3>2. fid'[2] = fid[2] /\ fid[2].slot \in Slot
      <4>1. tool.pc <= HeldTo(tool.name) /\ 2 = CtlFid(tool.name) /\ tool.pc > 2
        BY <1>2, <1>3, <2>1
      <4>2. QED
        BY <3>1, <4>1, CallsKeep
    <3>3. fid[2] = [kind |-> "ctl", slot |-> fid[2].slot]
      <4>1. fid[2] \in FidKind
        BY <1>1, Node DEF Fids
      <4>2. QED
        BY <3>1, <4>1 DEF FidKind
    <3>4. Silent(fid[2].slot)'
      <4>1. PICK s \in Slot : s = fid[2].slot
        BY <3>2
      <4>2. Silent(s)'
        BY <1>5, <3>1, <3>3, <4>1
      <4>3. fid'[2].slot = s
        BY <3>2, <4>1
      <4>4. QED
        BY <4>2, <4>3 DEF Silent
    <3>5. QED
      BY <3>4
  <2>2. CASE tool.pc <= 9
    <3>1. tool.pc <= SetUp(tool.name)
      BY <1>2, <1>3, <2>2
    <3>2. /\ tool'.pc = tool.pc
          /\ ~Behind' => ~Behind /\ Outcome(pipe'[1])
      BY <3>1, CallsPipe
    <3>3. tool.pc = 9 /\ ~Behind' /\ pipe'[1].ok
      BY <1>3, <1>6, <2>2, <3>2 DEF Got
    <3>4. cur.op = "walk" /\ cur.arg = "clone" /\ cur.fid = 2
      <4>1. Makes(script, 2, 12, 9, DataAt("iso"), "iso" # "bstatus")
        BY <1>1, <1>2, Here DEF Planned
      <4>2. QED
        BY <1>3, <3>3, <4>1 DEF Makes
    <3>5. New(fid'[2].slot)
      BY <3>2, <3>3, <3>4 DEF Outcome
    <3>6. QED
      <4>1. PICK s : s = fid'[2].slot
        OBVIOUS
      <4>2. conv'[s] = [used |-> TRUE, bind |-> "none", q |-> 0, by |-> run]
        BY <3>5, <4>1 DEF New, Fresh
      <4>3. QED
        BY <1>1, <4>1, <4>2 DEF Silent
  <2>3. Got(9) \/ tool.pc <= 9
    BY <1>3 DEF Got
  <2>4. QED
    BY <1>3, <2>1, <2>2, <2>3
<1>7. \A s \in Slot : \A i \in Mine(s)' : parked'[s][i].tag = 12 => Silent(s)'
  <2>1. SUFFICES ASSUME NEW s \in Slot, NEW i \in Mine(s)', parked'[s][i].tag = 12
                 PROVE  Silent(s)'
    OBVIOUS
  <2>2. i \in 1 .. Len(parked'[s]) /\ parked'[s][i].run = run
    BY <1>1 DEF Mine
  <2>3. CASE cur.op = "ctl"
    <3>1. \E j \in 1 .. Len(parked[s]) : parked'[s][i] = parked[s][j]
      BY <2>2, <2>3 DEF Calls, Reads
    <3>2. Mine(s) # {}
      BY <2>2, <3>1 DEF Mine
    <3>3. tool.pc <= SetUp(tool.name)
      BY <1>2, <1>4, <2>3
    <3>4. QED
      BY <1>1, <3>2, <3>3 DEF IInv, InOrder
  <2>4. CASE cur.op # "ctl"
    <3>1. CASE \E j \in 1 .. Len(parked[s]) : parked'[s][i] = parked[s][j]
      <4>1. PICK j \in 1 .. Len(parked[s]) : parked'[s][i] = parked[s][j]
        BY <3>1
      <4>2. j \in Mine(s) /\ parked[s][j].tag = 12
        BY <2>1, <2>2, <4>1 DEF Mine
      <4>3. Silent(s)
        BY <4>2 DEF IInv, IsoSilent
      <4>4. QED
        BY <1>5, <2>4, <4>3
    <3>2. CASE cur.op = "read" /\ s = fid[cur.fid].slot /\ parked'[s][i].tag = cur.tag
      <4>1. cur.tag = 12
        BY <2>1, <3>2
      <4>2. cur.fid = 12 /\ Silent(fid[12].slot)
        BY <1>1, <4>1, SilentRead
      <4>3. QED
        BY <1>5, <2>4, <3>2, <4>2
    <3>3. QED
      BY <2>2, <3>1, <3>2 DEF Calls, Reads
  <2>5. QED
    BY <2>3, <2>4
<1>8. \A i \in 1 .. Len(pipe') : pipe'[i].tag = 12 => pipe'[i].n = 0
  <2>1. \A i \in 1 .. Len(pipe) : pipe[i].tag = 12 => pipe[i].n = 0
    BY DEF IInv, IsoSilent
  <2>2. Len(pipe) \in Nat
    BY <1>1, Node
  <2>3. \A i \in 1 .. Len(pipe') :
          (i <= Len(pipe) /\ pipe'[i] = pipe[i]) \/ (pipe'[i].tag = 12 => pipe'[i].n = 0)
    BY DEF Calls, Replied
  <2>4. QED
    BY <2>1, <2>2, <2>3
<1>9. QED
  BY <1>2, <1>6, <1>7, <1>8 DEF IsoSilent

LEMMA CallsGives ==
  ASSUME IInv, Calls
  PROVE  OneToGive' /\ BoundToolsRelease'
<1> PICK S, i, n : S = script /\ i = tool.pc /\ n = Len(S)
  OBVIOUS
<1>1. /\ TypeOK /\ On /\ tool.phase = "top" /\ tool'.name = tool.name /\ UNCHANGED run
      /\ i \in 1 .. n /\ script' = S /\ n \in Nat /\ cur = S[i] /\ run > 0
      /\ 1 \in Fids /\ cur.fid \in Fids
  BY Here, Node DEF IInv, RunsApart, Calls, Sends, script, Fids
<1> SUFFICES ASSUME tool.name \in Careful
             PROVE  OneToGive' /\ BoundToolsRelease'
  BY <1>1 DEF OneToGive, BoundToolsRelease
<1>2. Clunks(S) /\ tool'.pc = i /\ tool'.phase = "sent" /\ (tool'.bound => tool.bound \/ cur.op = "ctl")
  BY <1>1, Here DEF Calls, Sends
<1>3. On'
  BY <1>1, <1>2 DEF On
<1>4. BoundToolsRelease'
  BY <1>3 DEF BoundToolsRelease
<1>5. /\ \A s \in Slot : conv[s].used /\ conv[s].by = run => i < n /\ i > 1 /\ fid[1] = [kind |-> "ctl", slot |-> s]
      /\ tool.bound => i >= 6
  <2>1. \A s \in Slot : conv[s].used /\ conv[s].by = run =>
          ~Given /\ (i > 1 \/ tool.phase # "top") /\ fid[1] = [kind |-> "ctl", slot |-> s]
    BY <1>1 DEF IInv, OneToGive
  <2>2. ~Given => i < n
    BY <1>1 DEF Given
  <2>3. QED
    BY <1>1, <2>1, <2>2 DEF IInv, OneToGive
<1>6. ASSUME NEW s \in Slot, conv'[s].used, conv'[s].by = run
      PROVE  i < n - 1 /\ fid'[1] = [kind |-> "ctl", slot |-> s]
  <2>1. CASE New(s)
    <3>1. cur.fid = 1 /\ i < n - 1
      BY <1>1, <1>2, <2>1 DEF New, Clunks
    <3>2. QED
      BY <2>1, <3>1 DEF New
  <2>2. CASE Same(s)
    <3>1. conv[s].used /\ conv[s].by = run
      BY <1>6, <2>2 DEF Same
    <3>2. i < n /\ i > 1 /\ fid[1] = [kind |-> "ctl", slot |-> s]
      BY <1>5, <3>1
    <3>3. ~(cur.op = "clunk" /\ cur.fid = 1)
      <4>1. cur.op = "clunk" /\ cur.fid = 1 => Gone(s)
        BY <3>2 DEF Calls, Convs
      <4>2. Gone(s) => conv'[s].used = FALSE
        BY DEF Gone
      <4>3. QED
        BY <1>6, <4>1, <4>2
    <3>4. i # n - 1
      BY <1>1, <1>2, <3>3 DEF Clunks
    <3>5. cur.op # "version"
      <4>1. cur.op = "version" => i = 1
        BY <1>1, Here DEF Planned, Keeps
      <4>2. QED
        BY <1>1, <3>2, <4>1
    <3>6. fid[1].kind = "ctl"
      BY <3>2
    <3>7. fid'[1] = fid[1]
      BY <1>1, <3>3, <3>5, <3>6 DEF Calls, Convs
    <3>8. QED
      BY <1>1, <3>2, <3>4, <3>7
  <2>3. CASE Gone(s)
    BY <1>6, <2>3 DEF Gone
  <2>4. QED
    BY <2>1, <2>2, <2>3 DEF Calls, Convs
<1>7. tool'.bound => i >= 6
  <2>1. cur.op = "ctl" => i >= 6
    BY <1>1, <1>2 DEF Clunks
  <2>2. QED
    BY <1>2, <1>5, <2>1
<1>8. OneToGive'
  <2>1. i < n - 1 => ~Given'
    BY <1>1, <1>2 DEF Given
  <2>2. ("sent" # "top") = TRUE
    OBVIOUS
  <2>3. QED
    BY <1>1, <1>2, <1>6, <1>7, <2>1, <2>2 DEF OneToGive
<1>9. QED
  BY <1>4, <1>8

LEMMA CallsPreserve ==
  ASSUME IInv, Send
  PROVE  IInv'
<1>1. TypeOK
  BY DEF IInv
<1>2. Sends /\ Serve(cur)
  BY <1>1, SendSends
<1>3. On
  BY <1>2 DEF Sends
<1>4. Calls
  BY <1>2, <1>3, Serves DEF Calls
<1>5. QED
  BY <1>4, CallsType, CallsApart, CallsInOrder, CallsHolds, CallsSilent, CallsGives DEF IInv

-----------------------------------------------------------------------------
(* A tool starts; and the theorems.                                          *)

(* What is the same of every script's first step.                            *)
LEMMA First ==
  ASSUME NEW m \in Modes
  PROVE  /\ Len(Script[m]) \in Nat /\ 1 <= Len(Script[m])
         /\ CloneAt(m) > 2 /\ NumAt(m) > 2 /\ DataAt(m) > 2
<1>1. Planned(m, Script[m], CtlFid(m), DataFid(m), CloneAt(m), DataAt(m), SetUp(m), HeldTo(m))
  BY Plans, ModesAssumption
<1> PICK n, w, a, up, held : /\ n = Len(Script[m]) /\ w = CloneAt(m) /\ a = DataAt(m)
                             /\ up = SetUp(m) /\ held = HeldTo(m)
  OBVIOUS
<1>2. /\ {w, a, up, held, n} \subseteq Nat /\ 2 < w /\ w + 2 < a /\ a < up /\ up <= held /\ held <= n
  BY <1>1 DEF Planned, Places
<1>3. QED
  BY <1>2 DEF NumAt

LEMMA StartPreserves ==
  ASSUME IInv, NEW mode \in Modes, Start(mode)
  PROVE  IInv'
<1>1. /\ run < MaxRuns /\ run' = run + 1 /\ pipe' = <<>> /\ UNCHANGED <<conv, fid, parked, rx>>
      /\ tool' = [name |-> mode, pc |-> 1, phase |-> "top", stop |-> FALSE, num |-> 0,
                  stash |-> NoReply, cut |-> FALSE, bound |-> FALSE, killed |-> FALSE]
  BY DEF Start, nodeVars
<1>2. TypeOK /\ MaxRuns \in Nat
  BY HostAssumption DEF IInv
<1>3. run \in 0 .. MaxRuns /\ run' \in 0 .. MaxRuns /\ run' > run /\ run' > 0
  BY <1>1, <1>2, Node
<1>4. /\ tool'.name = mode /\ tool'.pc = 1 /\ tool'.phase = "top" /\ tool'.bound = FALSE
      /\ script' = Script[mode] /\ On'
  BY <1>1 DEF script, On
<1>5. Len(<<>>) = 0 /\ <<>> \in Seq(Replies) /\ Len(pipe') = 0
  BY <1>1, EmptySeq
<1>6. TypeOK'
  <2>1. NoReply \in Replies /\ 0 \in Slot
    BY <1>2, Node DEF NoReply, Reply, Replies, Ops
  <2>2. tool' \in Tools
    BY <1>1, <2>1 DEF Tools
  <2>3. tool'.pc <= Len(script')
    BY <1>4, First
  <2>4. /\ conv' \in [Slot -> [used : BOOLEAN, bind : Bind, q : 0 .. Depth, by : 0 .. MaxRuns]]
        /\ fid' \in [Fids -> [kind : {"none", "root", "ctl", "data", "status"}, slot : Slot]]
        /\ parked' \in [Slot -> Seq([run : 0 .. MaxRuns, tag : Nat])] /\ rx' \in 0 .. MaxRx
    BY <1>1, <1>2, Zenon DEF TypeOK
  <2>5. pipe' \in Seq(Replies)
    BY <1>1, <1>5, Zenon
  <2>6. \A i \in 1 .. Len(pipe') : pipe'[i].op = "num" => pipe'[i].n \in Slot
    <3>1. 1 .. Len(pipe') = {}
      BY <1>5
    <3>2. QED
      BY <3>1, Zenon
  <2>7. QED
    BY <1>3, <2>2, <2>3, <2>4, <2>5, <2>6, Zenon DEF TypeOK
<1>7. \A s \in Slot : conv[s].by \in Nat /\ conv[s].by <= run
  <2>1. \A s \in Slot : conv[s] \in ConvType
    BY <1>2, Node
  <2>2. QED
    BY <2>1 DEF IInv, RunsApart, ConvType
<1>8. \A s \in Slot : \A i \in 1 .. Len(parked[s]) : parked[s][i].run \in Nat /\ parked[s][i].run <= run
  <2>1. \A s \in Slot : \A i \in 1 .. Len(parked[s]) : parked[s][i] \in ReadType
    BY <1>2, Node
  <2>2. QED
    BY <2>1 DEF IInv, RunsApart, ReadType
<1>9. RunsApart'
  BY <1>1, <1>3, <1>7, <1>8 DEF RunsApart
<1>10. CtlFidsApart'
  BY <1>1 DEF IInv, CtlFidsApart
<1>11. \A s \in Slot : Mine(s)' = {}
  BY <1>1, <1>3, <1>8 DEF Mine
<1>12. InOrder'
  BY <1>1, <1>4, <1>11 DEF InOrder
<1>13. PostsGoOn'
  BY <1>4 DEF PostsGoOn
<1>14. /\ ~Got(CloneAt(mode))' /\ ~Got(DataAt(mode))' /\ tool'.pc # NumAt(mode)
       /\ tool'.pc \notin NumAt(mode) + 1 .. DataAt(mode)
  <2> PICK w, a : w = CloneAt(mode) /\ a = DataAt(mode)
    OBVIOUS
  <2>1. w \in Nat /\ a \in Nat /\ w > 2 /\ a > 2 /\ NumAt(mode) = w + 2
    BY Plans, First, ModesAssumption DEF Planned, Places, NumAt
  <2>2. ~Got(w)' /\ ~Got(a)'
    BY <1>4, <2>1 DEF Got
  <2>3. QED
    BY <1>4, <2>1, <2>2
<1>15. Holds'
  BY <1>4, <1>14 DEF Holds
<1>16. IsoSilent'
  BY <1>4, <1>5, <1>11, <1>14 DEF IsoSilent
<1>17. OneToGive'
  BY <1>1, <1>3, <1>4, <1>7 DEF OneToGive
<1>18. BoundToolsRelease'
  BY <1>4 DEF BoundToolsRelease
<1>19. QED
  BY <1>6, <1>9, <1>10, <1>12, <1>13, <1>15, <1>16, <1>17, <1>18 DEF IInv

LEMMA Initial ==
  ASSUME Init
  PROVE  IInv
<1>1. PICK m \in Modes : m = CHOOSE x \in Modes : TRUE
  BY HostAssumption
<1>2. /\ tool = [name |-> m, pc |-> 0, phase |-> "top", stop |-> FALSE, num |-> 0,
                 stash |-> NoReply, cut |-> FALSE, bound |-> FALSE, killed |-> FALSE]
      /\ run = 0 /\ conv = [s \in Slot |-> [Fresh(0) EXCEPT !.used = FALSE]]
      /\ fid = [f \in Fids |-> NoFid] /\ parked = [s \in Slot |-> <<>>] /\ pipe = <<>> /\ rx = 0
  BY <1>1 DEF Init
<1>3. tool.name = m /\ ~On /\ tool.pc = 0 /\ tool.bound = FALSE /\ tool.phase = "top"
  BY <1>2 DEF On
<1>4. \A S : Len(<<>>) = 0 /\ <<>> \in Seq(S)
  BY EmptySeq
<1>5. TypeOK
  <2>1. NoReply \in Replies /\ 0 \in Slot
    BY HostAssumption DEF NoReply, Reply, Replies, Ops, Slot
  <2>2. tool \in Tools
    BY <1>2, <2>1 DEF Tools
  <2>3. tool.pc <= Len(script)
    BY <1>3, First DEF script
  <2>4. Fresh(0) \in ConvType
    BY Fresher, HostAssumption
  <2>5. [Fresh(0) EXCEPT !.used = FALSE] \in ConvType
    BY <2>4 DEF ConvType
  <2>6. conv \in [Slot -> ConvType]
    BY <1>2, <2>5
  <2>7. fid \in [Fids -> FidKind]
    BY <1>2, <2>1 DEF NoFid, FidKind
  <2>8. parked \in [Slot -> Seq(ReadType)]
    BY <1>2, <1>4
  <2>9. pipe \in Seq(Replies) /\ Len(pipe) = 0
    BY <1>2, <1>4
  <2>10. run \in 0 .. MaxRuns /\ rx \in 0 .. MaxRx
    BY <1>2, HostAssumption
  <2>11. \A i \in 1 .. Len(pipe) : pipe[i].op = "num" => pipe[i].n \in Slot
    <3>1. 1 .. Len(pipe) = {}
      BY <2>9
    <3>2. QED
      BY <3>1, Zenon
  <2>12. QED
    BY <2>2, <2>3, <2>6, <2>7, <2>8, <2>9, <2>10, <2>11, Zenon DEF TypeOK, ConvType, FidKind, ReadType
<1>6. \A s \in Slot : conv[s].by = 0 /\ Len(parked[s]) = 0 /\ Mine(s) = {}
  <2>1. \A s \in Slot : conv[s].by = 0
    BY <1>2 DEF Fresh
  <2>2. \A s \in Slot : Len(parked[s]) = 0
    BY <1>2, <1>4
  <2>3. QED
    BY <2>1, <2>2 DEF Mine
<1>7. RunsApart
  <2>1. \A s \in Slot : conv[s].by <= run
    <3>1. run = 0 /\ \A s \in Slot : conv[s].by = 0
      BY <1>2, <1>6
    <3>2. 0 <= 0
      OBVIOUS
    <3>3. QED
      BY <3>1, <3>2, Zenon
  <2>2. \A s \in Slot : 1 .. Len(parked[s]) = {}
    BY <1>6
  <2>3. \A s \in Slot : \A i \in 1 .. Len(parked[s]) : run > 0 /\ parked[s][i].run <= run
    BY <2>2, Zenon
  <2>4. QED
    BY <1>3, <2>1, <2>3, Zenon DEF RunsApart
<1>8. CtlFidsApart
  BY <1>2 DEF CtlFidsApart, NoFid
<1>9. InOrder /\ Holds /\ PostsGoOn /\ BoundToolsRelease /\ OneToGive
  BY <1>3 DEF InOrder, Holds, PostsGoOn, BoundToolsRelease, OneToGive
<1>10. IsoSilent
  <2>1. Len(pipe) = 0
    BY <1>2, <1>4
  <2>2. QED
    BY <1>3, <1>6, <2>1 DEF IsoSilent
<1>11. QED
  BY <1>5, <1>7, <1>8, <1>9, <1>10 DEF IInv

LEMMA MovesPreserve ==
  ASSUME IInv, Moves
  PROVE  IInv'
<1>1. /\ TypeOK /\ RunsApart /\ CtlFidsApart /\ InOrder /\ Holds /\ IsoSilent /\ OneToGive
      /\ PostsGoOn /\ BoundToolsRelease
  BY DEF IInv
<1>2. QED
  BY <1>1, MovesType, MovesApart, MovesInOrder, MovesHolds, MovesSilent, MovesGives DEF IInv

LEMMA Invariance ==
  ASSUME IInv, [Next]_vars
  PROVE  IInv'
<1>1. TypeOK /\ RunsApart /\ IsoSilent /\ InOrder
  BY DEF IInv
<1>2. CASE \E mode \in Modes : Start(mode)
  BY <1>2, StartPreserves
<1>3. CASE Tool
  <2>1. CASE Send
    BY <2>1, CallsPreserve
  <2>2. CASE LeaveLoop
    BY <1>1, <2>2, LeaveLoopMoves, MovesPreserve
  <2>3. CASE TakeStash
    BY <1>1, <2>3, TakeStashMoves, MovesPreserve
  <2>4. CASE Block
    BY <1>1, <2>4, BlockMoves, MovesPreserve
  <2>5. CASE TakeReply
    BY <1>1, <2>5, TakeReplyMoves, MovesPreserve
  <2>6. CASE TakeTagged
    BY <1>1, <2>6, TakeTaggedMoves, MovesPreserve
  <2>7. QED
    BY <1>3, <2>1, <2>2, <2>3, <2>4, <2>5, <2>6 DEF Tool
<1>4. CASE Client
  BY <1>1, <1>4, ClientMoves, MovesPreserve
<1>5. CASE Signal
  BY <1>1, <1>5, SignalMoves, MovesPreserve
<1>6. CASE Kill
  BY <1>1, <1>6, KillMoves, MovesPreserve
<1>7. CASE \E d \in {"peer", "party"} : Deliver(d)
  BY <1>1, <1>7, DeliverWorlds, WorldsPreserve
<1>8. CASE Expire
  BY <1>1, <1>8, ExpireWorlds, WorldsPreserve
<1>9. CASE OtherClone
  BY <1>1, <1>9, OtherCloneWorlds, WorldsPreserve
<1>10. CASE OtherClunk
  BY <1>1, <1>10, OtherClunkWorlds, WorldsPreserve
<1>11. CASE UNCHANGED vars
  <2>1. UNCHANGED <<tool, run, conv, fid, parked, pipe, rx>>
    BY <1>11 DEF vars, nodeVars
  <2>2. TypeOK' /\ RunsApart' /\ CtlFidsApart' /\ PostsGoOn'
    BY <2>1 DEF IInv, TypeOK, RunsApart, CtlFidsApart, PostsGoOn, script, cur, On
  <2>3. InOrder' /\ Holds'
    BY <2>1 DEF IInv, InOrder, Holds, Got, Behind, Mine, script, cur, On
  <2>4. IsoSilent' /\ OneToGive' /\ BoundToolsRelease'
    BY <2>1 DEF IInv, IsoSilent, Silent, OneToGive, Given, Got, Behind, Mine, BoundToolsRelease, script, cur, On
  <2>5. QED
    BY <2>2, <2>3, <2>4 DEF IInv
<1>12. QED
  BY <1>2, <1>3, <1>4, <1>5, <1>6, <1>7, <1>8, <1>9, <1>10, <1>11 DEF Next

(* A call on data is made on the conversation that the mode holds.            *)
LEMMA OwnData ==
  ASSUME IInv
  PROVE  OwnDataOnly
<1>1. TypeOK
  BY DEF IInv
<1>2. ASSUME On, tool.phase # "top", cur.op \in {"read", "write"}, cur.how # "take"
      PROVE  /\ fid[cur.fid].kind = "data" /\ conv[fid[cur.fid].slot].used
             /\ conv[fid[cur.fid].slot].by = run
  <2> PICK m, S, c, d, w, a, held, i :
        /\ m = tool.name /\ S = script /\ c = CtlFid(m) /\ d = DataFid(m) /\ w = CloneAt(m)
        /\ a = DataAt(m) /\ held = HeldTo(m) /\ i = tool.pc
    OBVIOUS
  <2>1. i \in 1 .. Len(S) /\ cur = S[i] /\ cur \in StepType /\ Len(S) \in Nat
    BY <1>1, <1>2, Here
  <2>2. w \in Nat /\ a \in Nat /\ w + 2 < a /\ held \in Nat /\ c \in Fids
    BY <1>1, Here DEF Planned, Places
  <2>3. Keeps(S, c, d, a, held, m # "bstatus")
    BY <1>1, Here DEF Planned
  <2>4. cur.how \in {"rpc", "loop"}
    <3>1. cur.how # "post"
      BY <1>2 DEF IInv, PostsGoOn
    <3>2. cur.how \notin {"wait", "pause"}
      BY <1>2, <2>1, <2>3 DEF Keeps
    <3>3. QED
      BY <1>2, <2>1, <3>1, <3>2 DEF StepType
  <2>5. m # "bstatus" /\ a < i /\ i <= held /\ cur.fid = d
    BY <1>2, <2>1, <2>3, <2>4 DEF Keeps
  <2>6. Got(w) /\ Got(a)
    BY <2>1, <2>2, <2>5 DEF Got
  <2>7. /\ fid[c].kind = "ctl" /\ conv[fid[c].slot].by = run
        /\ fid[d] = [kind |-> "data", slot |-> fid[c].slot]
    BY <1>2, <2>5, <2>6 DEF IInv, Holds
  <2>8. conv[fid[c].slot].used
    BY <2>2, <2>7 DEF IInv, CtlFidsApart
  <2>9. QED
    BY <2>5, <2>7, <2>8
<1>3. QED
  BY <1>2 DEF IInv, IsoSilent, OwnDataOnly

(* The tool, the node's tables and the replies on their way keep their types: *)
(* a tool is always at a step of its script, no queue holds more than Depth    *)
(* datagrams and no number that a tool reads lies outside the pool.            *)
THEOREM TypeCorrect == Spec => []TypeOK
<1>1. Init => IInv
  BY Initial
<1>2. IInv /\ [Next]_vars => IInv'
  BY Invariance
<1>3. IInv => TypeOK
  BY DEF IInv
<1>4. QED
  BY <1>1, <1>2, <1>3, PTL DEF Spec

(* A mode that clunks on failure and got as far as binding its conversation    *)
(* leaves none behind, whichever call fails and whenever a signal arrives.     *)
THEOREM BoundRelease == Spec => []BoundToolsRelease
<1>1. Init => IInv
  BY Initial
<1>2. IInv /\ [Next]_vars => IInv'
  BY Invariance
<1>3. IInv => BoundToolsRelease
  BY DEF IInv
<1>4. QED
  BY <1>1, <1>2, <1>3, PTL DEF Spec

(* Data is read and written only on a conversation that the tool allocated,    *)
(* and the conversation of do_iso_recv that is connected to another peer stays *)
(* silent.                                                                   *)
THEOREM OwnDataTheorem == Spec => []OwnDataOnly
<1>1. Init => IInv
  BY Initial
<1>2. IInv /\ [Next]_vars => IInv'
  BY Invariance
<1>3. IInv => OwnDataOnly
  BY OwnData
<1>4. QED
  BY <1>1, <1>2, <1>3, PTL DEF Spec

=============================================================================

------------------------- MODULE UpgradeTrackerProofs -------------------------
(***************************************************************************)
(* Proofs about UpgradeTracker, for any calls, any versions and any        *)
(* downstream queue.                                                       *)
(***************************************************************************)
EXTENDS UpgradeTracker, TLAPS

Message == [type : {"event", "ack"}, frame : Frame, val : Stage \cup {"ok", "error"}]

\* The frame has not been sent: the node knows nothing of it.
Unsent(f) == job[f] = "none" /\ \A i \in 1 .. Len(down) : down[i] # f

\* A call sends each of its steps once, in order.
CallInv ==
    \A r \in Run :
        /\ fut[r] # "none" => pc[r] \in Kind
        /\ pc[r] # "idle" => target[r] \in Version
        /\ pc[r] = "idle" => Unsent(<<r, "runtime">>) /\ Unsent(<<r, "node">>)
        /\ pc[r] = "runtime" => Unsent(<<r, "node">>)
        /\ pc[r] \in Kind /\ fut[r] = "none" => Unsent(<<r, pc[r]>>)

\* A frame on its way is one the node has not taken, and is there once.
DownInv ==
    \A i \in 1 .. Len(down) :
        /\ job[down[i]] = "none"
        /\ \A j \in 1 .. Len(down) : down[i] = down[j] => i = j

\* What the node says of a frame is what became of it.
Truthful(m) ==
    /\ m.type = "ack" => /\ m.val \in {"ok", "error"}
                         /\ m.val = "ok" /\ m.frame[2] = "runtime" => job[m.frame] = "done"
                         /\ m.val = "error" => job[m.frame] = "failed"
    /\ m.type = "event" => /\ m.val \in {"working", "done", "failed"}
                           /\ m.val = "done" => m.frame[2] = "runtime" /\ job[m.frame] = "done"
                           /\ m.val = "failed" => job[m.frame] = "failed"
UpInv == \A i \in 1 .. Len(up) : Truthful(up[i])

\* The answer a call has got is about the step it is at.
FutInv ==
    \A r \in Run :
        /\ fut[r] = "ok" /\ pc[r] = "runtime" => job[<<r, "runtime">>] = "done"
        /\ fut[r] = "error" => job[<<r, pc[r]>>] = "failed"

StepInv == TypeOK /\ CallInv /\ DownInv /\ UpInv /\ FutInv /\ NodeStepAfterRuntime

\* What a snapshot says of its frame, or of the frame whose answer finished it; one
\* that was failed unsent stays unsent.
SnapOk(s, k) ==
    /\ s.frame = None => s.status \notin Terminal
    /\ s.frame # None => s.frame[2] = k /\ pc[s.frame[1]] # "idle"
    /\ s.status = "completed" =>
          IF k = "runtime" THEN job[s.frame] = "done" \/ AnsweredFor(s.frame, k, "done")
          ELSE target[s.frame[1]] \in reported
    /\ s.status = "failed" =>
          \/ job[s.frame] = "failed"
          \/ Unsent(s.frame) /\ pc[s.frame[1]] = "ended"
          \/ AnsweredFor(s.frame, k, "failed")
SnapInv == \A k \in Kind : SnapOk(snap[k], k)

TrackerInv == StepInv /\ SnapInv

----------------------------------------------------------------------------
(***************************************************************************)
(* The node's side.                                                        *)
(***************************************************************************)

\* The state without the snapshots: the steps that follow are about these.
Typed ==
    /\ pc \in [Run -> Kind \cup {"idle", "ended"}] /\ plan \in [Run -> SUBSET Kind]
    /\ target \in [Run -> Version \cup {None}]
    /\ fut \in [Run -> {"none", "pending", "ok", "error", "lost"}]
    /\ down \in Seq(Frame) /\ Len(down) <= Buffer /\ Len(down) \in Nat /\ up \in Seq(Message)
    /\ job \in [Frame -> {"none", "running", "done", "failed", "dead"}]

\* The parts of TypeOK, by name.
LEMMA TypesSplit ==
    TypeOK <=> /\ Typed
               /\ snap \in [Kind -> [frame : Frame \cup {None}, status : Status, stage : Stage]]
               /\ link \in {"down", "up", "joining", "renewing"} /\ alive \in BOOLEAN
               /\ version \in Version /\ reported \subseteq Version /\ crossed \subseteq Frame
<1>1. down \in Seq(Frame) => Len(down) \in Nat
  OBVIOUS
<1> QED
  BY <1>1 DEF TypeOK, Typed, Message

\* What became of a frame does not change once the node has said it.
JobsStay == \A f \in Frame : job[f] \in {"done", "failed"} => job'[f] = job[f]

\* Then what it said stays true.
LEMMA TruthStays ==
    ASSUME JobsStay, NEW m \in Message, Truthful(m)
    PROVE  Truthful(m)'
BY DEF JobsStay, Truthful, Message

\* Messages are added at the end of the stream, or lost with it.
LEMMA EmitUp ==
    ASSUME up \in Seq(Message), NEW msgs \in Seq(Message), Emit(msgs)
    PROVE  /\ up' \in Seq(Message)
           /\ \A i \in 1 .. Len(up') : \/ \E j \in 1 .. Len(up) : up'[i] = up[j]
                                       \/ \E j \in 1 .. Len(msgs) : up'[i] = msgs[j]
<1> HIDE DEF Message
<1>1. CASE up' = up \o msgs
  <2>1. \A i \in 1 .. Len(up \o msgs) :
           \/ i \in 1 .. Len(up) /\ (up \o msgs)[i] = up[i]
           \/ i - Len(up) \in 1 .. Len(msgs) /\ (up \o msgs)[i] = msgs[i - Len(up)]
    OBVIOUS
  <2>2. up \o msgs \in Seq(Message)
    OBVIOUS
  <2> QED
    BY <1>1, <2>1, <2>2
<1>2. CASE up' = up
  BY <1>2
<1> QED
  BY <1>1, <1>2 DEF Emit

\* A node that says what is true keeps the stream truthful.
LEMMA EmitTruth ==
    ASSUME StepInv, JobsStay, NEW msgs \in Seq(Message), Emit(msgs),
           \A j \in 1 .. Len(msgs) : Truthful(msgs[j])'
    PROVE  up' \in Seq(Message) /\ UpInv'
<1>1. up \in Seq(Message) /\ UpInv
  BY DEF StepInv, TypeOK, Message
<1>2. \A j \in 1 .. Len(up) : up[j] \in Message
  <2> HIDE DEF Message
  <2> QED
    BY <1>1
<1>3. /\ up' \in Seq(Message)
      /\ \A i \in 1 .. Len(up') : \/ \E j \in 1 .. Len(up) : up'[i] = up[j]
                                  \/ \E j \in 1 .. Len(msgs) : up'[i] = msgs[j]
  BY <1>1, EmitUp
<1>4. ASSUME NEW i \in 1 .. Len(up') PROVE Truthful(up[i])'
  <2>1. ASSUME NEW j \in 1 .. Len(up), up'[i] = up[j] PROVE Truthful(up[i])'
    <3>1. PICK m \in Message : m = up[j]
      BY <1>2
    <3>2. Truthful(m)'
      BY <1>1, <3>1, TruthStays DEF UpInv
    <3> QED
      BY <2>1, <3>1, <3>2 DEF Truthful
  <2>2. ASSUME NEW j \in 1 .. Len(msgs), up'[i] = msgs[j] PROVE Truthful(up[i])'
    BY <2>2 DEF Truthful
  <2> QED
    BY <1>3, <2>1, <2>2
<1> QED
  BY <1>3, <1>4 DEF UpInv

\* What a step of the node changes, and what it leaves true.
Node ==
    /\ UNCHANGED <<snap, callVars, fut, reported>>
    /\ JobsStay
    /\ job' \in [Frame -> {"none", "running", "done", "failed", "dead"}]
    /\ down' \in Seq(Frame) /\ Len(down') <= Buffer
    /\ up' \in Seq(Message)
    /\ DownInv' /\ UpInv'
    /\ \A f \in Frame : Unsent(f) => Unsent(f)'

\* The node takes each frame once.
LEMMA TakesEffect ==
    ASSUME StepInv, NodeTakes
    PROVE  Node /\ UNCHANGED <<link, alive, version>>
<1>1. /\ down \in Seq(Frame) /\ Len(down) <= Buffer /\ Len(down) \in Nat /\ Buffer \in Nat
      /\ job \in [Frame -> {"none", "running", "done", "failed", "dead"}]
      /\ DownInv /\ down # << >>
  BY UpgradeTrackerAssumption DEF StepInv, TypeOK, NodeTakes
<1>2. PICK f \in Frame : f = Head(down)
  <2> HIDE DEF Frame
  <2> QED
    BY <1>1
<1>3. /\ 1 \in 1 .. Len(down) /\ down[1] = f /\ Len(Tail(down)) = Len(down) - 1
      /\ Tail(down) \in Seq(Frame)
      /\ \A i \in 1 .. Len(Tail(down)) : i + 1 \in 1 .. Len(down) /\ Tail(down)[i] = down[i + 1]
      /\ \A i \in 1 .. Len(down) : down[i] \in Frame
  <2> HIDE DEF Frame
  <2> QED
    BY <1>1, <1>2
<1>4. job[f] = "none" /\ \A i \in 2 .. Len(down) : down[i] # f
  BY <1>1, <1>3 DEF DownInv
<1>5. PICK st \in {"running", "failed"}, msgs \in Seq(Message) :
         /\ job' = [job EXCEPT ![f] = st] /\ down' = Tail(down) /\ Emit(msgs)
         /\ \A j \in 1 .. Len(msgs) : \/ st = "running" /\ f[2] = "node" /\ msgs[j] = Ack(f, "ok")
                                      \/ st = "failed" /\ msgs[j] = Ack(f, "error")
  <2>1. Ack(f, "ok") \in Message /\ Ack(f, "error") \in Message
    BY DEF Ack, Message
  <2>2. /\ <<Ack(f, "ok")>> \in Seq(Message) /\ <<Ack(f, "error")>> \in Seq(Message)
        /\ << >> \in Seq(Message)
    <3> HIDE DEF Message, Ack
    <3> QED
      BY <2>1
  <2>3. \/ /\ job' = [job EXCEPT ![f] = "running"]
           /\ Emit(IF f[2] = "node" THEN <<Ack(f, "ok")>> ELSE << >>)
        \/ /\ job' = [job EXCEPT ![f] = "failed"]
           /\ Emit(<<Ack(f, "error")>>)
    BY <1>2 DEF NodeTakes
  <2>4. down' = Tail(down)
    BY DEF NodeTakes
  <2> HIDE DEF Message
  <2>5. CASE job' = [job EXCEPT ![f] = "running"] /\ f[2] = "node" /\ Emit(<<Ack(f, "ok")>>)
    <3>1. \A j \in 1 .. Len(<<Ack(f, "ok")>>) : (<<Ack(f, "ok")>>)[j] = Ack(f, "ok")
      OBVIOUS
    <3> USE <2>2
    <3> WITNESS "running" \in {"running", "failed"}, <<Ack(f, "ok")>> \in Seq(Message)
    <3> QED
      BY <2>4, <2>5, <3>1
  <2>6. CASE job' = [job EXCEPT ![f] = "running"] /\ Emit(<< >>)
    <3>1. 1 .. Len(<< >>) = {}
      OBVIOUS
    <3> USE <2>2
    <3> WITNESS "running" \in {"running", "failed"}, << >> \in Seq(Message)
    <3> QED
      BY <2>4, <2>6, <3>1
  <2>7. CASE job' = [job EXCEPT ![f] = "failed"] /\ Emit(<<Ack(f, "error")>>)
    <3>1. \A j \in 1 .. Len(<<Ack(f, "error")>>) : (<<Ack(f, "error")>>)[j] = Ack(f, "error")
      OBVIOUS
    <3> USE <2>2
    <3> WITNESS "failed" \in {"running", "failed"}, <<Ack(f, "error")>> \in Seq(Message)
    <3> QED
      BY <2>4, <2>7, <3>1
  <2> QED
    BY <2>3, <2>5, <2>6, <2>7
<1>6. JobsStay
  BY <1>1, <1>4, <1>5 DEF JobsStay
<1>7. \A j \in 1 .. Len(msgs) : Truthful(msgs[j])'
  <2>1. \A j \in 1 .. Len(msgs) :
           \/ /\ msgs[j].type = "ack" /\ msgs[j].frame = f /\ f[2] = "node" /\ msgs[j].val = "ok"
           \/ /\ msgs[j].type = "ack" /\ msgs[j].frame = f /\ msgs[j].val = "error" /\ st = "failed"
    BY <1>5 DEF Ack
  <2>2. job'[f] = st
    BY <1>1, <1>5
  <2> QED
    BY <2>1, <2>2 DEF Truthful
<1>8. up' \in Seq(Message) /\ UpInv'
  BY <1>5, <1>6, <1>7, EmitTruth
<1>9. DownInv'
  <2> SUFFICES ASSUME NEW i \in 1 .. Len(down')
               PROVE  /\ job'[down'[i]] = "none"
                      /\ \A j \in 1 .. Len(down') : down'[i] = down'[j] => i = j
    BY DEF DownInv
  <2>1. i + 1 \in 2 .. Len(down) /\ down'[i] = down[i + 1] /\ down[i + 1] # f
    BY <1>1, <1>3, <1>4, <1>5
  <2>2. job'[down'[i]] = "none"
    BY <1>1, <1>3, <1>5, <2>1 DEF DownInv
  <2>3. ASSUME NEW j \in 1 .. Len(down'), down'[i] = down'[j] PROVE i = j
    <3>1. j + 1 \in 1 .. Len(down) /\ down'[j] = down[j + 1]
      BY <1>3, <1>5
    <3>2. i + 1 = j + 1
      <4>1. i + 1 \in 1 .. Len(down) /\ down[i + 1] = down[j + 1]
        BY <1>1, <2>1, <2>3, <3>1
      <4> QED
        BY <1>1, <3>1, <4>1 DEF DownInv
    <3> QED
      BY <1>1, <1>3, <1>5, <3>2
  <2> QED
    BY <2>2, <2>3
<1>10. \A g \in Frame : Unsent(g) => Unsent(g)'
  BY <1>1, <1>3, <1>5 DEF Unsent
<1>11. /\ UNCHANGED <<snap, callVars, fut, reported, link, alive, version>>
       /\ down' \in Seq(Frame) /\ Len(down') <= Buffer
       /\ job' \in [Frame -> {"none", "running", "done", "failed", "dead"}]
  <2>1. UNCHANGED <<snap, callVars, fut, reported, link, alive, version>>
    BY DEF NodeTakes
  <2>2. down' \in Seq(Frame) /\ Len(down') <= Buffer
    BY <1>1, <1>3, <1>5
  <2>3. job' \in [Frame -> {"none", "running", "done", "failed", "dead"}]
    BY <1>1, <1>5
  <2> QED
    BY <2>1, <2>2, <2>3
<1> QED
  BY <1>6, <1>8, <1>9, <1>10, <1>11 DEF Node

\* A frame the node works on ends once, and what it says of it is so.
LEMMA WorkEffect ==
    ASSUME StepInv, NEW f \in Frame, NodeStep(f)
    PROVE  Node
<1>1. /\ down \in Seq(Frame) /\ Len(down) <= Buffer
      /\ job \in [Frame -> {"none", "running", "done", "failed", "dead"}]
      /\ DownInv /\ up \in Seq(Message) /\ UpInv
      /\ \A i \in 1 .. Len(down) : down[i] \in Frame
  <2>1. down \in Seq(Frame) => \A i \in 1 .. Len(down) : down[i] \in Frame
    <3> HIDE DEF Frame
    <3> QED
      OBVIOUS
  <2> QED
    BY <2>1 DEF StepInv, TypeOK, Message
<1>2. /\ UNCHANGED <<snap, callVars, fut, reported, down>> /\ job[f] = "running"
  BY DEF NodeStep, NodeProgresses, NodeFails, NodeActivates, NodeRestarts
<1>3. /\ job' \in [Frame -> {"none", "running", "done", "failed", "dead"}]
      /\ \A g \in Frame : job[g] # "running" => job'[g] = job[g]
  <2>1. CASE NodeProgresses(f)
    BY <1>1, <2>1 DEF NodeProgresses, nodeVars
  <2>2. CASE NodeFails(f) \/ NodeActivates(f)
    BY <1>1, <1>2, <2>2 DEF NodeFails, NodeActivates
  <2>3. CASE NodeRestarts(f)
    <3>1. job' = [g \in Frame |-> CASE g = f -> "done"
                                    [] job[g] = "running" -> "dead"
                                    [] OTHER -> job[g]]
      BY <2>3 DEF NodeRestarts
    <3>2. \A g \in Frame : job[g] # "running" => g # f
      BY <1>2
    <3> HIDE DEF Frame
    <3>3. \A g \in Frame : /\ job'[g] \in {"done", "dead", job[g]}
                           /\ job[g] # "running" => job'[g] = job[g]
      BY <1>1, <3>1, <3>2
    <3> QED
      BY <1>1, <3>1, <3>3
  <2> QED
    BY <2>1, <2>2, <2>3 DEF NodeStep
<1>4. JobsStay
  BY <1>3 DEF JobsStay
<1>5. DownInv' /\ \A g \in Frame : Unsent(g) => Unsent(g)'
  BY <1>1, <1>2, <1>3 DEF DownInv, Unsent
<1> DEFINE W == Event(f, "working")   D == Event(f, "done")   X == Event(f, "failed")
           A == Ack(f, "ok")          E == Ack(f, "error")
<1>6. {W, D, X, A, E} \subseteq Message
  BY DEF Event, Ack, Message, Stage
<1>7. up' \in Seq(Message) /\ UpInv'
  <2>1. CASE NodeRestarts(f)
    <3>1. up' = up
      BY <2>1 DEF NodeRestarts
    <3>2. Emit(<< >>)
      BY <1>1, <3>1 DEF Emit
    <3>3. << >> \in Seq(Message) /\ \A j \in 1 .. Len(<< >>) : Truthful((<< >>)[j])'
      OBVIOUS
    <3> QED
      BY <1>4, <3>2, <3>3, EmitTruth
  <2>2. ASSUME NEW msgs, msgs \in Seq(Message), Emit(msgs),
               \A j \in 1 .. Len(msgs) : Truthful(msgs[j])'
        PROVE  up' \in Seq(Message) /\ UpInv'
    BY <1>4, <2>2, EmitTruth
  <2>3. CASE NodeProgresses(f)
    <3>1. Truthful(W)'
      BY DEF Truthful, Event
    <3> HIDE DEF W, Message
    <3>2. <<W>> \in Seq(Message) /\ \A j \in 1 .. Len(<<W>>) : (<<W>>)[j] = W
      BY <1>6
    <3>3. Emit(<<W>>)
      BY <2>3 DEF NodeProgresses, W
    <3> QED
      BY <2>2, <3>1, <3>2, <3>3
  <2>4. CASE NodeFails(f)
    <3>1. Truthful(X)' /\ Truthful(E)'
      <4>1. job'[f] = "failed"
        BY <1>1, <2>4 DEF NodeFails
      <4> QED
        BY <4>1 DEF Truthful, Event, Ack
    <3>2. Emit(<<X>> \o (IF f[2] = "runtime" THEN <<E>> ELSE << >>))
      BY <2>4 DEF NodeFails
    <3> HIDE DEF X, E, Message
    <3>3. /\ <<X>> \o <<E>> \in Seq(Message) /\ <<X>> \o << >> \in Seq(Message)
          /\ \A j \in 1 .. Len(<<X>> \o <<E>>) : (<<X>> \o <<E>>)[j] \in {X, E}
          /\ \A j \in 1 .. Len(<<X>> \o << >>) : (<<X>> \o << >>)[j] = X
      BY <1>6
    <3>4. CASE f[2] = "runtime"
      BY <2>2, <3>1, <3>2, <3>3, <3>4
    <3>5. CASE f[2] # "runtime"
      BY <2>2, <3>1, <3>2, <3>3, <3>5
    <3> QED
      BY <3>4, <3>5
  <2>5. CASE NodeActivates(f)
    <3>1. Truthful(W)' /\ Truthful(D)' /\ Truthful(A)'
      <4>1. job'[f] = "done" /\ f[2] = "runtime"
        BY <1>1, <2>5 DEF NodeActivates
      <4> QED
        BY <4>1 DEF Truthful, Event, Ack
    <3>2. Emit(<<D, A>>) \/ Emit(<<A, W, D>>)
      BY <2>5 DEF NodeActivates
    <3> HIDE DEF W, D, A, Message
    <3>3. /\ <<D, A>> \in Seq(Message) /\ <<A, W, D>> \in Seq(Message)
          /\ \A j \in 1 .. Len(<<D, A>>) : (<<D, A>>)[j] \in {D, A}
          /\ \A j \in 1 .. Len(<<A, W, D>>) : (<<A, W, D>>)[j] \in {A, W, D}
      BY <1>6
    <3> QED
      BY <2>2, <3>1, <3>2, <3>3
  <2> QED
    BY <2>1, <2>3, <2>4, <2>5 DEF NodeStep
<1> QED
  BY <1>1, <1>2, <1>3, <1>4, <1>5, <1>7 DEF Node

----------------------------------------------------------------------------
(***************************************************************************)
(* The calls and the stream.                                               *)
(***************************************************************************)

\* What no step takes back: the end of a frame or of a call, a call's target,
\* that an abandoned frame was never sent, and what the node reported.
Onward ==
    /\ JobsStay
    /\ \A r \in Run : pc[r] # "idle" => pc'[r] # "idle" /\ target'[r] = target[r]
    /\ \A f \in Frame : Unsent(f) /\ pc[f[1]] = "ended" => Unsent(f)' /\ pc'[f[1]] = "ended"
    /\ reported \subseteq reported'

Calls == CallInv /\ FutInv /\ NodeStepAfterRuntime

\* A step of the node leaves the calls alone.
LEMMA NodeCalls ==
    ASSUME StepInv, Node
    PROVE  Calls' /\ Onward
<1>1. /\ pc \in [Run -> Kind \cup {"idle", "ended"}] /\ CallInv /\ FutInv /\ NodeStepAfterRuntime
      /\ UNCHANGED <<pc, plan, target, fut, reported>> /\ JobsStay
      /\ \A f \in Frame : Unsent(f) => Unsent(f)'
  BY DEF StepInv, TypeOK, Node, callVars
<1>2. \A r \in Run : <<r, "runtime">> \in Frame /\ <<r, "node">> \in Frame
  BY DEF Frame, Kind
<1>3. \A r \in Run : pc[r] \in Kind => <<r, pc[r]>> \in Frame
  BY DEF Frame
<1>4. CallInv'
  BY <1>1, <1>2, <1>3 DEF CallInv
<1>5. FutInv' /\ NodeStepAfterRuntime'
  <2>1. \A r \in Run : fut[r] # "none" => pc[r] \in Kind
    BY <1>1 DEF CallInv
  <2> QED
    BY <1>1, <1>2, <1>3, <2>1 DEF FutInv, NodeStepAfterRuntime, JobsStay
<1>6. Onward
  BY <1>1 DEF Onward
<1> QED
  BY <1>4, <1>5, <1>6 DEF Calls

\* So does the loss of a stream, which fails the calls that wait on it.
LEMMA LostCalls ==
    ASSUME StepInv, LoseStream, UNCHANGED <<callVars, job>>, reported \subseteq reported'
    PROVE  /\ Calls' /\ Onward /\ DownInv' /\ UpInv'
           /\ fut' \in [Run -> {"none", "pending", "ok", "error", "lost"}]
           /\ down' \in Seq(Frame) /\ Len(down') <= Buffer /\ up' \in Seq(Message)
<1>1. /\ pc \in [Run -> Kind \cup {"idle", "ended"}]
      /\ fut \in [Run -> {"none", "pending", "ok", "error", "lost"}]
      /\ CallInv /\ FutInv /\ NodeStepAfterRuntime
      /\ UNCHANGED <<pc, plan, target, job>>
      /\ fut' = [r \in Run |-> IF fut[r] = "pending" THEN "lost" ELSE fut[r]]
      /\ down' = << >> /\ up' = << >>
  BY DEF StepInv, TypeOK, LoseStream, callVars
<1>2. \A f \in Frame : Unsent(f) => Unsent(f)'
  BY <1>1 DEF Unsent
<1>3. /\ \A r \in Run : <<r, "runtime">> \in Frame /\ <<r, "node">> \in Frame
      /\ \A r \in Run : pc[r] \in Kind => <<r, pc[r]>> \in Frame
  BY DEF Frame, Kind
<1>4. CallInv'
  BY <1>1, <1>2, <1>3 DEF CallInv
<1>5. FutInv' /\ NodeStepAfterRuntime'
  BY <1>1 DEF FutInv, NodeStepAfterRuntime
<1>6. Onward
  BY <1>1, <1>2 DEF Onward, JobsStay
<1>7. DownInv' /\ UpInv'
  BY <1>1 DEF DownInv, UpInv
<1>8. /\ fut' \in [Run -> {"none", "pending", "ok", "error", "lost"}]
      /\ down' \in Seq(Frame) /\ Len(down') <= Buffer /\ up' \in Seq(Message)
  BY <1>1, UpgradeTrackerAssumption
<1> QED
  BY <1>4, <1>5, <1>6, <1>7, <1>8 DEF Calls

\* An ack resolves the call that waits for it, if it still does.
LEMMA DeliverCalls ==
    ASSUME StepInv, Deliver
    PROVE  /\ Calls' /\ Onward /\ DownInv' /\ UpInv'
           /\ fut' \in [Run -> {"none", "pending", "ok", "error", "lost"}]
           /\ up' \in Seq(Message) /\ UNCHANGED down
<1>1. /\ pc \in [Run -> Kind \cup {"idle", "ended"}]
      /\ fut \in [Run -> {"none", "pending", "ok", "error", "lost"}]
      /\ CallInv /\ FutInv /\ NodeStepAfterRuntime /\ DownInv /\ UpInv
      /\ UNCHANGED <<pc, plan, target, job, reported, down>> /\ up \in Seq(Message) /\ up # << >>
      /\ up' = Tail(up)
  BY DEF StepInv, TypeOK, Deliver, callVars, nodeVars, Message
<1>2. PICK m \in Message : m = Head(up) /\ Truthful(m)
  <2>1. Head(up) \in Message /\ Head(up) = up[1] /\ 1 \in 1 .. Len(up)
    <3> HIDE DEF Message
    <3> QED
      BY <1>1
  <2> QED
    BY <1>1, <2>1 DEF UpInv
<1>3. m.frame \in Frame /\ m.frame[1] \in Run /\ m.frame = <<m.frame[1], m.frame[2]>>
  BY DEF Message, Frame
<1>4. \/ UNCHANGED fut
      \/ /\ m.type = "ack" /\ fut[m.frame[1]] = "pending" /\ pc[m.frame[1]] = m.frame[2]
         /\ fut' = [fut EXCEPT ![m.frame[1]] = m.val]
  <2>1. UNCHANGED fut \/ /\ m.type = "ack"
                         /\ fut' = [fut EXCEPT ![m.frame[1]] =
                               IF @ = "pending" /\ pc[m.frame[1]] = m.frame[2] THEN m.val ELSE @]
    BY <1>2 DEF Deliver
  <2> QED
    BY <1>1, <2>1
<1>5. m.type = "ack" => m.val \in {"ok", "error"}
  BY <1>2 DEF Truthful
<1>6. fut' \in [Run -> {"none", "pending", "ok", "error", "lost"}]
  BY <1>1, <1>3, <1>4, <1>5
<1>7. CallInv'
  <2>1. \A r \in Run : fut'[r] = "none" <=> fut[r] = "none"
    BY <1>1, <1>3, <1>4, <1>5
  <2> QED
    BY <1>1, <2>1 DEF CallInv, Unsent
<1>8. FutInv' /\ NodeStepAfterRuntime'
  <2>1. NodeStepAfterRuntime'
    BY <1>1 DEF NodeStepAfterRuntime
  <2>2. ASSUME UNCHANGED fut PROVE FutInv'
    <3> SUFFICES ASSUME NEW r \in Run
                 PROVE  /\ fut[r] = "ok" /\ pc[r] = "runtime" => job[<<r, "runtime">>] = "done"
                        /\ fut[r] = "error" => job[<<r, pc[r]>>] = "failed"
      BY <1>1, <2>2 DEF FutInv
    <3> QED
      BY <1>1 DEF FutInv
  <2>3. CASE /\ m.type = "ack" /\ fut[m.frame[1]] = "pending" /\ pc[m.frame[1]] = m.frame[2]
             /\ fut' = [fut EXCEPT ![m.frame[1]] = m.val]
    <3>1. SUFFICES ASSUME NEW r \in Run
                   PROVE  /\ fut'[r] = "ok" /\ pc[r] = "runtime" => job[<<r, "runtime">>] = "done"
                          /\ fut'[r] = "error" => job[<<r, pc[r]>>] = "failed"
      BY <1>1, <2>1 DEF FutInv
    <3>2. CASE r = m.frame[1]
      <4>1. fut'[r] = m.val /\ m.frame = <<r, pc[r]>>
        BY <1>1, <1>3, <2>3, <3>2
      <4>2. /\ m.val = "ok" /\ m.frame[2] = "runtime" => job[m.frame] = "done"
            /\ m.val = "error" => job[m.frame] = "failed"
        BY <1>2, <2>3 DEF Truthful
      <4> QED
        BY <2>3, <3>2, <4>1, <4>2
    <3>3. CASE r # m.frame[1]
      BY <1>1, <2>3, <3>3 DEF FutInv
    <3> QED
      BY <3>2, <3>3
  <2> QED
    BY <1>4, <2>1, <2>2, <2>3
<1>9. up' \in Seq(Message) /\ UpInv'
  <2>1. /\ Tail(up) \in Seq(Message)
        /\ \A i \in 1 .. Len(Tail(up)) : i + 1 \in 1 .. Len(up) /\ Tail(up)[i] = up[i + 1]
    <3> HIDE DEF Message
    <3> QED
      BY <1>1
  <2> QED
    BY <1>1, <2>1 DEF UpInv, Truthful
<1>10. DownInv' /\ Onward
  BY <1>1 DEF DownInv, Onward, JobsStay, Unsent
<1> QED
  BY <1>1, <1>6, <1>7, <1>8, <1>9, <1>10 DEF Calls

\* A call begins with every frame of its own unsent.
LEMMA BeginCalls ==
    ASSUME StepInv, NEW r \in Run, Begin(r)
    PROVE  /\ Calls' /\ Onward
           /\ pc' \in [Run -> Kind \cup {"idle", "ended"}] /\ plan' \in [Run -> SUBSET Kind]
           /\ target' \in [Run -> Version \cup {None}]
<1>1. /\ pc \in [Run -> Kind \cup {"idle", "ended"}] /\ plan \in [Run -> SUBSET Kind]
      /\ target \in [Run -> Version \cup {None}]
      /\ CallInv /\ FutInv /\ NodeStepAfterRuntime
      /\ UNCHANGED <<fut, job, down, reported>> /\ pc[r] = "idle"
  BY DEF StepInv, TypeOK, Begin, nodeVars
<1>2. PICK P \in SUBSET Kind \ {{}}, v \in Version :
         /\ plan' = [plan EXCEPT ![r] = P] /\ target' = [target EXCEPT ![r] = v]
         /\ pc' = [pc EXCEPT ![r] = FirstStep(P)]
  BY DEF Begin, Goto
<1>3. FirstStep(P) \in Kind /\ (P = Kind => FirstStep(P) = "runtime")
  BY DEF FirstStep, Kind
<1>4. /\ pc' \in [Run -> Kind \cup {"idle", "ended"}] /\ plan' \in [Run -> SUBSET Kind]
      /\ target' \in [Run -> Version \cup {None}]
  BY <1>1, <1>2, <1>3
<1>5. \A q \in Run : q # r => pc'[q] = pc[q] /\ plan'[q] = plan[q] /\ target'[q] = target[q]
  BY <1>1, <1>2
<1>6. pc'[r] \in Kind /\ plan'[r] = P /\ target'[r] = v /\ fut[r] = "none"
  BY <1>1, <1>2, <1>3 DEF CallInv, Kind
<1>7. \A f : Unsent(f)' <=> Unsent(f)
  BY <1>1 DEF Unsent
<1>8. CallInv'
  <2> SUFFICES ASSUME NEW q \in Run
               PROVE  /\ fut[q] # "none" => pc'[q] \in Kind
                      /\ pc'[q] # "idle" => target'[q] \in Version
                      /\ pc'[q] = "idle" => Unsent(<<q, "runtime">>) /\ Unsent(<<q, "node">>)
                      /\ pc'[q] = "runtime" => Unsent(<<q, "node">>)
                      /\ pc'[q] \in Kind /\ fut[q] = "none" => Unsent(<<q, pc'[q]>>)
    BY <1>1, <1>7 DEF CallInv
  <2>1. CASE q = r
    BY <1>1, <1>6, <2>1 DEF CallInv, Kind
  <2>2. CASE q # r
    BY <1>1, <1>5, <2>2 DEF CallInv
  <2> QED
    BY <2>1, <2>2
<1>9. FutInv' /\ NodeStepAfterRuntime'
  <2>1. FutInv'
    BY <1>1, <1>5, <1>6, ZenonT(60) DEF FutInv
  <2>2. NodeStepAfterRuntime'
    <3>1. P = Kind => pc'[r] = "runtime"
      BY <1>1, <1>2, <1>3
    <3> QED
      BY <1>1, <1>5, <1>6, <3>1 DEF NodeStepAfterRuntime
  <2> QED
    BY <2>1, <2>2
<1>10. Onward
  <2>1. \A f \in Frame : pc[f[1]] = "ended" => f[1] \in Run /\ f[1] # r
    BY <1>1 DEF Frame
  <2> QED
    BY <1>1, <1>5, <1>7, <2>1 DEF Onward, JobsStay
<1> QED
  BY <1>4, <1>8, <1>9, <1>10 DEF Calls

\* A call that is given up leaves what the node knows as it is.
LEMMA EndCalls ==
    ASSUME StepInv, NEW r \in Run, pc[r] \in Kind, Goto(r, "ended"),
           UNCHANGED <<plan, target, job, down, reported>>,
           UNCHANGED fut \/ fut' = [fut EXCEPT ![r] = "none"], fut'[r] = "none"
    PROVE  /\ Calls' /\ Onward
           /\ pc' \in [Run -> Kind \cup {"idle", "ended"}]
           /\ fut' \in [Run -> {"none", "pending", "ok", "error", "lost"}]
<1>1. /\ pc \in [Run -> Kind \cup {"idle", "ended"}]
      /\ fut \in [Run -> {"none", "pending", "ok", "error", "lost"}]
      /\ CallInv /\ FutInv /\ NodeStepAfterRuntime
      /\ pc' = [pc EXCEPT ![r] = "ended"]
  BY DEF StepInv, TypeOK, Goto
<1>2. \A q \in Run : q # r => pc'[q] = pc[q] /\ fut'[q] = fut[q]
  BY <1>1
<1>3. pc'[r] = "ended" /\ "ended" \notin Kind /\ fut'[r] = "none"
  BY <1>1 DEF Kind
<1>4. \A f : Unsent(f)' <=> Unsent(f)
  BY DEF Unsent
<1>5. CallInv'
  <2> SUFFICES ASSUME NEW q \in Run
               PROVE  /\ fut'[q] # "none" => pc'[q] \in Kind
                      /\ pc'[q] # "idle" => target[q] \in Version
                      /\ pc'[q] = "idle" => Unsent(<<q, "runtime">>) /\ Unsent(<<q, "node">>)
                      /\ pc'[q] = "runtime" => Unsent(<<q, "node">>)
                      /\ pc'[q] \in Kind /\ fut'[q] = "none" => Unsent(<<q, pc'[q]>>)
    BY <1>4 DEF CallInv
  <2>1. CASE q = r
    BY <1>1, <1>3, <2>1 DEF CallInv, Kind
  <2>2. CASE q # r
    BY <1>1, <1>2, <2>2 DEF CallInv
  <2> QED
    BY <2>1, <2>2
<1>6. FutInv' /\ NodeStepAfterRuntime'
  BY <1>1, <1>2, <1>3 DEF FutInv, NodeStepAfterRuntime
<1>7. Onward
  <2>1. \A f \in Frame : f[1] \in Run
    BY DEF Frame
  <2> QED
    BY <1>1, <1>2, <1>3, <1>4, <2>1 DEF Onward, JobsStay
<1>8. /\ pc' \in [Run -> Kind \cup {"idle", "ended"}]
      /\ fut' \in [Run -> {"none", "pending", "ok", "error", "lost"}]
  BY <1>1
<1> QED
  BY <1>5, <1>6, <1>7, <1>8 DEF Calls

\* A call sends the frame of its step, which the node has not seen.
LEMMA SendCalls ==
    ASSUME StepInv, NEW r \in Run, pc[r] \in Kind, fut[r] = "none", Room,
           down' = Append(down, <<r, pc[r]>>), fut' = [fut EXCEPT ![r] = "pending"],
           UNCHANGED <<pc, plan, target, job, up, reported>>
    PROVE  /\ Calls' /\ Onward /\ DownInv' /\ UpInv'
           /\ fut' \in [Run -> {"none", "pending", "ok", "error", "lost"}]
           /\ down' \in Seq(Frame) /\ Len(down') <= Buffer
<1> DEFINE f == <<r, pc[r]>>
<1>1. /\ pc \in [Run -> Kind \cup {"idle", "ended"}]
      /\ fut \in [Run -> {"none", "pending", "ok", "error", "lost"}]
      /\ CallInv /\ FutInv /\ NodeStepAfterRuntime /\ DownInv /\ UpInv
      /\ down \in Seq(Frame) /\ Len(down) < Buffer /\ Buffer \in Nat
  BY UpgradeTrackerAssumption DEF StepInv, TypeOK, Room
<1>2. f \in Frame /\ f[1] = r
  BY DEF Frame
<1>3. Unsent(f)
  BY <1>1 DEF CallInv
<1>4. /\ down' \in Seq(Frame) /\ Len(down') = Len(down) + 1 /\ Len(down) \in Nat
      /\ \A i \in 1 .. Len(down') :
            \/ i \in 1 .. Len(down) /\ down'[i] = down[i]
            \/ i = Len(down) + 1 /\ down'[i] = f
  <2> HIDE DEF Frame, f
  <2>1. down' = Append(down, f)
    BY DEF f
  <2>2. down' \in Seq(Frame) /\ Len(down') = Len(down) + 1 /\ Len(down) \in Nat
    BY <1>1, <1>2, <2>1
  <2>3. ASSUME NEW i \in 1 .. Len(down')
        PROVE  \/ i \in 1 .. Len(down) /\ down'[i] = down[i]
               \/ i = Len(down) + 1 /\ down'[i] = f
    <3>1. CASE i <= Len(down)
      BY <1>1, <1>2, <2>1, <2>2, <3>1
    <3>2. CASE i = Len(down) + 1
      BY <1>1, <1>2, <2>1, <2>2, <3>2
    <3> QED
      BY <2>2, <3>1, <3>2
  <2> QED
    BY <2>2, <2>3
<1>5. DownInv'
  <2> SUFFICES ASSUME NEW i \in 1 .. Len(down')
               PROVE  /\ job[down'[i]] = "none"
                      /\ \A j \in 1 .. Len(down') : down'[i] = down'[j] => i = j
    BY DEF DownInv
  <2> HIDE DEF f
  <2>1. CASE i \in 1 .. Len(down) /\ down'[i] = down[i]
    BY <1>1, <1>3, <1>4, <2>1, SMTT(30) DEF DownInv, Unsent
  <2>2. CASE i = Len(down) + 1 /\ down'[i] = f
    BY <1>1, <1>3, <1>4, <2>2 DEF Unsent
  <2> QED
    BY <1>4, <2>1, <2>2
<1>6. \A g : g # f /\ Unsent(g) => Unsent(g)'
  BY <1>4 DEF Unsent
<1>7. /\ fut' \in [Run -> {"none", "pending", "ok", "error", "lost"}]
      /\ fut'[r] = "pending" /\ \A q \in Run : q # r => fut'[q] = fut[q]
  BY <1>1
<1>8. CallInv'
  <2> SUFFICES ASSUME NEW q \in Run
               PROVE  /\ fut'[q] # "none" => pc[q] \in Kind
                      /\ pc[q] # "idle" => target[q] \in Version
                      /\ pc[q] = "idle" => Unsent(<<q, "runtime">>)' /\ Unsent(<<q, "node">>)'
                      /\ pc[q] = "runtime" => Unsent(<<q, "node">>)'
                      /\ pc[q] \in Kind /\ fut'[q] = "none" => Unsent(<<q, pc[q]>>)'
    BY DEF CallInv
  <2>1. CASE q = r
    <3>1. pc[r] = "runtime" => Unsent(<<r, "node">>) /\ <<r, "node">> # f
      BY <1>1 DEF CallInv
    <3>2. pc[r] # "idle"
      BY DEF Kind
    <3> QED
      BY <1>1, <1>6, <1>7, <2>1, <3>1, <3>2 DEF CallInv
  <2>2. CASE q # r
    <3>1. <<q, "runtime">> # f /\ <<q, "node">> # f /\ <<q, pc[q]>> # f
      BY <2>2
    <3> HIDE DEF f
    <3> QED
      BY <1>1, <1>6, <1>7, <2>2, <3>1 DEF CallInv
  <2> QED
    BY <2>1, <2>2
<1>9. FutInv' /\ NodeStepAfterRuntime' /\ UpInv'
  BY <1>1, <1>7 DEF FutInv, NodeStepAfterRuntime, UpInv, Truthful
<1>10. Onward
  <2>1. \A g \in Frame : pc[g[1]] = "ended" => g # f
    BY <1>2 DEF Kind
  <2> QED
    BY <1>6, <2>1 DEF Onward, JobsStay
<1>11. Len(down') <= Buffer
  BY <1>1, <1>4
<1> QED
  BY <1>4, <1>5, <1>7, <1>8, <1>9, <1>10, <1>11 DEF Calls

\* The node step follows a runtime step that was acked: the node activated it.
LEMMA SecondStepCalls ==
    ASSUME StepInv, NEW r \in Run, pc[r] = "runtime", fut[r] = "ok", Goto(r, "node"),
           fut' = [fut EXCEPT ![r] = "none"], UNCHANGED <<plan, target, job, down, reported>>
    PROVE  /\ Calls' /\ Onward
           /\ pc' \in [Run -> Kind \cup {"idle", "ended"}]
           /\ fut' \in [Run -> {"none", "pending", "ok", "error", "lost"}]
<1>1. /\ pc \in [Run -> Kind \cup {"idle", "ended"}]
      /\ fut \in [Run -> {"none", "pending", "ok", "error", "lost"}]
      /\ CallInv /\ FutInv /\ NodeStepAfterRuntime
      /\ pc' = [pc EXCEPT ![r] = "node"]
  BY DEF StepInv, TypeOK, Goto
<1>2. \A q \in Run : q # r => pc'[q] = pc[q] /\ fut'[q] = fut[q]
  BY <1>1
<1>3. pc'[r] = "node" /\ fut'[r] = "none"
  BY <1>1
<1>4. \A f : Unsent(f)' <=> Unsent(f)
  BY DEF Unsent
<1>5. CallInv'
  <2> SUFFICES ASSUME NEW q \in Run
               PROVE  /\ fut'[q] # "none" => pc'[q] \in Kind
                      /\ pc'[q] # "idle" => target[q] \in Version
                      /\ pc'[q] = "idle" => Unsent(<<q, "runtime">>) /\ Unsent(<<q, "node">>)
                      /\ pc'[q] = "runtime" => Unsent(<<q, "node">>)
                      /\ pc'[q] \in Kind /\ fut'[q] = "none" => Unsent(<<q, pc'[q]>>)
    BY <1>4 DEF CallInv
  <2>1. CASE q = r
    BY <1>1, <1>3, <2>1 DEF CallInv, Kind
  <2>2. CASE q # r
    BY <1>1, <1>2, <2>2 DEF CallInv
  <2> QED
    BY <2>1, <2>2
<1>6. FutInv' /\ NodeStepAfterRuntime'
  <2>1. job[<<r, "runtime">>] = "done"
    BY <1>1 DEF FutInv
  <2> QED
    BY <1>1, <1>2, <1>3, <2>1 DEF FutInv, NodeStepAfterRuntime
<1>7. Onward
  <2>1. \A f \in Frame : f[1] \in Run
    BY DEF Frame
  <2> QED
    BY <1>1, <1>2, <1>3, <1>4, <2>1 DEF Onward, JobsStay
<1>8. /\ pc' \in [Run -> Kind \cup {"idle", "ended"}]
      /\ fut' \in [Run -> {"none", "pending", "ok", "error", "lost"}]
  BY <1>1 DEF Kind
<1> QED
  BY <1>5, <1>6, <1>7, <1>8 DEF Calls

----------------------------------------------------------------------------
(***************************************************************************)
(* The snapshots.                                                          *)
(***************************************************************************)

Snapshot == [frame : Frame \cup {None}, status : Status, stage : Stage]

\* What the tracker makes of a snapshot is a snapshot of the same frame.
LEMMA SnapshotTypes ==
    ASSUME NEW s \in Snapshot
    PROVE  /\ \A f \in Frame : InitStep(f) \in Snapshot /\ InitStep(f).frame = f
           /\ \A f \in Frame, st \in {"working", "done", "failed"} :
                  Apply(s, f, st) \in Snapshot /\ Apply(s, f, st).frame = s.frame
           /\ \A k \in Kind, ok \in BOOLEAN :
                  FinalizeFromAck(s, k, ok) \in Snapshot /\ FinalizeFromAck(s, k, ok).frame = s.frame
           /\ MarkRestarting(s) \in Snapshot /\ MarkRestarting(s).frame = s.frame
           /\ \A v : /\ FinalizeFromReconnect(s, v) \in Snapshot
                     /\ FinalizeFromReconnect(s, v).frame = s.frame
<1> USE DEF Snapshot, Status, Stage, Terminal
<1>1. \A f \in Frame : InitStep(f) \in Snapshot /\ InitStep(f).frame = f
  BY DEF InitStep
<1>2. ASSUME NEW f \in Frame, NEW st \in {"working", "done", "failed"}
      PROVE  Apply(s, f, st) \in Snapshot /\ Apply(s, f, st).frame = s.frame
  BY DEF Apply
<1>3. ASSUME NEW k \in Kind, NEW ok \in BOOLEAN
      PROVE  FinalizeFromAck(s, k, ok) \in Snapshot /\ FinalizeFromAck(s, k, ok).frame = s.frame
  BY DEF FinalizeFromAck
<1>4. MarkRestarting(s) \in Snapshot /\ MarkRestarting(s).frame = s.frame
  BY DEF MarkRestarting
<1>5. ASSUME NEW v
      PROVE  FinalizeFromReconnect(s, v) \in Snapshot /\ FinalizeFromReconnect(s, v).frame = s.frame
  BY DEF FinalizeFromReconnect
<1> QED
  BY <1>1, <1>2, <1>3, <1>4, <1>5

----------------------------------------------------------------------------
(***************************************************************************)
(* Every step.                                                             *)
(***************************************************************************)

\* What every step keeps of the calls, the stream and the node's work.
Kept == Calls' /\ Onward /\ DownInv' /\ UpInv' /\ Typed'

LEMMA CallKept ==
    ASSUME StepInv, NEW r \in Run, CallStep(r)
    PROVE  Kept
<1>1. /\ pc \in [Run -> Kind \cup {"idle", "ended"}] /\ DownInv /\ UpInv /\ Typed /\ CallInv
  BY TypesSplit DEF StepInv, Typed
<1>2. ASSUME pc[r] \in Kind, Goto(r, "ended"),
             UNCHANGED <<plan, target, job, down, up, reported>>,
             UNCHANGED fut \/ fut' = [fut EXCEPT ![r] = "none"], fut'[r] = "none"
      PROVE  Kept
  <2>1. /\ Calls' /\ Onward
        /\ pc' \in [Run -> Kind \cup {"idle", "ended"}]
        /\ fut' \in [Run -> {"none", "pending", "ok", "error", "lost"}]
    BY <1>2, EndCalls
  <2>2. DownInv' /\ UpInv'
    BY <1>1, <1>2 DEF DownInv, UpInv, Truthful
  <2> QED
    BY <1>1, <1>2, <2>1, <2>2 DEF Kept, Typed
<1>3. CASE Dispatch(r)
  <2>1. /\ pc[r] \in Kind /\ fut[r] = "none" /\ UNCHANGED <<plan, target, job, up, reported>>
        /\ \/ Goto(r, "ended") /\ UNCHANGED <<fut, down>>
           \/ /\ Room /\ down' = Append(down, <<r, pc[r]>>)
              /\ fut' = [fut EXCEPT ![r] = "pending"] /\ UNCHANGED pc
    BY <1>3 DEF Dispatch, nodeVars
  <2>2. CASE Goto(r, "ended") /\ UNCHANGED <<fut, down>>
    BY <1>2, <2>1, <2>2
  <2>3. CASE /\ Room /\ down' = Append(down, <<r, pc[r]>>)
             /\ fut' = [fut EXCEPT ![r] = "pending"] /\ UNCHANGED pc
    <3>1. /\ Calls' /\ Onward /\ DownInv' /\ UpInv'
          /\ fut' \in [Run -> {"none", "pending", "ok", "error", "lost"}]
          /\ down' \in Seq(Frame) /\ Len(down') <= Buffer
      BY <2>1, <2>3, SendCalls
    <3>2. Len(down') \in Nat
      BY <3>1
    <3> QED
      BY <1>1, <2>1, <2>3, <3>1, <3>2 DEF Kept, Typed
  <2> QED
    BY <2>1, <2>2, <2>3
<1>4. CASE Resume(r)
  <2>1. /\ pc[r] \in Kind /\ fut[r] \in {"ok", "error", "lost"}
        /\ fut' = [fut EXCEPT ![r] = "none"]
        /\ UNCHANGED <<plan, target, job, down, up, reported>>
    BY <1>4 DEF Resume, nodeVars
  <2>2. PICK next \in {AfterStep(r), "ended"} : Goto(r, next)
    BY <1>4 DEF Resume
  <2>3. fut'[r] = "none"
    BY <1>1, <2>1 DEF Typed
  <2>4. CASE next = "ended"
    BY <1>2, <2>1, <2>2, <2>3, <2>4
  <2>5. CASE next # "ended"
    <3>1. pc[r] = "runtime" /\ fut[r] = "ok" /\ next = "node"
      BY <2>2, <2>5 DEF AfterStep
    <3>2. /\ Calls' /\ Onward
          /\ pc' \in [Run -> Kind \cup {"idle", "ended"}]
          /\ fut' \in [Run -> {"none", "pending", "ok", "error", "lost"}]
      BY <2>1, <2>2, <3>1, SecondStepCalls
    <3>3. DownInv' /\ UpInv'
      BY <1>1, <2>1 DEF DownInv, UpInv, Truthful
    <3> QED
      BY <1>1, <2>1, <3>2, <3>3 DEF Kept, Typed
  <2> QED
    BY <2>4, <2>5
<1>5. CASE Timeout(r)
  <2>1. /\ fut[r] = "pending" /\ Goto(r, "ended") /\ fut' = [fut EXCEPT ![r] = "none"]
        /\ UNCHANGED <<plan, target, job, down, up, reported>>
    BY <1>5 DEF Timeout, nodeVars
  <2>2. pc[r] \in Kind /\ fut'[r] = "none"
    BY <1>1, <2>1 DEF CallInv, Typed
  <2> QED
    BY <1>2, <2>1, <2>2
<1> QED
  BY <1>3, <1>4, <1>5 DEF CallStep

LEMMA StepKept ==
    ASSUME StepInv, [Next]_vars
    PROVE  Kept
<1>1. /\ DownInv /\ UpInv /\ Typed /\ CallInv /\ FutInv /\ NodeStepAfterRuntime
  BY TypesSplit DEF StepInv
<1>2. ASSUME UNCHANGED <<callVars, fut, down, up, job>>, reported \subseteq reported'
      PROVE  Kept
  <2>1. CallInv'
    BY <1>1, <1>2 DEF CallInv, Unsent, callVars
  <2>2. FutInv' /\ NodeStepAfterRuntime'
    BY <1>1, <1>2 DEF FutInv, NodeStepAfterRuntime, callVars
  <2>3. DownInv' /\ UpInv'
    BY <1>1, <1>2 DEF DownInv, UpInv, Truthful
  <2>4. Onward
    BY <1>2 DEF Onward, JobsStay, Unsent, callVars
  <2>5. Typed'
    BY <1>1, <1>2 DEF Typed, callVars
  <2> QED
    BY <2>1, <2>2, <2>3, <2>4, <2>5 DEF Kept, Calls
<1>3. ASSUME LoseStream, UNCHANGED <<callVars, job>>, reported \subseteq reported'
      PROVE  Kept
  <2>1. /\ Calls' /\ Onward /\ DownInv' /\ UpInv'
        /\ fut' \in [Run -> {"none", "pending", "ok", "error", "lost"}]
        /\ down' \in Seq(Frame) /\ Len(down') <= Buffer /\ up' \in Seq(Message)
    BY <1>3, LostCalls
  <2>2. Len(down') \in Nat
    BY <2>1
  <2> QED
    BY <1>1, <1>3, <2>1, <2>2 DEF Kept, Typed, callVars
<1>4. ASSUME Node PROVE Kept
  <2>1. Calls' /\ Onward
    BY <1>4, NodeCalls
  <2>2. Len(down') \in Nat
    BY <1>4 DEF Node
  <2> QED
    BY <1>1, <1>4, <2>1, <2>2 DEF Kept, Typed, Node, callVars
<1>5. ASSUME NEW r \in Run, Begin(r) PROVE Kept
  <2>1. UNCHANGED <<fut, down, up, job>>
    BY <1>5 DEF Begin, nodeVars
  <2>2. DownInv' /\ UpInv'
    BY <1>1, <2>1 DEF DownInv, UpInv, Truthful
  <2> QED
    BY <1>1, <1>5, <2>1, <2>2, BeginCalls DEF Kept, Typed
<1>6. ASSUME NEW r \in Run, CallStep(r) PROVE Kept
  BY <1>6, CallKept
<1>7. CASE Disconnect \/ Register
  BY <1>3, <1>7 DEF Disconnect, Register, nodeVars
<1>8. CASE JoinFails \/ Authenticate \/ UNCHANGED vars
  BY <1>2, <1>8 DEF JoinFails, Authenticate, nodeVars, vars
<1>9. CASE Deliver
  <2>1. /\ Calls' /\ Onward /\ DownInv' /\ UpInv'
        /\ fut' \in [Run -> {"none", "pending", "ok", "error", "lost"}]
        /\ up' \in Seq(Message) /\ UNCHANGED <<down, callVars, nodeVars>>
    BY <1>9, DeliverCalls DEF Deliver
  <2> QED
    BY <1>1, <2>1 DEF Kept, Typed, callVars, nodeVars
<1>10. CASE NodeTakes
  BY <1>4, <1>10, TakesEffect
<1>11. ASSUME NEW f \in Frame, NodeStep(f) PROVE Kept
  BY <1>4, <1>11, WorkEffect
<1> QED
  BY <1>5, <1>6, <1>7, <1>8, <1>9, <1>10, <1>11 DEF Next

\* A step keeps the frame of each snapshot, but for a call that sends its own.
LEMMA SnapTypes ==
    ASSUME StepInv, [Next]_vars
    PROVE  /\ snap' \in [Kind -> Snapshot]
           /\ (\A k \in Kind : snap'[k].frame = snap[k].frame) \/ \E r \in Run : Dispatch(r)
<1> DEFINE Stay == \A k \in Kind : snap'[k].frame = snap[k].frame
<1>1. /\ snap \in [Kind -> Snapshot] /\ CallInv
      /\ fut \in [Run -> {"none", "pending", "ok", "error", "lost"}]
      /\ pc \in [Run -> Kind \cup {"idle", "ended"}]
  BY DEF StepInv, TypeOK, Snapshot
<1>2. ASSUME NEW k \in Kind, NEW t \in Snapshot, snap' = [snap EXCEPT ![k] = t],
             t.frame = snap[k].frame
      PROVE  snap' \in [Kind -> Snapshot] /\ Stay
  <2> HIDE DEF Snapshot
  <2> QED
    BY <1>1, <1>2
<1>3. CASE UNCHANGED snap
  BY <1>1, <1>3
<1>4. ASSUME NEW r \in Run, Dispatch(r) PROVE snap' \in [Kind -> Snapshot]
  <2>1. pc[r] \in Kind /\ <<r, pc[r]>> \in Frame
    BY <1>4 DEF Dispatch, Frame
  <2>2. PICK s \in Snapshot : s = InitStep(<<r, pc[r]>>)
    BY <1>1, <2>1, SnapshotTypes
  <2>3. FinalizeFromAck(s, pc[r], FALSE) \in Snapshot
    BY <2>1, <2>2, SnapshotTypes
  <2>4. \/ UNCHANGED snap
        \/ snap' = [snap EXCEPT ![pc[r]] = FinalizeFromAck(s, pc[r], FALSE)]
        \/ snap' = [snap EXCEPT ![pc[r]] = s]
    BY <1>4, <2>2 DEF Dispatch
  <2> HIDE DEF Snapshot
  <2> QED
    BY <1>1, <2>1, <2>3, <2>4
<1>5. ASSUME NEW r \in Run, Resume(r) \/ Timeout(r)
      PROVE  snap' \in [Kind -> Snapshot] /\ Stay
  <2>1. pc[r] \in Kind
    BY <1>1, <1>5 DEF Resume, Timeout, CallInv
  <2>2. PICK s \in Snapshot : s = snap[pc[r]]
    BY <1>1, <2>1
  <2>3. PICK ok \in BOOLEAN : ok = (fut[r] = "ok")
    OBVIOUS
  <2>4. \/ snap' = [snap EXCEPT ![pc[r]] = s]
        \/ snap' = [snap EXCEPT ![pc[r]] = FinalizeFromAck(s, pc[r], ok)]
    BY <1>1, <1>5, <2>1, <2>2, <2>3 DEF Resume, Timeout, NoteAckTimeout
  <2>5. /\ FinalizeFromAck(s, pc[r], ok) \in Snapshot
        /\ FinalizeFromAck(s, pc[r], ok).frame = s.frame
    BY <2>1, SnapshotTypes
  <2> QED
    BY <1>2, <2>1, <2>2, <2>4, <2>5
<1>6. CASE Disconnect \/ Authenticate
  <2>1. PICK s \in Snapshot : s = snap["node"]
    BY <1>1 DEF Kind
  <2>2. \/ snap' = [snap EXCEPT !["node"] = MarkRestarting(s)]
        \/ snap' = [snap EXCEPT !["node"] = FinalizeFromReconnect(s, version)]
    BY <1>1, <1>6, <2>1 DEF Disconnect, Authenticate, Kind
  <2>3. /\ MarkRestarting(s) \in Snapshot /\ MarkRestarting(s).frame = s.frame
        /\ FinalizeFromReconnect(s, version) \in Snapshot
        /\ FinalizeFromReconnect(s, version).frame = s.frame
    BY SnapshotTypes
  <2>4. "node" \in Kind
    BY DEF Kind
  <2> QED
    BY <1>2, <2>1, <2>2, <2>3, <2>4
<1>7. CASE Deliver
  <2>1. PICK m \in Message : m = Head(up) /\ Truthful(m)
    <3>1. up \in Seq(Message) /\ up # << >> /\ UpInv
      BY <1>7 DEF StepInv, TypeOK, Deliver, Message
    <3>2. Head(up) \in Message /\ Head(up) = up[1] /\ 1 \in 1 .. Len(up)
      <4> HIDE DEF Message
      <4> QED
        BY <3>1
    <3> QED
      BY <3>1, <3>2 DEF UpInv
  <2>2. m.frame \in Frame /\ m.frame[2] \in Kind
    BY DEF Message, Frame
  <2>3. PICK s \in Snapshot : s = snap[m.frame[2]]
    BY <1>1, <2>2
  <2>4. \/ UNCHANGED snap
        \/ /\ m.type = "event"
           /\ snap' = [snap EXCEPT ![m.frame[2]] = Apply(s, m.frame, m.val)]
    BY <1>1, <1>7, <2>1, <2>2, <2>3 DEF Deliver
  <2>5. m.type = "event" => m.val \in {"working", "done", "failed"}
    BY <2>1 DEF Truthful
  <2>6. CASE /\ m.type = "event"
             /\ snap' = [snap EXCEPT ![m.frame[2]] = Apply(s, m.frame, m.val)]
    <3>1. /\ Apply(s, m.frame, m.val) \in Snapshot
          /\ Apply(s, m.frame, m.val).frame = s.frame
      BY <2>2, <2>5, <2>6, SnapshotTypes
    <3> QED
      BY <1>2, <2>2, <2>3, <2>6, <3>1
  <2> QED
    BY <1>3, <2>4, <2>6
<1>8. CASE UNCHANGED vars \/ JoinFails \/ Register \/ NodeTakes
  BY <1>3, <1>8 DEF vars, JoinFails, Register, NodeTakes
<1>9. ASSUME NEW r \in Run, Begin(r) PROVE UNCHANGED snap
  BY <1>9 DEF Begin
<1>10. ASSUME NEW f \in Frame, NodeStep(f) PROVE UNCHANGED snap
  BY <1>10, WorkEffect DEF Node
<1> QED
  BY <1>3, <1>4, <1>5, <1>6, <1>7, <1>8, <1>9, <1>10 DEF Next, CallStep

\* The record of crossed snapshots is of frames, and grows.
LEMMA CrossedGrows ==
    ASSUME StepInv, [Next]_vars
    PROVE  crossed' \subseteq Frame /\ crossed \subseteq crossed'
<1>1. /\ snap \in [Kind -> Snapshot] /\ crossed \subseteq Frame
      /\ pc \in [Run -> Kind \cup {"idle", "ended"}]
  BY DEF StepInv, TypeOK, Snapshot
<1>2. ASSUME UNCHANGED crossed PROVE crossed' \subseteq Frame /\ crossed \subseteq crossed'
  BY <1>1, <1>2
<1>3. ASSUME NEW r \in Run, Resume(r)
      PROVE  crossed' \subseteq Frame /\ crossed \subseteq crossed'
  <2>1. pc[r] \in Kind
    BY <1>3 DEF Resume
  <2>2. PICK s \in Snapshot : s = snap[pc[r]]
    BY <1>1, <2>1
  <2>3. \/ UNCHANGED crossed
        \/ snap'[pc[r]].status # s.status /\ crossed' = crossed \cup {s.frame}
    BY <1>3, <2>2 DEF Resume
  <2>4. s.frame = None => snap'[pc[r]] = s
    BY <1>1, <1>3, <2>1, <2>2 DEF Resume, NoteAckTimeout, FinalizeFromAck, Finished
  <2>5. s.frame \in Frame \cup {None}
    BY DEF Snapshot
  <2> QED
    BY <1>1, <2>3, <2>4, <2>5
<1>4. ASSUME NEW r \in Run, Begin(r) \/ Dispatch(r) \/ Timeout(r) PROVE UNCHANGED crossed
  BY <1>4 DEF Begin, Dispatch, Timeout
<1>5. CASE \/ Disconnect \/ JoinFails \/ Authenticate \/ Register \/ Deliver \/ NodeTakes
           \/ UNCHANGED vars
  BY <1>2, <1>5 DEF Disconnect, JoinFails, Authenticate, Register, Deliver, NodeTakes,
                    vars, callVars
<1>6. ASSUME NEW f \in Frame, NodeStep(f) PROVE UNCHANGED crossed
  BY <1>6, WorkEffect DEF Node, callVars
<1> QED
  BY <1>2, <1>3, <1>4, <1>5, <1>6 DEF Next, CallStep

\* TypeOK, the ordering of the steps and what they rest on are inductive.
LEMMA StepInductive ==
    ASSUME StepInv, [Next]_vars
    PROVE  StepInv'
<1>1. Kept /\ snap' \in [Kind -> Snapshot]
  BY StepKept, SnapTypes
<1>2. /\ link \in {"down", "up", "joining", "renewing"} /\ version \in Version
      /\ reported \subseteq Version /\ target \in [Run -> Version \cup {None}] /\ CallInv
      /\ job \in [Frame -> {"none", "running", "done", "failed", "dead"}]
  BY DEF StepInv, TypeOK
<1>3. alive \in BOOLEAN
  BY DEF StepInv, TypeOK
<1>4. /\ link' \in {"down", "up", "joining", "renewing"} /\ version' \in Version
      /\ reported' \subseteq Version
  <2>1. ASSUME NEW f \in Frame, NodeStep(f)
        PROVE  /\ link' \in {"down", "up", "joining", "renewing"} /\ version' \in Version
               /\ UNCHANGED reported
    <3>1. CASE NodeRestarts(f)
      <4>1. f[1] \in Run /\ f[2] = "node" /\ f = <<f[1], "node">> /\ job[f] = "running"
        BY <3>1 DEF NodeRestarts, Frame
      <4>2. pc[f[1]] # "idle"
        BY <1>2, <4>1 DEF CallInv, Unsent
      <4>3. target[f[1]] \in Version
        BY <1>2, <4>1, <4>2 DEF CallInv
      <4> QED
        BY <3>1, <4>3 DEF NodeRestarts
    <3>2. CASE NodeProgresses(f) \/ NodeFails(f) \/ NodeActivates(f)
      BY <1>2, <3>2 DEF NodeProgresses, NodeFails, NodeActivates, nodeVars
    <3> QED
      BY <2>1, <3>1, <3>2 DEF NodeStep
  <2>2. ASSUME NEW r \in Run, Begin(r) \/ CallStep(r)
        PROVE  UNCHANGED <<link, version, reported>>
    BY <2>2 DEF Begin, CallStep, Dispatch, Resume, Timeout, nodeVars
  <2>3. CASE \/ Disconnect \/ JoinFails \/ Authenticate \/ Register \/ Deliver \/ NodeTakes
             \/ UNCHANGED vars
    BY <1>2, <2>3 DEF Disconnect, JoinFails, Authenticate, Register, Deliver, NodeTakes,
                      nodeVars, vars
  <2> QED
    BY <1>2, <2>1, <2>2, <2>3 DEF Next
<1>5. alive' \in BOOLEAN
  <2>1. ASSUME NEW f \in Frame, NodeStep(f) PROVE UNCHANGED alive \/ alive' = FALSE
    BY <2>1 DEF NodeStep, NodeProgresses, NodeFails, NodeActivates, NodeRestarts
  <2>2. ASSUME NEW r \in Run, Begin(r) \/ CallStep(r) PROVE UNCHANGED alive
    BY <2>2 DEF Begin, CallStep, Dispatch, Resume, Timeout
  <2>3. UNCHANGED alive \/ alive' = TRUE \/ alive' = FALSE
    <3>1. CASE \/ Disconnect \/ JoinFails \/ Authenticate \/ Register \/ Deliver \/ NodeTakes
               \/ UNCHANGED vars
      BY <3>1 DEF Disconnect, JoinFails, Authenticate, Register, Deliver, NodeTakes, vars
    <3> QED
      BY <2>1, <2>2, <3>1, Zenon DEF Next
  <2> QED
    BY <1>3, <2>3, Zenon
<1>6. TypeOK'
  BY <1>1, <1>4, <1>5, CrossedGrows DEF Kept, Typed, TypeOK, Snapshot, Message
<1> QED
  BY <1>1, <1>6 DEF StepInv, Kept, Calls

LEMMA StepInit == Init => StepInv
<1> SUFFICES ASSUME Init PROVE StepInv
  OBVIOUS
<1>1. /\ snap = [k \in Kind |-> NoSnap] /\ pc = [r \in Run |-> "idle"]
      /\ plan = [r \in Run |-> {}] /\ target = [r \in Run |-> None]
      /\ fut = [r \in Run |-> "none"] /\ link = "down" /\ down = << >> /\ up = << >>
      /\ job = [f \in Frame |-> "none"] /\ version \in Version /\ reported = {}
      /\ crossed = {}
  BY UpgradeTrackerAssumption DEF Init
<1>2. alive \in BOOLEAN
  <2>1. alive = FALSE
    BY DEF Init
  <2> QED
    BY <2>1, Zenon
<1>3. NoSnap \in [frame : Frame \cup {None}, status : Status, stage : Stage]
  BY DEF NoSnap, Status, Stage
<1>4. down \in Seq(Frame) /\ Len(down) <= Buffer
  BY <1>1, UpgradeTrackerAssumption
<1>5. up \in Seq([type : {"event", "ack"}, frame : Frame, val : Stage \cup {"ok", "error"}])
  BY <1>1
<1>6. TypeOK
  <2>1. snap \in [Kind -> [frame : Frame \cup {None}, status : Status, stage : Stage]]
    BY <1>1, <1>3
  <2> QED
    BY <1>1, <1>2, <1>4, <1>5, <2>1 DEF TypeOK
<1>7. CallInv
  <2>1. \A r \in Run : <<r, "runtime">> \in Frame /\ <<r, "node">> \in Frame
    BY DEF Frame, Kind
  <2>2. \A f \in Frame : Unsent(f)
    BY <1>1 DEF Unsent
  <2> QED
    BY <1>1, <2>1, <2>2 DEF CallInv, Kind
<1>8. DownInv /\ UpInv /\ FutInv /\ NodeStepAfterRuntime
  BY <1>1 DEF DownInv, UpInv, FutInv, NodeStepAfterRuntime
<1> QED
  BY <1>6, <1>7, <1>8 DEF StepInv

----------------------------------------------------------------------------
(***************************************************************************)
(* What a snapshot says is about its own frame, or is recorded as crossed. *)
(***************************************************************************)

\* What a snapshot says stays true as the system moves on.
LEMMA SnapStays ==
    ASSUME TypeOK, Onward, crossed \subseteq crossed', NEW k \in Kind, NEW s \in Snapshot,
           SnapOk(s, k)
    PROVE  SnapOk(s, k)'
<1>1. CASE s.frame = None
  BY <1>1 DEF SnapOk, Terminal
<1>2. CASE s.frame # None
  <2>1. s.frame \in Frame /\ s.frame[1] \in Run
    BY <1>2 DEF Snapshot, Frame
  <2>2. /\ s.frame[2] = k /\ pc[s.frame[1]] # "idle"
        /\ s.status = "completed" =>
              IF k = "runtime" THEN job[s.frame] = "done" \/ AnsweredFor(s.frame, k, "done")
              ELSE target[s.frame[1]] \in reported
        /\ s.status = "failed" =>
              \/ job[s.frame] = "failed"
              \/ Unsent(s.frame) /\ pc[s.frame[1]] = "ended"
              \/ AnsweredFor(s.frame, k, "failed")
    BY <1>2 DEF SnapOk
  <2>3. pc'[s.frame[1]] # "idle" /\ target'[s.frame[1]] = target[s.frame[1]]
    BY <2>1, <2>2 DEF Onward
  <2>4. job[s.frame] \in {"done", "failed"} => job'[s.frame] = job[s.frame]
    BY <2>1 DEF Onward, JobsStay
  <2>5. Unsent(s.frame) /\ pc[s.frame[1]] = "ended" =>
           Unsent(s.frame)' /\ pc'[s.frame[1]] = "ended"
    BY <2>1 DEF Onward
  <2>6. reported \subseteq reported'
    BY DEF Onward
  <2>7. ASSUME NEW outcome \in {"done", "failed"}, AnsweredFor(s.frame, k, outcome)
        PROVE  AnsweredFor(s.frame, k, outcome)'
    <3>1. PICK q \in Run \ {s.frame[1]} : job[<<q, k>>] = outcome
      BY <2>7 DEF AnsweredFor
    <3>2. job'[<<q, k>>] = outcome
      BY <3>1 DEF Onward, JobsStay, Frame
    <3> QED
      BY <2>7, <3>2 DEF AnsweredFor
  <2> QED
    BY <1>2, <2>2, <2>3, <2>4, <2>5, <2>6, <2>7 DEF SnapOk
<1> QED
  BY <1>1, <1>2

\* The tracker's methods make no snapshot say what is not so.
LEMMA MethodsOk ==
    ASSUME NEW k \in Kind, NEW s \in Snapshot, SnapOk(s, k)
    PROVE  /\ SnapOk(MarkRestarting(s), k)
           /\ \A m \in Message : Truthful(m) /\ m.type = "event" /\ m.frame[2] = k =>
                  SnapOk(Apply(s, m.frame, m.val), k)
<1>1. SnapOk(MarkRestarting(s), k)
  BY DEF SnapOk, MarkRestarting, Finished, Terminal, Snapshot, Status
<1>2. ASSUME NEW m \in Message, Truthful(m), m.type = "event", m.frame[2] = k
      PROVE  SnapOk(Apply(s, m.frame, m.val), k)
  <2>1. CASE Apply(s, m.frame, m.val) = s
    BY <2>1
  <2>2. CASE Apply(s, m.frame, m.val) # s
    <3>1. PICK t \in Snapshot : t = Apply(s, m.frame, m.val)
      <4>1. m.frame \in Frame /\ m.val \in {"working", "done", "failed"}
        BY <1>2 DEF Message, Truthful
      <4> QED
        BY <4>1, SnapshotTypes
    <3>2. /\ s.frame = m.frame /\ t.frame = m.frame
          /\ t.status = CASE m.val = "done" -> "completed"
                           [] m.val = "failed" -> "failed"
                           [] OTHER -> s.status
      BY <2>2, <3>1 DEF Apply, Snapshot
    <3> m.frame # None /\ pc[m.frame[1]] # "idle"
      BY <1>2, <3>2, UpgradeTrackerAssumption DEF Message, SnapOk
    <3>3. CASE m.val = "done"
      BY <1>2, <3>1, <3>2, <3>3 DEF SnapOk, Truthful
    <3>4. CASE m.val = "failed"
      BY <1>2, <3>1, <3>2, <3>4 DEF SnapOk, Truthful
    <3>5. CASE m.val \notin {"done", "failed"}
      BY <1>2, <3>1, <3>2, <3>5 DEF SnapOk
    <3> QED
      BY <3>3, <3>4, <3>5
  <2> QED
    BY <2>1, <2>2
<1> QED
  BY <1>1, <1>2

LEMMA SnapInductive ==
    ASSUME StepInv, SnapInv, [Next]_vars
    PROVE  SnapInv'
<1>1. /\ snap \in [Kind -> Snapshot] /\ CallInv /\ FutInv
      /\ fut \in [Run -> {"none", "pending", "ok", "error", "lost"}]
      /\ pc \in [Run -> Kind \cup {"idle", "ended"}] /\ TypeOK
  BY DEF StepInv, TypeOK, Snapshot
<1>2. Onward /\ crossed \subseteq crossed'
  BY StepKept, CrossedGrows DEF Kept
<1>3. SUFFICES ASSUME NEW k \in Kind PROVE SnapOk(snap[k], k)'
  BY DEF SnapInv
<1>4. PICK s \in Snapshot : s = snap[k] /\ SnapOk(s, k)
  BY <1>1 DEF SnapInv
<1> DEFINE Fine == SnapOk(snap[k], k)'
<1> SUFFICES Fine
  OBVIOUS
<1> HIDE DEF Fine
<1>5. ASSUME NEW t, snap'[k] = t, SnapOk(t, k)' PROVE Fine
  BY <1>5 DEF Fine, SnapOk
<1>6. ASSUME NEW t \in Snapshot, snap'[k] = t, SnapOk(t, k) PROVE Fine
  BY <1>1, <1>2, <1>5, <1>6, SnapStays
<1>7. ASSUME snap'[k] = snap[k] PROVE Fine
  BY <1>4, <1>6, <1>7
<1>8. ASSUME NEW r \in Run, Dispatch(r) PROVE Fine
  <2>1. /\ pc[r] \in Kind /\ <<r, pc[r]>> \in Frame /\ fut[r] = "none"
        /\ Unsent(<<r, pc[r]>>)
    BY <1>1, <1>8 DEF Dispatch, Frame, CallInv
  <2>2. CASE k # pc[r] \/ UNCHANGED snap
    <3>1. snap'[k] = snap[k]
      BY <1>1, <1>8, <2>1, <2>2 DEF Dispatch
    <3> QED
      BY <1>7, <3>1
  <2>3. CASE k = pc[r] /\ snap' # snap
    <3>1. PICK t \in Snapshot : t = InitStep(<<r, k>>)
      BY <2>1, <2>3, <1>4, SnapshotTypes
    <3>2. t.frame = <<r, k>> /\ t.status = "dispatched"
      BY <3>1 DEF InitStep
    <3>4. \/ /\ snap' = [snap EXCEPT ![k] = FinalizeFromAck(t, k, FALSE)]
             /\ Goto(r, "ended") /\ UNCHANGED <<down, job>>
          \/ snap' = [snap EXCEPT ![k] = t] /\ UNCHANGED pc
      BY <1>8, <2>3, <3>1 DEF Dispatch, nodeVars
    <3>5. CASE snap' = [snap EXCEPT ![k] = t] /\ UNCHANGED pc
      <4>1. SnapOk(t, k)'
        BY <2>1, <2>3, <3>2, <3>5 DEF SnapOk, Terminal, Kind
      <4>2. snap'[k] = t
        BY <1>1, <3>5
      <4> QED
        BY <1>5, <4>1, <4>2
    <3>6. CASE /\ snap' = [snap EXCEPT ![k] = FinalizeFromAck(t, k, FALSE)]
               /\ Goto(r, "ended") /\ UNCHANGED <<down, job>>
      <4>1. PICK u : u = FinalizeFromAck(t, k, FALSE)
        OBVIOUS
      <4>2. u.frame = <<r, k>> /\ u.status = IF t.frame = None THEN "dispatched" ELSE "failed"
        BY <3>2, <4>1 DEF FinalizeFromAck, Finished, Terminal, Snapshot
      <4>3. pc'[r] = "ended" /\ Unsent(<<r, k>>)'
        BY <1>1, <2>1, <2>3, <3>6 DEF Goto, Unsent
      <4>4. SnapOk(u, k)'
        BY <2>1, <2>3, <3>2, <4>2, <4>3 DEF SnapOk, Terminal
      <4>5. snap'[k] = u
        BY <1>1, <3>6, <4>1
      <4> QED
        BY <1>5, <4>4, <4>5
    <3> QED
      BY <3>4, <3>5, <3>6
  <2> QED
    BY <2>2, <2>3
<1>9. ASSUME NEW r \in Run, Resume(r) \/ Timeout(r) PROVE Fine
  <2>1. pc[r] \in Kind
    BY <1>1, <1>9 DEF Resume, Timeout, CallInv
  <2>2. CASE k # pc[r] \/ Timeout(r) \/ fut[r] = "lost"
    <3>1. snap'[k] = snap[k]
      BY <1>1, <1>9, <2>1, <2>2 DEF Resume, Timeout, NoteAckTimeout
    <3> QED
      BY <1>7, <3>1
  <2>3. CASE k = pc[r] /\ Resume(r) /\ fut[r] # "lost"
    <3>1. PICK ok \in BOOLEAN : ok = (fut[r] = "ok")
      OBVIOUS
    <3>2. PICK t \in Snapshot : t = FinalizeFromAck(s, k, ok) /\ t.frame = s.frame
      BY SnapshotTypes
    <3>3. snap'[k] = t
      BY <1>1, <1>4, <2>3, <3>1, <3>2 DEF Resume
    <3>4. SnapOk(s, k)'
      BY <1>1, <1>2, <1>4, SnapStays
    <3>5. CASE t.status = s.status
      <4>1. SnapOk(t, k)'
        BY <3>2, <3>4, <3>5 DEF SnapOk
      <4> QED
        BY <1>5, <3>3, <4>1
    <3>6. CASE t.status # s.status
      <4>1. PICK outcome \in {"done", "failed"} :
               /\ t.status = IF outcome = "done" THEN "completed" ELSE "failed"
               /\ outcome = "done" => ok /\ k = "runtime"
               /\ outcome = "failed" => ~ok
        BY <3>2, <3>6 DEF FinalizeFromAck, Snapshot
      <4>2. job'[<<r, k>>] = outcome
        <5>1. fut[r] \in {"ok", "error"} /\ UNCHANGED job
          BY <2>3 DEF Resume, nodeVars
        <5> QED
          BY <1>1, <2>3, <3>1, <4>1, <5>1 DEF FutInv
      <4>3. s.frame # None /\ s.frame[2] = k /\ pc'[s.frame[1]] # "idle"
        <5>1. s.frame # None
          BY <3>2, <3>6 DEF FinalizeFromAck, Finished
        <5>2. (s.frame # None => s.frame[2] = k /\ pc[s.frame[1]] # "idle")'
          BY <3>4 DEF SnapOk
        <5> QED
          BY <5>1, <5>2
      <4>4. CASE s.frame = <<r, k>>
        <5>1. SnapOk(t, k)'
          BY <3>2, <4>1, <4>2, <4>3, <4>4 DEF SnapOk, Terminal
        <5> QED
          BY <1>5, <3>3, <5>1
      <4>5. CASE s.frame # <<r, k>>
        <5>1. s.frame \in crossed'
          BY <1>4, <2>3, <3>2, <3>3, <3>6, <4>5 DEF Resume
        <5>2. r # s.frame[1]
          BY <4>3, <4>5, <3>2 DEF Snapshot, Frame
        <5>3. AnsweredFor(t.frame, k, outcome)'
          BY <3>2, <4>2, <5>1, <5>2 DEF AnsweredFor
        <5>4. SnapOk(t, k)'
          BY <3>2, <4>1, <4>3, <5>3 DEF SnapOk, Terminal
        <5> QED
          BY <1>5, <3>3, <5>4
      <4> QED
        BY <4>4, <4>5
    <3> QED
      BY <3>5, <3>6
  <2> QED
    BY <1>9, <2>2, <2>3 DEF Resume, Timeout
<1>10. CASE Disconnect
  <2>1. snap'[k] = snap[k] \/ snap'[k] = MarkRestarting(s)
    BY <1>1, <1>4, <1>10 DEF Disconnect
  <2>2. MarkRestarting(s) \in Snapshot /\ SnapOk(MarkRestarting(s), k)
    BY <1>4, MethodsOk, SnapshotTypes
  <2> QED
    BY <1>6, <1>7, <2>1, <2>2
<1>11. CASE Authenticate
  <2>1. \/ snap'[k] = snap[k]
        \/ k = "node" /\ snap'[k] = FinalizeFromReconnect(s, version)
    <3>1. snap' = [snap EXCEPT !["node"] = FinalizeFromReconnect(snap["node"], version)]
      BY <1>11 DEF Authenticate
    <3>2. CASE k = "node"
      BY <1>1, <1>4, <3>1, <3>2
    <3>3. CASE k # "node"
      BY <1>1, <3>1, <3>3
    <3> QED
      BY <3>2, <3>3
  <2>2. PICK t \in Snapshot : t = FinalizeFromReconnect(s, version)
    BY SnapshotTypes
  <2>3. SnapOk(s, k)'
    BY <1>1, <1>2, <1>4, SnapStays
  <2>4. version \in reported' /\ UNCHANGED target
    BY <1>11 DEF Authenticate, callVars
  <2>5. k = "node" => SnapOk(t, k)'
    BY <2>2, <2>3, <2>4 DEF SnapOk, FinalizeFromReconnect, Finished, Terminal, Snapshot, Status
  <2> QED
    BY <1>5, <1>7, <2>1, <2>2, <2>5
<1>12. CASE Deliver
  <2>1. PICK m \in Message : m = Head(up) /\ Truthful(m)
    <3>1. up \in Seq(Message) /\ up # << >> /\ UpInv
      BY <1>12 DEF StepInv, TypeOK, Deliver, Message
    <3>2. Head(up) \in Message /\ Head(up) = up[1] /\ 1 \in 1 .. Len(up)
      <4> HIDE DEF Message
      <4> QED
        BY <3>1
    <3> QED
      BY <3>1, <3>2 DEF UpInv
  <2>2. m.frame \in Frame /\ m.frame[2] \in Kind
    BY DEF Message, Frame
  <2>3. \/ snap'[k] = snap[k]
        \/ /\ m.type = "event" /\ m.frame[2] = k
           /\ snap'[k] = Apply(s, m.frame, m.val)
    BY <1>1, <1>4, <1>12, <2>1, <2>2 DEF Deliver
  <2>4. m.type = "event" => m.val \in {"working", "done", "failed"}
    BY <2>1 DEF Truthful
  <2>5. CASE /\ m.type = "event" /\ m.frame[2] = k
             /\ snap'[k] = Apply(s, m.frame, m.val)
    <3>1. Apply(s, m.frame, m.val) \in Snapshot /\ SnapOk(Apply(s, m.frame, m.val), k)
      BY <1>4, <2>1, <2>2, <2>4, <2>5, MethodsOk, SnapshotTypes
    <3> QED
      BY <1>6, <2>5, <3>1
  <2> QED
    BY <1>7, <2>3, <2>5
<1>13. CASE UNCHANGED vars \/ JoinFails \/ Register \/ NodeTakes
  BY <1>7, <1>13 DEF vars, JoinFails, Register, NodeTakes
<1>14. ASSUME NEW r \in Run, Begin(r) PROVE Fine
  BY <1>7, <1>14 DEF Begin
<1>15. ASSUME NEW f \in Frame, NodeStep(f) PROVE Fine
  BY <1>7, <1>15, WorkEffect DEF Node
<1> QED
  BY <1>8, <1>9, <1>10, <1>11, <1>12, <1>13, <1>14, <1>15 DEF Next, CallStep

----------------------------------------------------------------------------
(***************************************************************************)
(* The theorems.                                                           *)
(***************************************************************************)

LEMMA StepsHold == Spec => []StepInv
<1>1. StepInv /\ [Next]_vars => StepInv'
  BY StepInductive
<1> QED
  BY <1>1, StepInit, PTL DEF Spec

\* TypeOK holds in every state: snapshots, call states, queues and the node's
\* work keep their types.
THEOREM UpgradeTypeCorrect == Spec => []TypeOK
<1>1. StepInv => TypeOK
  BY DEF StepInv
<1> QED
  BY <1>1, StepsHold, PTL

\* upgrade_node reaches the node step only after the node activated the runtime
\* step, however many calls run at once and whatever is lost or timed out.
THEOREM OrderedSteps == Spec => []NodeStepAfterRuntime
<1>1. StepInv => NodeStepAfterRuntime
  BY DEF StepInv
<1> QED
  BY <1>1, StepsHold, PTL

\* However many upgrade calls overlap, a snapshot that apply, finalize_from_ack or
\* finalize_from_reconnect finished says what became of the frame it was created
\* for, or is recorded as one that the answer to another call's frame finished,
\* and then says what became of a frame of another call.
THEOREM OwnOutcome == Spec => []FinishedByOwnRun
<1>1. Init => TrackerInv
  <2>1. Init => SnapInv
    BY DEF Init, SnapInv, SnapOk, NoSnap, Terminal
  <2> QED
    BY <2>1, StepInit DEF TrackerInv
<1>2. TrackerInv /\ [Next]_vars => TrackerInv'
  BY StepInductive, SnapInductive DEF TrackerInv
<1>3. TrackerInv => FinishedByOwnRun
  <2> SUFFICES ASSUME TrackerInv PROVE FinishedByOwnRun
    OBVIOUS
  <2>1. ASSUME NEW k \in Kind, NEW s \in Snapshot, s = snap[k], SnapOk(s, k)
        PROVE  /\ s.status = "completed" =>
                     IF k = "runtime" THEN job[s.frame] = "done" \/ AnsweredFor(s.frame, k, "done")
                     ELSE target[s.frame[1]] \in reported
               /\ s.status = "failed" =>
                     job[s.frame] \in {"failed", "none"} \/ AnsweredFor(s.frame, k, "failed")
    BY <2>1 DEF SnapOk, Unsent
  <2>2. \A k \in Kind : snap[k] \in Snapshot /\ SnapOk(snap[k], k)
    BY DEF TrackerInv, StepInv, TypeOK, SnapInv, Snapshot
  <2> QED
    BY <2>1, <2>2 DEF FinishedByOwnRun
<1> QED
  BY <1>1, <1>2, <1>3, PTL DEF Spec
============================================================================

------------------------ MODULE SessionDispatchProofs ------------------------
(***************************************************************************)
(* Proofs about SessionDispatch, for any sets of nodes, sessions and       *)
(* requests, any buffer and any capacity.                                  *)
(***************************************************************************)
EXTENDS SessionDispatch, TLAPS

\* The phases before a request has sent its frame, and those of its placement.
Early == {"idle", "select", "lookup", "ready"}
Binds == {"find1", "insert1", "find2", "insert2"}

\* A caller that has a future is blocked on it.
WaitInv ==
    /\ WaitersAreCallers
    /\ \A r \in Req : fut[r] # "none" => pc[r] = "waiting"

\* A frame on its way is unanswered, goes to its request's node and is there
\* once; an ack on its way answers a frame.
FrameInv ==
    \A n \in Node :
        /\ \A i \in 1 .. Len(down[n]) :
              /\ answer[down[n][i]] = "none"
              /\ target[down[n][i]] = n
              /\ pc[down[n][i]] \notin Early
              /\ \A j \in 1 .. Len(down[n]) : down[n][i] = down[n][j] => i = j
        /\ \A i \in 1 .. Len(up[n]) : answer[up[n][i]] # "none"

\* What a request's phase says of its RPC, its node and the answer to its frame.
CallInv ==
    \A r \in Req :
        /\ pc[r] # "idle" => op[r] \in AnyOp /\ sess[r] \in Session
        /\ pc[r] \in Early => answer[r] = "none"
        /\ pc[r] = "unbind" => op[r] = "delete"
        /\ pc[r] \in Binds => op[r] = "create" /\ <<target[r], sess[r]>> \in created
        /\ pc[r] \in {"snapshot", "save"} => answer[r] = "ok"
        /\ op[r] = "create" /\ answer[r] \in {"ok", "exists"} =>
              <<target[r], sess[r]>> \in created

\* A lost insert found a row, and one that is gone at the retry was removed.
RetryInv ==
    \A r \in Req :
        /\ pc[r] = "find2" => binding[sess[r]] # Unbound \/ Unbinding(sess[r])
        /\ pc[r] \in {"insert2", "conflict"} => Unbinding(sess[r])

DispatchInv == TypeOK /\ WaitInv /\ FrameInv /\ CallInv /\ AnswerIsOwn
               /\ PlacementWasAcked /\ RetryInv

----------------------------------------------------------------------------
\* Nothing is under way initially.
LEMMA InitDispatch == Init => DispatchInv
<1> SUFFICES ASSUME Init PROVE DispatchInv
  OBVIOUS
<1>1. TypeOK
  <2>1. /\ rows \subseteq Node /\ online \subseteq Node /\ fresh \subseteq online
        /\ purge \in [Node -> {"none", "row", "drop", "done"}]
        /\ active \in [Node -> SUBSET Session] /\ acks \in [Node -> SUBSET Req]
        /\ held \in [Node -> SUBSET Session] /\ created \subseteq Node \X Session
    BY DEF Init
  <2>2. /\ down \in [Node -> Seq(Req)] /\ up \in [Node -> Seq(Req)]
        /\ \A n \in Node : Len(down[n]) <= Buffer
    BY SessionDispatchAssumption DEF Init
  <2>3. /\ answer \in [Req -> Answer \cup {"none"}] /\ pc \in [Req -> Phase]
        /\ binding \in [Session -> [node : Node \cup {None}, rev : Req \cup {None}]]
        /\ op \in [Req -> AnyOp \cup {None}] /\ sess \in [Req -> Session \cup {None}]
        /\ todo \in [Req -> SUBSET Node] /\ target \in [Req -> Node \cup {None}]
        /\ fut \in [Req -> Future]
    BY DEF Init, Phase, Future, Unbound
  <2> QED
    BY <2>1, <2>2, <2>3 DEF TypeOK
<1>2. WaitInv /\ FrameInv /\ CallInv /\ AnswerIsOwn
  BY SessionDispatchAssumption
     DEF Init, WaitInv, WaitersAreCallers, FrameInv, CallInv, AnswerIsOwn, Binds, Answer, AnyOp
<1>3. PlacementWasAcked /\ RetryInv
  BY DEF Init, PlacementWasAcked, RetryInv, Unbound
<1> QED
  BY <1>1, <1>2, <1>3 DEF DispatchInv

----------------------------------------------------------------------------
(***************************************************************************)
(* The types.                                                              *)
(***************************************************************************)

\* Connections, their loss and the deletion of a node.
LEMMA ConnTypeOK ==
    ASSUME DispatchInv, NEW n \in Node, ConnStep(n) \/ DeleteStep(n)
    PROVE  TypeOK'
<1> USE DEF DispatchInv, TypeOK, storeVars, wireVars, nodeVars, reqVars, connVars
<1>1. ASSUME Lose(n), UNCHANGED <<nodeVars, reqVars, pc, binding>>,
             rows' \subseteq Node, online' \subseteq Node, fresh' \subseteq online',
             purge' \in [Node -> {"none", "row", "drop", "done"}]
      PROVE  TypeOK'
  BY <1>1, SessionDispatchAssumption DEF Lose, Close, Future
<1>2. CASE Connect(n) \/ Disconnect(n) \/ DropDeleted(n)
  BY <1>1, <1>2 DEF Connect, Disconnect, DropDeleted
<1>3. CASE Heartbeat(n) \/ Silence(n)
  BY <1>3, ZenonT(60) DEF Heartbeat, Silence
<1>4. CASE NodeHandles(n)
  <2>1. Head(down[n]) \in Req /\ Tail(down[n]) \in Seq(Req)
        /\ Len(Tail(down[n])) <= Buffer /\ Len(down[n]) > 0
    BY <1>4, SessionDispatchAssumption DEF NodeHandles
  <2> DEFINE r == Head(down[n])
  <2>2. /\ down' \in [Node -> Seq(Req)]
        /\ \A m \in Node : Len(down'[m]) <= Buffer
    BY <1>4, <2>1 DEF NodeHandles
  <2>3. CASE UNCHANGED <<up, nodeVars>>
    BY <1>4, <2>2, <2>3 DEF NodeHandles
  <2>4. ASSUME NEW out \in NodeOutcome(n, r),
               up' = [up EXCEPT ![n] = Append(@, r)],
               answer' = [answer EXCEPT ![r] = out[1]],
               held' = [held EXCEPT ![n] = out[2]],
               created' = IF op[r] = "create" /\ out[1] # "rejected"
                          THEN created \cup {<<n, sess[r]>>} ELSE created
        PROVE  TypeOK'
    <3>1. r \in Req /\ sess[r] \in Session
      <4>1. Len(down[n]) \in Nat /\ down[n][1] = r
        BY <1>4 DEF NodeHandles
      <4>2. pc[r] \notin Early
        BY <2>1, <4>1 DEF FrameInv
      <4> QED
        BY <2>1, <4>2 DEF CallInv, Early
    <3>2. out[1] \in Answer /\ out[2] \in SUBSET Session
      BY <2>4, <3>1 DEF NodeOutcome, Answer
    <3>3. /\ up' \in [Node -> Seq(Req)] /\ held' \in [Node -> SUBSET Session]
          /\ answer' \in [Req -> Answer \cup {"none"}]
          /\ created' \subseteq Node \X Session
      BY <2>4, <3>1, <3>2
    <3> QED
      BY <1>4, <2>2, <3>3 DEF NodeHandles
  <2> QED
    BY <1>4, <2>3, <2>4 DEF NodeHandles
<1>5. CASE DeliverAck(n)
  <2>1. Head(up[n]) \in Req /\ Tail(up[n]) \in Seq(Req)
    BY <1>5 DEF DeliverAck
  <2>2. acks' \in [Node -> SUBSET Req] /\ fut' \in [Req -> Future]
    BY <1>5, <2>1 DEF DeliverAck, Future
  <2> QED
    BY <1>5, <2>1, <2>2 DEF DeliverAck
<1>6. CASE DeleteBindings(n)
  <2>1. binding' \in [Session -> [node : Node \cup {None}, rev : Req \cup {None}]]
    BY <1>6 DEF DeleteBindings, Unbound
  <2> QED
    BY <1>6, <2>1 DEF DeleteBindings
<1>7. CASE DeleteRow(n)
  BY <1>7 DEF DeleteRow
<1> QED
  BY <1>2, <1>3, <1>4, <1>5, <1>6, <1>7 DEF ConnStep, DeleteStep

\* A request goes to one of the phases.
LEMMA GotoTypeOK ==
    ASSUME pc \in [Req -> Phase], NEW r \in Req, \E p \in Phase : Goto(r, p)
    PROVE  pc' \in [Req -> Phase]
BY DEF Goto

\* Every step of a request leads to a phase.
LEMMA RequestPhase ==
    ASSUME DispatchInv, NEW r \in Req, Begin(r) \/ RequestStep(r)
    PROVE  pc' \in [Req -> Phase]
<1>1. {"select", "lookup", "ready", "waiting", "find1", "insert1", "find2", "insert2",
       "unbind", "snapshot", "save", "done", "error", "conflict"} \subseteq Phase
  BY DEF Phase
<1>2. \E p \in Phase : Goto(r, p)
  <2>1. CASE Begin(r)
    BY <1>1, <2>1 DEF Begin
  <2>2. CASE ReadRecord(r) \/ NoNode(r) \/ ReadBinding(r)
    BY <1>1, <2>2 DEF ReadRecord, NoNode, ReadBinding
  <2>3. CASE Send(r)
    BY <1>1, <2>3 DEF Send, Unreached, Unanswered
  <2>4. CASE Timeout(r) \/ Resume(r)
    BY <1>1, <2>4 DEF Timeout, Resume, AfterAck, Unanswered
  <2>5. CASE FindBinding(r) \/ InsertBinding(r)
    BY <1>1, <2>5 DEF FindBinding, InsertBinding, LostInsert
  <2>6. CASE Unbind(r) \/ ReadSnapshot(r) \/ SaveSnapshot(r)
    BY <1>1, <2>6 DEF Unbind, ReadSnapshot, SaveSnapshot
  <2> QED
    BY <2>1, <2>2, <2>3, <2>4, <2>5, <2>6 DEF RequestStep
<1> QED
  BY <1>2, GotoTypeOK DEF DispatchInv, TypeOK

\* Updating a function at one point keeps its domain and its range.
LEMMA ExceptType ==
    ASSUME NEW A, NEW B, NEW f \in [A -> B], NEW x, NEW v \in B
    PROVE  [f EXCEPT ![x] = v] \in [A -> B]
OBVIOUS

\* A request, up to its placement.
LEMMA RequestTypeOK ==
    ASSUME DispatchInv, NEW r \in Req, Begin(r) \/ RequestStep(r)
    PROVE  TypeOK'
<1> USE DEF storeVars, wireVars, nodeVars, reqVars, connVars
<1>1. pc' \in [Req -> Phase]
  BY RequestPhase
<1>2. TypeOK /\ (pc[r] # "idle" => sess[r] \in Session)
  BY DEF DispatchInv, CallInv
<1>a. /\ acks \in [Node -> SUBSET Req] /\ down \in [Node -> Seq(Req)]
      /\ op \in [Req -> AnyOp \cup {None}] /\ sess \in [Req -> Session \cup {None}]
      /\ todo \in [Req -> SUBSET Node] /\ target \in [Req -> Node \cup {None}]
      /\ fut \in [Req -> Future] /\ \A n \in Node : Len(down[n]) <= Buffer
      /\ online \subseteq Node
      /\ binding \in [Session -> [node : Node \cup {None}, rev : Req \cup {None}]]
  BY <1>2 DEF TypeOK
<1>b. /\ "pending" \in Future /\ "none" \in Future
  BY DEF Future
<1>3. CASE Begin(r)
  <2>1. PICK o \in Op, s \in Session :
           /\ op' = [op EXCEPT ![r] = o] /\ sess' = [sess EXCEPT ![r] = s]
           /\ \/ \E N \in {{n} : n \in Node} \cup {online} : todo' = [todo EXCEPT ![r] = N]
              \/ UNCHANGED todo
    BY <1>3 DEF Begin
  <2>2. o \in AnyOp \cup {None}
    BY SessionDispatchAssumption
  <2>3. op' \in [Req -> AnyOp \cup {None}]
    BY <1>a, <2>1, <2>2, ExceptType
  <2>4. sess' \in [Req -> Session \cup {None}]
    BY <1>a, <2>1, ExceptType
  <2>5. todo' \in [Req -> SUBSET Node]
    <3>1. ASSUME NEW N \in {{n} : n \in Node} \cup {online}, todo' = [todo EXCEPT ![r] = N]
          PROVE  todo' \in [Req -> SUBSET Node]
      <4>1. N \in SUBSET Node
        BY <1>a
      <4> QED
        BY <1>a, <3>1, <4>1, ExceptType
    <3> QED
      BY <1>a, <2>1, <3>1
  <2>6. UNCHANGED <<rows, purge, binding, online, fresh, active, down, up, held, created,
                    answer, acks, target, fut>>
    BY <1>3 DEF Begin
  <2> QED
    BY <1>1, <1>2, <2>3, <2>4, <2>5, <2>6 DEF TypeOK
<1>4. CASE ReadRecord(r) \/ NoNode(r) \/ ReadSnapshot(r)
  <2>1. CASE ReadRecord(r)
    <3>1. PICK n \in todo[r] :
             /\ todo' = [todo EXCEPT ![r] = @ \ {n}]
             /\ target' = [target EXCEPT ![r] = IF n \in rows THEN n ELSE None]
      BY <2>1 DEF ReadRecord
    <3>2. todo' \in [Req -> SUBSET Node] /\ target' \in [Req -> Node \cup {None}]
      BY <1>a, <3>1
    <3> QED
      BY <1>1, <1>2, <2>1, <3>2 DEF ReadRecord, TypeOK
  <2>2. CASE NoNode(r) \/ ReadSnapshot(r)
    BY <1>1, <1>2, <2>2 DEF NoNode, ReadSnapshot, TypeOK
  <2> QED
    BY <1>4, <2>1, <2>2
<1>5. CASE ReadBinding(r)
  <2>1. binding[sess[r]].node \in Node \cup {None}
    BY <1>2, <1>5 DEF ReadBinding, TypeOK
  <2> QED
    BY <1>1, <1>2, <1>5, <2>1 DEF ReadBinding, TypeOK
<1>6. CASE Send(r)
  <2>1. CASE UNCHANGED <<down, acks, fut>> /\ target' = [target EXCEPT ![r] = None]
    BY <1>1, <1>2, <1>6, <2>1 DEF Send, TypeOK
  <2>2. CASE /\ Usable(r) /\ Room(target[r]) /\ UNCHANGED target
             /\ down' = [down EXCEPT ![target[r]] = Append(@, r)]
    <3> DEFINE n == target[r]
    <3>1. n \in Node /\ down[n] \in Seq(Req) /\ Len(down[n]) < Buffer
      BY <1>a, <2>2 DEF Usable, Room
    <3>2. Append(down[n], r) \in Seq(Req) /\ Len(Append(down[n], r)) <= Buffer
      BY <3>1, SessionDispatchAssumption
    <3>3. down' \in [Node -> Seq(Req)] /\ \A m \in Node : Len(down'[m]) <= Buffer
      BY <1>a, <2>2, <3>1, <3>2
    <3>4. \/ UNCHANGED <<acks, fut>>
          \/ acks' = [acks EXCEPT ![n] = acks[n] \cup {r}] /\ fut' = [fut EXCEPT ![r] = "pending"]
      BY <1>6, <2>2 DEF Send
    <3>5. acks' \in [Node -> SUBSET Req]
      <4>1. acks[n] \cup {r} \in SUBSET Req
        BY <1>a, <3>1
      <4> QED
        BY <1>a, <3>4, <4>1, ExceptType
    <3>6. fut' \in [Req -> Future]
      BY <1>a, <1>b, <3>4, ExceptType
    <3>7. UNCHANGED <<storeVars, connVars, up, nodeVars, op, sess, todo, target>>
      BY <1>6, <2>2 DEF Send
    <3> QED
      BY <1>1, <1>2, <3>3, <3>5, <3>6, <3>7 DEF TypeOK
  <2> QED
    BY <1>6, <2>1, <2>2 DEF Send
<1>7. CASE Timeout(r) \/ Resume(r)
  <2>1. fut' \in [Req -> Future]
    BY <1>a, <1>b, <1>7, ExceptType DEF Timeout, Resume
  <2>2. acks' \in [Node -> SUBSET Req]
    <3>1. \A n \in Node : acks[n] \ {r} \in SUBSET Req
      BY <1>a
    <3> QED
      BY <1>a, <1>7, <3>1 DEF Timeout, Resume
  <2>3. UNCHANGED <<storeVars, connVars, wireVars, nodeVars, reqVars>>
    BY <1>7 DEF Timeout, Resume
  <2> QED
    BY <1>1, <1>2, <2>1, <2>2, <2>3 DEF TypeOK
<1>8. CASE FindBinding(r) \/ InsertBinding(r) \/ Unbind(r) \/ SaveSnapshot(r)
  <2> DEFINE Row == [node : Node \cup {None}, rev : Req \cup {None}]
  <2>1. sess[r] \in Session /\ binding \in [Session -> Row] /\ target[r] \in Node \cup {None}
    BY <1>2, <1>a, <1>8 DEF FindBinding, InsertBinding, Unbind, SaveSnapshot
  <2>2. Placement(r) \in Row /\ Unbound \in Row
    BY <2>1 DEF Placement, Unbound
  <2>3. \/ UNCHANGED binding
        \/ binding' = [binding EXCEPT ![sess[r]] = Placement(r)]
        \/ binding' = [binding EXCEPT ![sess[r]] = Unbound]
        \/ binding' = [binding EXCEPT ![sess[r]].rev = r]
    BY <1>8 DEF FindBinding, InsertBinding, Unbind, SaveSnapshot
  <2>4. ASSUME binding' = [binding EXCEPT ![sess[r]].rev = r] PROVE binding' \in [Session -> Row]
    BY <2>1, <2>4
  <2>5. binding' \in [Session -> Row]
    <3> HIDE DEF Row
    <3> QED
      BY <2>1, <2>2, <2>3, <2>4, ExceptType
  <2>6. UNCHANGED <<rows, purge, connVars, wireVars, nodeVars, reqVars, acks, fut>>
    BY <1>8 DEF FindBinding, InsertBinding, Unbind, SaveSnapshot
  <2> QED
    BY <1>1, <1>2, <2>5, <2>6 DEF TypeOK
<1> QED
  BY <1>3, <1>4, <1>5, <1>6, <1>7, <1>8 DEF RequestStep

\* The steps of a request whose future, waiters and node stay as they are.
Quiet(r) == \/ NoNode(r) \/ FindBinding(r) \/ InsertBinding(r) \/ Unbind(r)
            \/ ReadSnapshot(r) \/ SaveSnapshot(r)

----------------------------------------------------------------------------
(***************************************************************************)
(* Waiters and frames.                                                     *)
(***************************************************************************)

\* Closing a connection fails its callers and no other's.
LEMMA LoseKeepsWaiters ==
    ASSUME DispatchInv, NEW n \in Node, Lose(n), UNCHANGED <<pc, target>>,
           online' \in {online \cup {n}, online \ {n}}
    PROVE  WaitInv'
<1>1. /\ acks \in [Node -> SUBSET Req] /\ fut \in [Req -> Future]
      /\ \A m \in Node : acks[m] = {r \in Req : fut[r] = "pending" /\ target[r] = m}
      /\ \A r \in Req : fut[r] = "pending" => target[r] \in online
      /\ \A r \in Req : fut[r] # "none" => pc[r] = "waiting"
  BY DEF DispatchInv, TypeOK, WaitInv, WaitersAreCallers
<1>2. /\ acks' = [acks EXCEPT ![n] = {}]
      /\ fut' = [r \in Req |-> IF r \in acks[n] THEN "lost" ELSE fut[r]]
  BY DEF Lose, Close
<1> QED
  BY <1>1, <1>2 DEF WaitInv, WaitersAreCallers

\* Connections and the deletion of a node keep waiters and callers together.
LEMMA ConnWaitInv ==
    ASSUME DispatchInv, NEW n \in Node, ConnStep(n) \/ DeleteStep(n)
    PROVE  WaitInv'
<1> USE DEF storeVars, wireVars, nodeVars, reqVars, connVars
<1>1. CASE Connect(n) \/ Disconnect(n) \/ DropDeleted(n)
  BY <1>1, LoseKeepsWaiters DEF Connect, Disconnect, DropDeleted
<1>2. CASE DeliverAck(n)
  <2>1. /\ acks \in [Node -> SUBSET Req] /\ fut \in [Req -> Future]
        /\ up[n] \in Seq(Req) /\ answer \in [Req -> Answer \cup {"none"}]
        /\ \A m \in Node : acks[m] = {r \in Req : fut[r] = "pending" /\ target[r] = m}
        /\ \A r \in Req : fut[r] = "pending" => target[r] \in online
        /\ \A r \in Req : fut[r] # "none" => pc[r] = "waiting"
    BY DEF DispatchInv, TypeOK, WaitInv, WaitersAreCallers
  <2> DEFINE h == Head(up[n])
             W == acks[n] \cap {h}
  <2>2. /\ h \in Req
        /\ acks' = [acks EXCEPT ![n] = @ \ W]
        /\ fut' = [q \in Req |-> IF q \in W THEN answer[h] ELSE fut[q]]
        /\ UNCHANGED <<online, pc, target>>
    BY <1>2, <2>1 DEF DeliverAck, Waiters
  <2>3. answer[h] # "pending"
    BY <2>1, <2>2 DEF Answer
  <2> HIDE DEF h
  <2> QED
    BY <2>1, <2>2, <2>3 DEF WaitInv, WaitersAreCallers
<1>3. CASE Heartbeat(n) \/ Silence(n) \/ NodeHandles(n) \/ DeleteBindings(n) \/ DeleteRow(n)
  <2>1. UNCHANGED <<online, acks, fut, pc, target>>
    BY <1>3 DEF Heartbeat, Silence, NodeHandles, DeleteBindings, DeleteRow
  <2> QED
    BY <2>1 DEF DispatchInv, WaitInv, WaitersAreCallers
<1> QED
  BY <1>1, <1>2, <1>3 DEF ConnStep, DeleteStep

\* So do the requests: a waiter is registered with its future and removed by
\* the timeout that takes it back.
LEMMA RequestWaitInv ==
    ASSUME DispatchInv, NEW r \in Req, Begin(r) \/ RequestStep(r)
    PROVE  WaitInv'
<1> USE DEF storeVars, wireVars, nodeVars, reqVars, connVars
<1>1. /\ acks \in [Node -> SUBSET Req] /\ fut \in [Req -> Future] /\ pc \in [Req -> Phase]
      /\ target \in [Req -> Node \cup {None}] /\ online \subseteq Node
      /\ \A m \in Node : acks[m] = {q \in Req : fut[q] = "pending" /\ target[q] = m}
      /\ \A q \in Req : fut[q] = "pending" => target[q] \in online
      /\ \A q \in Req : fut[q] # "none" => pc[q] = "waiting"
  BY DEF DispatchInv, TypeOK, WaitInv, WaitersAreCallers
<1>2. ASSUME pc[r] # "waiting", UNCHANGED <<online, acks, fut>>,
             \A q \in Req \ {r} : pc'[q] = pc[q] /\ target'[q] = target[q]
      PROVE  WaitInv'
  BY <1>1, <1>2 DEF WaitInv, WaitersAreCallers
<1>3. CASE Begin(r) \/ ReadRecord(r) \/ ReadBinding(r) \/ Quiet(r)
  BY <1>1, <1>2, <1>3 DEF Begin, ReadRecord, ReadBinding, Quiet, NoNode, FindBinding,
     InsertBinding, Unbind, ReadSnapshot, SaveSnapshot, Goto
<1>4. CASE Send(r)
  <2>1. CASE UNCHANGED <<acks, fut>>
    BY <1>1, <1>2, <1>4, <2>1 DEF Send, Goto
  <2>2. CASE /\ Usable(r) /\ UNCHANGED target
             /\ acks' = [acks EXCEPT ![target[r]] = @ \cup {r}]
             /\ fut' = [fut EXCEPT ![r] = "pending"]
             /\ Goto(r, "waiting")
    BY <1>1, <1>4, <2>2 DEF Send, Usable, Goto, WaitInv, WaitersAreCallers
  <2> QED
    BY <1>4, <2>1, <2>2 DEF Send
<1>5. CASE Timeout(r)
  BY <1>1, <1>5 DEF Timeout, Goto, WaitInv, WaitersAreCallers
<1>6. CASE Resume(r)
  BY <1>1, <1>6 DEF Resume, Goto, WaitInv, WaitersAreCallers
<1> QED
  BY <1>3, <1>4, <1>5, <1>6 DEF RequestStep, Quiet

\* Connections, the node and deletions keep every frame on its way unanswered,
\* bound for its request's node and there once.
LEMMA ConnFrameInv ==
    ASSUME DispatchInv, NEW n \in Node, ConnStep(n) \/ DeleteStep(n)
    PROVE  FrameInv'
<1> USE DEF storeVars, wireVars, nodeVars, reqVars, connVars
<1>1. /\ down \in [Node -> Seq(Req)] /\ up \in [Node -> Seq(Req)]
      /\ answer \in [Req -> Answer \cup {"none"}] /\ FrameInv
  BY DEF DispatchInv, TypeOK
<1>2. CASE Connect(n) \/ Disconnect(n) \/ DropDeleted(n)
  <2>1. /\ down' = [down EXCEPT ![n] = << >>] /\ up' = [up EXCEPT ![n] = << >>]
        /\ UNCHANGED <<answer, pc, target>>
    BY <1>2 DEF Connect, Disconnect, DropDeleted, Lose
  <2> QED
    BY <1>1, <2>1 DEF FrameInv
<1>3. CASE NodeHandles(n)
  <2> DEFINE h == Head(down[n])
  <2>1. /\ Len(down[n]) \in Nat \ {0} /\ h = down[n][1] /\ h \in Req
        /\ answer[h] = "none" /\ target[h] = n
        /\ \A i \in 1 .. Len(down[n]) : down[n][i] \in Req /\ (down[n][i] = h => i = 1)
    BY <1>1, <1>3 DEF NodeHandles, FrameInv
  <2>2. /\ Len(Tail(down[n])) = Len(down[n]) - 1
        /\ \A i \in 1 .. Len(Tail(down[n])) : Tail(down[n])[i] = down[n][i + 1]
    BY <1>1, <2>1
  <2>3. /\ down' = [down EXCEPT ![n] = Tail(down[n])]
        /\ UNCHANGED <<pc, target>>
        /\ \/ UNCHANGED <<up, answer>>
           \/ /\ up' = [up EXCEPT ![n] = Append(up[n], h)]
              /\ \E a \in Answer : answer' = [answer EXCEPT ![h] = a]
    <3>1. ASSUME NEW out \in NodeOutcome(n, h) PROVE out[1] \in Answer
      BY <3>1 DEF NodeOutcome, Answer
    <3> QED
      BY <1>3, <3>1 DEF NodeHandles
  <2>4. \A m \in Node : \A i \in 1 .. Len(down'[m]) :
          \E k \in 1 .. Len(down[m]) :
             /\ down'[m][i] = down[m][k] /\ down[m][k] # h
             /\ k = (IF m = n THEN i + 1 ELSE i)
    <3> SUFFICES ASSUME NEW m \in Node, NEW i \in 1 .. Len(down'[m])
                 PROVE  \E k \in 1 .. Len(down[m]) :
                           /\ down'[m][i] = down[m][k] /\ down[m][k] # h
                           /\ k = (IF m = n THEN i + 1 ELSE i)
      OBVIOUS
    <3>1. CASE m = n
      <4>1. i \in 1 .. Len(Tail(down[n])) /\ down'[m] = Tail(down[n])
        BY <1>1, <2>3, <3>1
      <4>2. i + 1 \in 1 .. Len(down[n]) /\ down'[m][i] = down[n][i + 1]
        BY <2>1, <2>2, <4>1
      <4>3. down[n][i + 1] # h
        BY <2>1, <4>1, <4>2
      <4> QED
        BY <3>1, <4>2, <4>3
    <3>2. CASE m # n
      <4>1. down'[m] = down[m]
        BY <1>1, <2>3, <3>2
      <4> QED
        BY <1>1, <2>1, <3>2, <4>1 DEF FrameInv
    <3> QED
      BY <3>1, <3>2
  <2>5. \A m \in Node : Len(down'[m]) \in Nat
    BY <1>1, <2>1, <2>2, <2>3
  <2>6. ASSUME NEW m \in Node
        PROVE  \A i \in 1 .. Len(down'[m]) :
                  /\ answer'[down'[m][i]] = "none"
                  /\ target'[down'[m][i]] = m
                  /\ pc'[down'[m][i]] \notin Early
                  /\ \A j \in 1 .. Len(down'[m]) : down'[m][i] = down'[m][j] => i = j
    <3> HIDE DEF h
    <3>1. \A i \in 1 .. Len(down[m]) :
             /\ answer[down[m][i]] = "none" /\ target[down[m][i]] = m
             /\ pc[down[m][i]] \notin Early /\ down[m][i] \in Req
             /\ \A j \in 1 .. Len(down[m]) : down[m][i] = down[m][j] => i = j
      BY <1>1 DEF FrameInv
    <3>2. \A q \in Req : q # h => answer'[q] = answer[q]
      BY <1>1, <2>3
    <3> TAKE i \in 1 .. Len(down'[m])
    <3>3. PICK k \in 1 .. Len(down[m]) :
             /\ down'[m][i] = down[m][k] /\ down[m][k] # h
             /\ k = (IF m = n THEN i + 1 ELSE i)
      BY <2>4
    <3>4. answer'[down[m][k]] = "none" /\ target'[down[m][k]] = m /\ pc'[down[m][k]] \notin Early
      BY <2>3, <3>1, <3>2, <3>3
    <3>5. ASSUME NEW j \in 1 .. Len(down'[m]), down'[m][i] = down'[m][j] PROVE i = j
      <4>1. PICK l \in 1 .. Len(down[m]) :
               down'[m][j] = down[m][l] /\ l = (IF m = n THEN j + 1 ELSE j)
        BY <2>4
      <4>2. k = l
        BY <3>1, <3>3, <3>5, <4>1
      <4>3. i \in Nat /\ j \in Nat
        BY <2>5
      <4> QED
        BY <3>3, <4>1, <4>2, <4>3
    <3> QED
      BY <3>3, <3>4, <3>5
  <2>7. ASSUME NEW m \in Node
        PROVE  \A i \in 1 .. Len(up'[m]) : answer'[up'[m][i]] # "none"
    <3> HIDE DEF h
    <3>1. \A i \in 1 .. Len(up[m]) : up[m][i] \in Req /\ answer[up[m][i]] # "none"
      BY <1>1 DEF FrameInv
    <3>2. "none" \notin Answer
      BY DEF Answer
    <3>3. CASE UNCHANGED <<up, answer>>
      BY <3>1, <3>3
    <3>4. CASE /\ up' = [up EXCEPT ![n] = Append(up[n], h)]
               /\ \E a \in Answer : answer' = [answer EXCEPT ![h] = a]
      <4>1. \A q \in Req : answer[q] # "none" => answer'[q] # "none"
        BY <1>1, <2>1, <3>2, <3>4
      <4>2. answer'[h] # "none"
        BY <1>1, <2>1, <3>2, <3>4
      <4>3. \A i \in 1 .. Len(up'[m]) : up'[m][i] = h \/ \E k \in 1 .. Len(up[m]) : up'[m][i] = up[m][k]
        BY <1>1, <2>1, <3>4
      <4> QED
        BY <3>1, <4>1, <4>2, <4>3
    <3> QED
      BY <2>3, <3>3, <3>4
  <2> QED
    BY <2>6, <2>7 DEF FrameInv
<1>4. CASE DeliverAck(n)
  <2>1. /\ up' = [up EXCEPT ![n] = Tail(up[n])] /\ up[n] # << >>
        /\ UNCHANGED <<down, answer, pc, target>>
    BY <1>4 DEF DeliverAck
  <2>2. \A i \in 1 .. Len(Tail(up[n])) : \E k \in 1 .. Len(up[n]) : Tail(up[n])[i] = up[n][k]
    BY <1>1, <2>1
  <2>3. \A m \in Node : \A i \in 1 .. Len(up'[m]) : \E k \in 1 .. Len(up[m]) : up'[m][i] = up[m][k]
    BY <1>1, <2>1, <2>2
  <2> QED
    BY <1>1, <2>1, <2>3 DEF FrameInv
<1>5. CASE Heartbeat(n) \/ Silence(n) \/ DeleteBindings(n) \/ DeleteRow(n)
  <2>1. UNCHANGED <<down, up, answer, pc, target>>
    BY <1>5 DEF Heartbeat, Silence, DeleteBindings, DeleteRow
  <2> QED
    BY <1>1, <2>1 DEF FrameInv
<1> QED
  BY <1>2, <1>3, <1>4, <1>5 DEF ConnStep, DeleteStep

\* A request changes its node only before it sends, and it sends one frame.
LEMMA RequestFrameInv ==
    ASSUME DispatchInv, NEW r \in Req, Begin(r) \/ RequestStep(r)
    PROVE  FrameInv'
<1> USE DEF storeVars, wireVars, nodeVars, reqVars, connVars
<1>1. /\ down \in [Node -> Seq(Req)] /\ up \in [Node -> Seq(Req)]
      /\ pc \in [Req -> Phase] /\ target \in [Req -> Node \cup {None}] /\ online \subseteq Node
      /\ \A n \in Node : Len(down[n]) \in Nat
  BY DEF DispatchInv, TypeOK
<1>2. /\ \A n \in Node : \A i \in 1 .. Len(down[n]) :
              /\ down[n][i] \in Req
              /\ answer[down[n][i]] = "none" /\ target[down[n][i]] = n
              /\ pc[down[n][i]] \notin Early
              /\ \A j \in 1 .. Len(down[n]) : down[n][i] = down[n][j] => i = j
      /\ \A n \in Node : \A i \in 1 .. Len(up[n]) : answer[up[n][i]] # "none"
      /\ pc[r] \in Early => answer[r] = "none"
  <2>1. \A n \in Node : \A i \in 1 .. Len(down[n]) : down[n][i] \in Req
    BY <1>1
  <2>2. pc[r] \in Early => answer[r] = "none"
    BY DEF DispatchInv, CallInv
  <2> QED
    BY <2>1, <2>2 DEF DispatchInv, FrameInv
<1>3. ASSUME UNCHANGED <<down, up, answer>>,
             \A q \in Req \ {r} : pc'[q] = pc[q] /\ target'[q] = target[q],
             \/ pc[r] \in Early
             \/ pc'[r] \notin Early /\ target'[r] = target[r]
      PROVE  FrameInv'
  <2>1. ASSUME NEW n \in Node, NEW i \in 1 .. Len(down[n])
        PROVE  target'[down[n][i]] = n /\ pc'[down[n][i]] \notin Early
    <3>1. CASE down[n][i] = r
      BY <1>2, <1>3, <3>1
    <3>2. CASE down[n][i] # r
      BY <1>2, <1>3, <3>2
    <3> QED
      BY <3>1, <3>2
  <2> QED
    BY <1>2, <1>3, <2>1 DEF FrameInv
<1>4. CASE Begin(r) \/ ReadRecord(r) \/ ReadBinding(r) \/ NoNode(r)
  BY <1>1, <1>3, <1>4 DEF Begin, ReadRecord, ReadBinding, NoNode, Goto, Early
<1>5. CASE Timeout(r) \/ Resume(r) \/ Quiet(r)
  <2>1. CASE NoNode(r)
    BY <1>4, <2>1
  <2>2. CASE ~NoNode(r)
    <3>1. UNCHANGED <<down, up, answer, target>>
      BY <1>5, <2>2 DEF Timeout, Resume, Quiet, FindBinding, InsertBinding, Unbind, ReadSnapshot, SaveSnapshot
    <3>2. \A q \in Req \ {r} : pc'[q] = pc[q]
      BY <1>1, <1>5, <2>2 DEF Timeout, Resume, Quiet, FindBinding, InsertBinding, Unbind,
         ReadSnapshot, SaveSnapshot, Goto
    <3>3. pc'[r] \notin Early
      BY <1>1, <1>5, <2>2 DEF Timeout, Resume, Quiet, FindBinding, InsertBinding, Unbind,
         ReadSnapshot, SaveSnapshot, Goto, Early, AfterAck, Unanswered, LostInsert
    <3> QED
      BY <1>3, <3>1, <3>2, <3>3
  <2> QED
    BY <2>1, <2>2
<1>6. CASE Send(r)
  <2>1. CASE UNCHANGED down
    BY <1>1, <1>3, <1>6, <2>1 DEF Send, Goto, Early
  <2>2. CASE /\ Usable(r) /\ UNCHANGED target
             /\ down' = [down EXCEPT ![target[r]] = Append(@, r)]
             /\ Goto(r, "done") \/ Goto(r, "waiting")
    <3> DEFINE n == target[r]
    <3>1. /\ pc[r] \in Early /\ answer[r] = "none" /\ n \in Node
          /\ UNCHANGED <<up, answer>>
          /\ pc'[r] \notin Early /\ \A q \in Req \ {r} : pc'[q] = pc[q]
      BY <1>1, <1>2, <1>6, <2>2 DEF Send, Usable, Goto, Early
    <3>2. \A m \in Node : \A i \in 1 .. Len(down[m]) : down[m][i] # r
      BY <1>2, <3>1
    <3>3. /\ \A m \in Node \ {n} : down'[m] = down[m]
          /\ Len(down'[n]) = Len(down[n]) + 1
          /\ down'[n][Len(down[n]) + 1] = r
          /\ \A i \in 1 .. Len(down[n]) : down'[n][i] = down[n][i]
      BY <1>1, <2>2, <3>1
    <3>4. ASSUME NEW m \in Node
          PROVE  \A i \in 1 .. Len(down'[m]) :
                  /\ answer'[down'[m][i]] = "none"
                  /\ target'[down'[m][i]] = m
                  /\ pc'[down'[m][i]] \notin Early
                  /\ \A j \in 1 .. Len(down'[m]) : down'[m][i] = down'[m][j] => i = j
      <4>1. CASE m # n
        <5>1. down'[m] = down[m]
          BY <3>3, <4>1
        <5>2. \A i \in 1 .. Len(down[m]) : pc'[down[m][i]] = pc[down[m][i]]
          BY <1>2, <3>1, <3>2
        <5> QED
          BY <1>2, <2>2, <3>1, <5>1, <5>2
      <4>2. CASE m = n
        BY <1>1, <1>2, <2>2, <3>1, <3>2, <3>3, <4>2
      <4> QED
        BY <4>1, <4>2
    <3> QED
      BY <1>2, <3>1, <3>4 DEF FrameInv
  <2> QED
    BY <1>6, <2>1, <2>2 DEF Send
<1> QED
  BY <1>4, <1>5, <1>6 DEF RequestStep, Quiet

----------------------------------------------------------------------------
(***************************************************************************)
(* Answers and placements.                                                 *)
(***************************************************************************)

\* What the node does when it takes a frame: it answers it once, the first
\* time, and a creation it accepts is recorded for its request's node.
LEMMA NodeAnswers ==
    ASSUME DispatchInv, NEW n \in Node, NodeHandles(n)
    PROVE  /\ created \subseteq created'
           /\ \A q \in Req : answer'[q] # answer[q] =>
                 /\ answer[q] = "none" /\ answer'[q] \in Answer
                 /\ pc[q] \notin Early
                 /\ op[q] = "create" /\ answer'[q] \in {"ok", "exists"} =>
                       <<target[q], sess[q]>> \in created'
<1> USE DEF nodeVars
<1>1. down[n] \in Seq(Req) /\ answer \in [Req -> Answer \cup {"none"}]
  BY DEF DispatchInv, TypeOK
<1> DEFINE h == Head(down[n])
<1>2. h = down[n][1] /\ 1 \in 1 .. Len(down[n]) /\ h \in Req
  BY <1>1 DEF NodeHandles
<1>3. answer[h] = "none" /\ target[h] = n /\ pc[h] \notin Early
  BY <1>2 DEF DispatchInv, FrameInv
<1>4. CASE UNCHANGED nodeVars
  BY <1>4
<1>5. ASSUME NEW out \in NodeOutcome(n, h),
             answer' = [answer EXCEPT ![h] = out[1]],
             created' = IF op[h] = "create" /\ out[1] # "rejected"
                        THEN created \cup {<<n, sess[h]>>} ELSE created
      PROVE  /\ created \subseteq created'
             /\ \A q \in Req : answer'[q] # answer[q] =>
                   /\ answer[q] = "none" /\ answer'[q] \in Answer
                   /\ pc[q] \notin Early
                   /\ op[q] = "create" /\ answer'[q] \in {"ok", "exists"} =>
                         <<target[q], sess[q]>> \in created'
  <2>1. out[1] \in Answer
    BY DEF NodeOutcome, Answer
  <2> QED
    BY <1>1, <1>2, <1>3, <1>5, <2>1
<1> QED
  BY <1>4, <1>5 DEF NodeHandles

\* Connections, the node and deletions leave what a request's phase says true.
LEMMA ConnCallInv ==
    ASSUME DispatchInv, NEW n \in Node, ConnStep(n) \/ DeleteStep(n)
    PROVE  CallInv' /\ AnswerIsOwn'
<1> USE DEF storeVars, wireVars, nodeVars, reqVars, connVars
<1>1. CallInv /\ AnswerIsOwn /\ answer \in [Req -> Answer \cup {"none"}] /\ fut \in [Req -> Future]
  BY DEF DispatchInv, TypeOK
<1>2. "none" \notin Answer /\ "lost" \notin Answer /\ "pending" \notin Answer
  BY DEF Answer
<1>3. CASE NodeHandles(n)
  <2>1. UNCHANGED <<pc, op, sess, target, fut>>
    BY <1>3 DEF NodeHandles
  <2>2. AnswerIsOwn'
    BY <1>1, <1>2, <1>3, <2>1, NodeAnswers DEF AnswerIsOwn
  <2>3. CallInv'
    <3>1. \A q \in Req : pc[q] \in {"snapshot", "save"} => answer'[q] = "ok"
      BY <1>1, <1>2, <1>3, NodeAnswers DEF CallInv
    <3>2. \A q \in Req : pc[q] \in Early => answer'[q] = "none"
      BY <1>1, <1>3, NodeAnswers DEF CallInv
    <3>3. \A q \in Req : op[q] = "create" /\ answer'[q] \in {"ok", "exists"} =>
                            <<target[q], sess[q]>> \in created'
      BY <1>1, <1>3, NodeAnswers DEF CallInv
    <3>4. created \subseteq created'
      BY <1>3, NodeAnswers
    <3> QED
      BY <1>1, <2>1, <3>1, <3>2, <3>3, <3>4 DEF CallInv
  <2> QED
    BY <2>2, <2>3
<1>4. CASE ~NodeHandles(n)
  <2>1. UNCHANGED <<answer, created, pc, op, sess, target>>
    BY <1>4 DEF ConnStep, DeleteStep, Connect, Disconnect, Heartbeat, Silence, DeliverAck,
       DeleteBindings, DeleteRow, DropDeleted, Lose
  <2>2. CallInv'
    BY <1>1, <2>1 DEF CallInv
  <2>3. \A q \in Req : fut'[q] \in {fut[q], "lost", answer[q]}
    <3>1. CASE DeliverAck(n)
      BY <1>1, <3>1 DEF DeliverAck, Waiters
    <3>2. CASE Connect(n) \/ Disconnect(n) \/ DropDeleted(n)
      BY <1>1, <3>2 DEF Connect, Disconnect, DropDeleted, Lose, Close
    <3>3. CASE UNCHANGED fut
      BY <3>3
    <3> QED
      BY <1>4, <3>1, <3>2, <3>3 DEF ConnStep, DeleteStep, Heartbeat, Silence,
         DeleteBindings, DeleteRow
  <2> QED
    BY <1>1, <1>2, <2>1, <2>2, <2>3 DEF AnswerIsOwn
<1> QED
  BY <1>3, <1>4

\* A request's step is its own: it changes no other request.
LEMMA OthersStay ==
    ASSUME DispatchInv, NEW r \in Req, Begin(r) \/ RequestStep(r)
    PROVE  \A q \in Req \ {r} : /\ pc'[q] = pc[q] /\ op'[q] = op[q]
                                /\ sess'[q] = sess[q] /\ target'[q] = target[q]
<1>1. /\ pc \in [Req -> Phase] /\ op \in [Req -> AnyOp \cup {None}]
      /\ sess \in [Req -> Session \cup {None}] /\ target \in [Req -> Node \cup {None}]
  BY DEF DispatchInv, TypeOK
<1> QED
  BY <1>1 DEF Begin, RequestStep, ReadRecord, NoNode, ReadBinding, Send, Timeout, Resume,
     FindBinding, InsertBinding, Unbind, ReadSnapshot, SaveSnapshot, Goto, reqVars

\* So do the requests' own steps: a phase is entered with what it says.
LEMMA RequestCallInv ==
    ASSUME DispatchInv, NEW r \in Req, Begin(r) \/ RequestStep(r)
    PROVE  CallInv' /\ AnswerIsOwn'
<1> USE DEF storeVars, wireVars, nodeVars, reqVars, connVars
<1>1. /\ pc \in [Req -> Phase] /\ op \in [Req -> AnyOp \cup {None}] /\ fut \in [Req -> Future]
      /\ sess \in [Req -> Session \cup {None}] /\ target \in [Req -> Node \cup {None}]
      /\ CallInv /\ AnswerIsOwn
  BY DEF DispatchInv, TypeOK
<1>2. UNCHANGED <<answer, created>>
  BY DEF Begin, RequestStep, ReadRecord, NoNode, ReadBinding, Send, Timeout, Resume, FindBinding,
     InsertBinding, Unbind, ReadSnapshot, SaveSnapshot
<1>3. AnswerIsOwn'
  <2>1. \A q \in Req : fut'[q] \in {fut[q], "pending", "none"}
    BY <1>1 DEF Begin, RequestStep, ReadRecord, NoNode, ReadBinding, Send, Timeout, Resume,
       FindBinding, InsertBinding, Unbind, ReadSnapshot, SaveSnapshot
  <2> QED
    BY <1>1, <1>2, <2>1 DEF AnswerIsOwn, Answer
<1>4. \A q \in Req \ {r} : /\ pc'[q] = pc[q] /\ op'[q] = op[q]
                           /\ sess'[q] = sess[q] /\ target'[q] = target[q]
  BY OthersStay
<1> DEFINE Fine ==
      /\ pc'[r] # "idle" => op'[r] \in AnyOp /\ sess'[r] \in Session
      /\ pc'[r] \in Early => answer[r] = "none"
      /\ pc'[r] = "unbind" => op'[r] = "delete"
      /\ pc'[r] \in Binds => op'[r] = "create" /\ <<target'[r], sess'[r]>> \in created
      /\ pc'[r] \in {"snapshot", "save"} => answer[r] = "ok"
      /\ op'[r] = "create" /\ answer[r] \in {"ok", "exists"} =>
            <<target'[r], sess'[r]>> \in created
<1>5. ASSUME Fine PROVE CallInv'
  BY <1>1, <1>2, <1>4, <1>5 DEF CallInv
<1>6. ASSUME Begin(r) PROVE Fine
  <2>1. PICK o \in Op, s \in Session :
           /\ op' = [op EXCEPT ![r] = o] /\ sess' = [sess EXCEPT ![r] = s]
           /\ Goto(r, "select") \/ Goto(r, "lookup")
           /\ pc[r] = "idle"
    BY <1>6 DEF Begin
  <2>2. o \in AnyOp
    BY SessionDispatchAssumption
  <2>3. op'[r] \in AnyOp /\ sess'[r] \in Session /\ pc'[r] \in {"select", "lookup"}
    BY <1>1, <2>1, <2>2 DEF Goto
  <2>4. answer[r] = "none"
    BY <1>1, <2>1 DEF CallInv, Early
  <2> QED
    BY <2>3, <2>4 DEF Binds, Early
<1>7. ASSUME ReadRecord(r) \/ NoNode(r) \/ ReadBinding(r) \/ Send(r) PROVE Fine
  <2>1. UNCHANGED <<op, sess>> /\ pc[r] \in {"select", "lookup", "ready"}
    BY <1>7 DEF ReadRecord, NoNode, ReadBinding, Send
  <2>2. answer[r] = "none" /\ op[r] \in AnyOp /\ sess[r] \in Session
    BY <1>1, <2>1 DEF CallInv, Early
  <2>3. /\ pc'[r] \in {"select", "ready", "error", "unbind", "done", "waiting"}
        /\ pc'[r] = "unbind" => op[r] = "delete"
    BY <1>1, <1>7 DEF ReadRecord, NoNode, ReadBinding, Send, Goto, Unreached, Unanswered
  <2> QED
    BY <2>1, <2>2, <2>3 DEF Binds
<1>8. ASSUME Timeout(r) \/ Resume(r) PROVE Fine
  <2>1. UNCHANGED <<op, sess, target>> /\ pc[r] = "waiting"
    BY <1>8 DEF Timeout, Resume
  <2>2. /\ op[r] \in AnyOp /\ sess[r] \in Session
        /\ op[r] = "create" /\ answer[r] \in {"ok", "exists"} =>
              <<target[r], sess[r]>> \in created
    BY <1>1, <2>1 DEF CallInv
  <2>3. CASE Timeout(r)
    <3>1. pc'[r] \in {"unbind", "error"} /\ (pc'[r] = "unbind" => op[r] = "delete")
      BY <1>1, <2>3 DEF Timeout, Goto, Unanswered
    <3> QED
      BY <1>2, <2>1, <2>2, <3>1 DEF Early, Binds
  <2>4. CASE Resume(r)
    <3>1. pc'[r] = AfterAck(r)
      BY <1>1, <2>4 DEF Resume, Goto
    <3>2. fut[r] \in {"ok", "exists"} => answer[r] = fut[r]
      BY <1>1 DEF AnswerIsOwn, Answer
    <3>3. /\ pc'[r] \in {"unbind", "error", "find1", "done", "snapshot"}
          /\ pc'[r] = "unbind" => op[r] = "delete"
          /\ pc'[r] = "find1" => op[r] = "create" /\ answer[r] \in {"ok", "exists"}
          /\ pc'[r] = "snapshot" => answer[r] = "ok"
      BY <3>1, <3>2 DEF AfterAck, Unanswered
    <3> QED
      BY <1>2, <2>1, <2>2, <3>3 DEF Early, Binds
  <2> QED
    BY <1>8, <2>3, <2>4
<1>9. ASSUME FindBinding(r) \/ InsertBinding(r) \/ Unbind(r) \/ ReadSnapshot(r) \/ SaveSnapshot(r) PROVE Fine
  <2>1. UNCHANGED <<op, sess, target>>
    BY <1>9 DEF FindBinding, InsertBinding, Unbind, ReadSnapshot, SaveSnapshot
  <2>2. /\ pc[r] # "idle"
        /\ pc'[r] \notin Early /\ pc'[r] # "unbind"
        /\ pc'[r] \in Binds => pc[r] \in Binds
        /\ pc'[r] \in {"snapshot", "save"} => pc[r] = "snapshot"
    BY <1>1, <1>9 DEF FindBinding, InsertBinding, Unbind, ReadSnapshot, SaveSnapshot, Goto,
       LostInsert, Early, Binds
  <2> QED
    BY <1>1, <1>2, <2>1, <2>2 DEF CallInv
<1> QED
  BY <1>3, <1>5, <1>6, <1>7, <1>8, <1>9 DEF RequestStep

\* How a step changes the placement row of a session: it is removed by an
\* unbinding, replaced by an acknowledged placement, or given an acknowledged
\* revision.
LEMMA RowChange ==
    ASSUME DispatchInv, Next, NEW s \in Session, binding'[s] # binding[s]
    PROVE  \/ /\ binding'[s] = Unbound /\ Unbinding(s)'
           \/ \E r \in Req : /\ pc[r] \in Binds /\ sess[r] = s
                             /\ binding'[s] = Placement(r)
           \/ \E r \in Req : /\ pc[r] = "save" /\ sess[r] = s /\ binding[s] # Unbound
                             /\ binding'[s] = [binding[s] EXCEPT !.rev = r]
<1> USE DEF storeVars, wireVars, nodeVars, reqVars, connVars
<1>1. /\ binding \in [Session -> [node : Node \cup {None}, rev : Req \cup {None}]]
      /\ pc \in [Req -> Phase] /\ purge \in [Node -> {"none", "row", "drop", "done"}]
      /\ rows \subseteq Node
  BY DEF DispatchInv, TypeOK
<1>2. ASSUME NEW r \in Req, Begin(r) \/ RequestStep(r)
      PROVE  FindBinding(r) \/ InsertBinding(r) \/ Unbind(r) \/ SaveSnapshot(r)
  <2>1. binding' # binding
    OBVIOUS
  <2> QED
    BY <1>2, <2>1 DEF RequestStep, Begin, ReadRecord, NoNode, ReadBinding, Send, Timeout, Resume,
       ReadSnapshot
<1>3. ASSUME NEW r \in Req, FindBinding(r) \/ InsertBinding(r)
      PROVE  pc[r] \in Binds /\ sess[r] = s /\ binding'[s] = Placement(r)
  <2>1. binding' = [binding EXCEPT ![sess[r]] = Placement(r)] /\ pc[r] \in Binds
    BY <1>3 DEF FindBinding, InsertBinding, Binds
  <2> QED
    BY <1>1, <2>1
<1>4. ASSUME NEW r \in Req, Unbind(r)
      PROVE  binding'[s] = Unbound /\ Unbinding(s)'
  <2>1. binding'[s] = Unbound /\ sess[r] = s /\ pc'[r] = "done" /\ UNCHANGED <<op, sess>>
    BY <1>1, <1>4 DEF Unbind, Goto
  <2>2. op[r] = "delete"
    BY <1>4 DEF DispatchInv, CallInv, Unbind
  <2> QED
    BY <2>1, <2>2 DEF Unbinding
<1>5. ASSUME NEW r \in Req, SaveSnapshot(r)
      PROVE  /\ pc[r] = "save" /\ sess[r] = s /\ binding[s] # Unbound
             /\ binding'[s] = [binding[s] EXCEPT !.rev = r]
  BY <1>1, <1>5 DEF SaveSnapshot
<1>6. ASSUME NEW n \in Node, ConnStep(n) \/ DeleteStep(n)
      PROVE  binding'[s] = Unbound /\ Unbinding(s)'
  <2>1. DeleteBindings(n)
    <3>1. binding' # binding
      OBVIOUS
    <3> QED
      BY <1>6, <3>1 DEF ConnStep, DeleteStep, Connect, Disconnect, Heartbeat, Silence,
         NodeHandles, DeliverAck, DeleteRow, DropDeleted, Lose
  <2>2. binding'[s] = Unbound /\ purge'[n] = "row"
    BY <1>1, <2>1 DEF DeleteBindings
  <2> QED
    BY <2>2 DEF Unbinding
<1> QED
  BY SessionDispatchAssumption, <1>2, <1>3, <1>4, <1>5, <1>6 DEF Next

\* What the node has acknowledged is never taken back.
LEMMA AckedStays ==
    ASSUME DispatchInv, Next
    PROVE  /\ created \subseteq created'
           /\ \A q \in Req : answer[q] # "none" => answer'[q] = answer[q]
<1> USE DEF storeVars, wireVars, nodeVars, reqVars, connVars
<1>1. ASSUME NEW n \in Node, NodeHandles(n)
      PROVE  /\ created \subseteq created'
             /\ \A q \in Req : answer[q] # "none" => answer'[q] = answer[q]
  BY <1>1, NodeAnswers
<1>2. ASSUME \A n \in Node : ~NodeHandles(n) PROVE UNCHANGED <<created, answer>>
  <2>1. ASSUME NEW r \in Req, Begin(r) \/ RequestStep(r) PROVE UNCHANGED <<created, answer>>
    BY <2>1 DEF RequestStep, Begin, ReadRecord, NoNode, ReadBinding, Send, Timeout, Resume,
       FindBinding, InsertBinding, Unbind, ReadSnapshot, SaveSnapshot
  <2>2. ASSUME NEW n \in Node, ConnStep(n) \/ DeleteStep(n) PROVE UNCHANGED <<created, answer>>
    BY <1>2, <2>2 DEF ConnStep, DeleteStep, Connect, Disconnect, Heartbeat, Silence, DeliverAck,
       DeleteBindings, DeleteRow, DropDeleted, Lose
  <2> QED
    BY SessionDispatchAssumption, <2>1, <2>2 DEF Next
<1> QED
  BY <1>1, <1>2

\* Every step keeps the placement rows acknowledged.
LEMMA StepKeepsPlacement ==
    ASSUME DispatchInv, Next
    PROVE  PlacementWasAcked'
<1> SUFFICES ASSUME NEW s \in Session
             PROVE  /\ binding'[s].node # None => <<binding'[s].node, s>> \in created'
                    /\ binding'[s].rev # None => answer'[binding'[s].rev] = "ok"
  BY DEF PlacementWasAcked
<1>1. /\ binding[s].node \in Node \cup {None} /\ binding[s].rev \in Req \cup {None}
      /\ binding[s].node # None => <<binding[s].node, s>> \in created
      /\ binding[s].rev # None => answer[binding[s].rev] = "ok"
      /\ binding[s] \in [node : Node \cup {None}, rev : Req \cup {None}]
  BY DEF DispatchInv, TypeOK, PlacementWasAcked
<1>2. /\ created \subseteq created'
      /\ \A q \in Req : answer[q] = "ok" => answer'[q] = "ok"
  BY AckedStays
<1>3. CASE binding'[s] = binding[s]
  BY <1>1, <1>2, <1>3
<1>4. CASE binding'[s] = Unbound
  BY <1>4 DEF Unbound
<1>5. ASSUME NEW r \in Req, pc[r] \in Binds, sess[r] = s, binding'[s] = Placement(r)
      PROVE  /\ <<binding'[s].node, s>> \in created'
             /\ binding'[s].rev = None
  BY <1>2, <1>5 DEF DispatchInv, CallInv, Placement
<1>6. ASSUME NEW r \in Req, pc[r] = "save", binding'[s] = [binding[s] EXCEPT !.rev = r]
      PROVE  binding'[s].node = binding[s].node /\ binding'[s].rev = r /\ answer'[r] = "ok"
  <2>1. answer[r] = "ok"
    BY <1>6 DEF DispatchInv, CallInv
  <2> QED
    BY <1>1, <1>2, <1>6, <2>1
<1>7. CASE binding'[s] # binding[s]
  <2>1. \/ binding'[s] = Unbound
        \/ \E r \in Req : /\ pc[r] \in Binds /\ sess[r] = s
                          /\ binding'[s] = Placement(r)
        \/ \E r \in Req : /\ pc[r] = "save" /\ sess[r] = s /\ binding[s] # Unbound
                          /\ binding'[s] = [binding[s] EXCEPT !.rev = r]
    BY <1>7, RowChange
  <2> QED
    BY <1>1, <1>2, <1>4, <1>5, <1>6, <2>1
<1> QED
  BY <1>3, <1>7

\* A session that was unbound stays one that was.
LEMMA UnbindingStays ==
    ASSUME DispatchInv, Next, NEW s, Unbinding(s)
    PROVE  Unbinding(s)'
<1> USE DEF storeVars, wireVars, nodeVars, reqVars, connVars
<1>1. pc \in [Req -> Phase] /\ purge \in [Node -> {"none", "row", "drop", "done"}]
  BY DEF DispatchInv, TypeOK
<1>2. ASSUME NEW q \in Req, op[q] = "delete", sess[q] = s, pc[q] = "done"
      PROVE  op'[q] = "delete" /\ sess'[q] = s /\ pc'[q] = "done"
  <2>1. ASSUME NEW r \in Req, Begin(r) \/ RequestStep(r)
        PROVE  op'[q] = op[q] /\ sess'[q] = sess[q] /\ pc'[q] = pc[q]
    <3>1. r # q
      BY <1>2, <2>1 DEF RequestStep, Begin, ReadRecord, NoNode, ReadBinding, Send, Timeout,
         Resume, FindBinding, InsertBinding, Unbind, ReadSnapshot, SaveSnapshot
    <3> QED
      BY <2>1, <3>1, OthersStay
  <2>2. ASSUME NEW n \in Node, ConnStep(n) \/ DeleteStep(n) PROVE UNCHANGED <<op, sess, pc>>
    BY <2>2 DEF ConnStep, DeleteStep, Connect, Disconnect, Heartbeat, Silence, NodeHandles,
       DeliverAck, DeleteBindings, DeleteRow, DropDeleted
  <2> QED
    BY SessionDispatchAssumption, <1>2, <2>1, <2>2 DEF Next
<1>3. ASSUME NEW n \in Node, purge[n] # "none" PROVE purge'[n] # "none"
  <2>1. ASSUME NEW m \in Node, ConnStep(m) \/ DeleteStep(m)
        PROVE  UNCHANGED purge \/ \E p \in {"row", "drop", "done"} : purge' = [purge EXCEPT ![m] = p]
    BY <2>1 DEF ConnStep, DeleteStep, Connect, Disconnect, Heartbeat, Silence, NodeHandles,
       DeliverAck, DeleteBindings, DeleteRow, DropDeleted
  <2>2. ASSUME NEW r \in Req, Begin(r) \/ RequestStep(r) PROVE UNCHANGED purge
    BY <2>2 DEF RequestStep, Begin, ReadRecord, NoNode, ReadBinding, Send, Timeout, Resume,
       FindBinding, InsertBinding, Unbind, ReadSnapshot, SaveSnapshot
  <2> QED
    BY SessionDispatchAssumption, <1>1, <1>3, <2>1, <2>2 DEF Next
<1> QED
  BY <1>2, <1>3 DEF Unbinding

\* A lost insert found another row, so a retry that finds none follows an
\* unbinding.
LEMMA StepKeepsRetry ==
    ASSUME DispatchInv, Next
    PROVE  RetryInv'
<1> USE DEF storeVars, wireVars, nodeVars, reqVars, connVars
<1> SUFFICES ASSUME NEW r \in Req
             PROVE  /\ pc'[r] = "find2" => binding'[sess'[r]] # Unbound \/ Unbinding(sess[r])'
                    /\ pc'[r] \in {"insert2", "conflict"} => Unbinding(sess[r])'
  BY DEF RetryInv, Unbinding
<1>1. /\ pc \in [Req -> Phase] /\ RetryInv
      /\ binding \in [Session -> [node : Node \cup {None}, rev : Req \cup {None}]]
      /\ pc[r] # "idle" => sess[r] \in Session
  BY DEF DispatchInv, TypeOK, CallInv
<1>2. ASSUME NEW s \in Session, binding[s] # Unbound
      PROVE  binding'[s] # Unbound \/ Unbinding(s)'
  <2>1. ASSUME NEW q \in Req, pc[q] \in Binds PROVE Placement(q) # Unbound
    <3>1. target[q] \in Node
      BY <2>1 DEF DispatchInv, TypeOK, CallInv
    <3> QED
      BY <3>1, SessionDispatchAssumption DEF Placement, Unbound
  <2>2. ASSUME NEW q \in Req, binding'[s] = [binding[s] EXCEPT !.rev = q]
        PROVE  binding'[s] # Unbound
    <3>1. q # None /\ binding'[s].rev = q
      BY <1>1, <2>2, SessionDispatchAssumption
    <3> QED
      BY <3>1 DEF Unbound
  <2>3. CASE binding'[s] # binding[s]
    <3>1. \/ Unbinding(s)'
          \/ \E q \in Req : pc[q] \in Binds /\ binding'[s] = Placement(q)
          \/ \E q \in Req : binding'[s] = [binding[s] EXCEPT !.rev = q]
      BY <2>3, RowChange
    <3> QED
      BY <2>1, <2>2, <3>1
  <2> QED
    BY <1>2, <2>3
<1>3. /\ pc'[r] = "find2" => /\ sess[r] \in Session
                             /\ pc[r] = "find2" \/ binding[sess[r]] # Unbound
      /\ pc'[r] \in {"insert2", "conflict"} =>
            \/ pc[r] \in {"insert2", "conflict"}
            \/ pc[r] = "find2" /\ binding[sess[r]] = Unbound
      /\ pc'[r] \in {"find2", "insert2", "conflict"} => sess'[r] = sess[r]
  <2>1. ASSUME NEW q \in Req, Begin(q) \/ RequestStep(q), pc'[r] \in {"find2", "insert2", "conflict"},
               q = r
        PROVE  FindBinding(r) \/ InsertBinding(r)
    BY <1>1, <2>1 DEF RequestStep, Begin, ReadRecord, NoNode, ReadBinding, Send, Timeout, Resume,
       Unbind, ReadSnapshot, SaveSnapshot, Goto, AfterAck, Unanswered, Unreached
  <2>2. ASSUME NEW q \in Req, Begin(q) \/ RequestStep(q), q # r
        PROVE  pc'[r] = pc[r] /\ sess'[r] = sess[r]
    BY <2>2, OthersStay
  <2>3. ASSUME NEW n \in Node, ConnStep(n) \/ DeleteStep(n) PROVE UNCHANGED <<sess, pc>>
    BY <2>3 DEF ConnStep, DeleteStep, Connect, Disconnect, Heartbeat, Silence, NodeHandles,
       DeliverAck, DeleteBindings, DeleteRow, DropDeleted
  <2>4. CASE FindBinding(r) \/ InsertBinding(r)
    BY <1>1, <2>4 DEF FindBinding, InsertBinding, Goto, LostInsert
  <2>5. CASE pc'[r] = pc[r] /\ sess'[r] = sess[r]
    BY <1>1, <2>5
  <2> QED
    <3>1. CASE pc'[r] \in {"find2", "insert2", "conflict"}
      <4>1. \/ FindBinding(r) \/ InsertBinding(r)
            \/ pc'[r] = pc[r] /\ sess'[r] = sess[r]
        BY SessionDispatchAssumption, <2>1, <2>2, <2>3, <3>1 DEF Next
      <4> QED
        BY <2>4, <2>5, <4>1
    <3>2. CASE pc'[r] \notin {"find2", "insert2", "conflict"}
      BY <3>2
    <3> QED
      BY <3>1, <3>2
<1>4. ASSUME NEW s \in Session, sess'[r] = s, Unbinding(s)' PROVE Unbinding(sess[r])'
  BY <1>4 DEF Unbinding
<1>5. ASSUME pc'[r] = "find2"
      PROVE  binding'[sess'[r]] # Unbound \/ Unbinding(sess[r])'
  <2>1. PICK s \in Session : sess[r] = s /\ sess'[r] = s
    BY <1>3, <1>5
  <2>2. binding[s] # Unbound \/ Unbinding(s)
    BY <1>1, <1>3, <1>5, <2>1 DEF RetryInv
  <2> QED
    BY <1>2, <1>4, <2>1, <2>2, UnbindingStays
<1>6. ASSUME pc'[r] \in {"insert2", "conflict"} PROVE Unbinding(sess[r])'
  <2>1. PICK s \in Session : sess[r] = s /\ sess'[r] = s
    BY <1>1, <1>3, <1>6
  <2>2. Unbinding(s)
    BY <1>1, <1>3, <1>6, <2>1 DEF RetryInv
  <2> QED
    BY <1>4, <2>1, <2>2, UnbindingStays
<1> QED
  BY <1>5, <1>6

----------------------------------------------------------------------------
\* The invariant is inductive.
LEMMA NextDispatch == DispatchInv /\ [Next]_vars => DispatchInv'
<1>1. ASSUME DispatchInv, NEW r \in Req, Begin(r) \/ RequestStep(r)
      PROVE  TypeOK' /\ WaitInv' /\ FrameInv' /\ CallInv' /\ AnswerIsOwn'
  BY <1>1, RequestTypeOK, RequestWaitInv, RequestFrameInv, RequestCallInv
<1>2. ASSUME DispatchInv, NEW n \in Node, ConnStep(n) \/ DeleteStep(n)
      PROVE  TypeOK' /\ WaitInv' /\ FrameInv' /\ CallInv' /\ AnswerIsOwn'
  BY <1>2, ConnTypeOK, ConnWaitInv, ConnFrameInv, ConnCallInv
<1>3. ASSUME DispatchInv, Next PROVE DispatchInv'
  <2>1. TypeOK' /\ WaitInv' /\ FrameInv' /\ CallInv' /\ AnswerIsOwn'
    BY <1>1, <1>2, <1>3, SessionDispatchAssumption DEF Next
  <2> QED
    BY <1>3, <2>1, StepKeepsPlacement, StepKeepsRetry DEF DispatchInv
<1>4. ASSUME DispatchInv, UNCHANGED vars PROVE DispatchInv'
  <2> USE DEF vars, storeVars, connVars, wireVars, nodeVars, reqVars
  <2>1. TypeOK' /\ WaitInv' /\ AnswerIsOwn'
    BY <1>4 DEF DispatchInv, TypeOK, WaitInv, WaitersAreCallers, AnswerIsOwn
  <2>2. FrameInv' /\ CallInv'
    BY <1>4 DEF DispatchInv, FrameInv, CallInv
  <2>3. PlacementWasAcked' /\ RetryInv'
    BY <1>4 DEF DispatchInv, PlacementWasAcked, RetryInv, Unbinding
  <2> QED
    BY <2>1, <2>2, <2>3 DEF DispatchInv
<1> QED
  BY <1>3, <1>4

\* Every reachable state satisfies it.
LEMMA DispatchInvariant == Spec => []DispatchInv
BY InitDispatch, NextDispatch, PTL DEF Spec

\* Type correctness of the session RPCs; no downstream queue exceeds its buffer.
THEOREM DispatchTypeCorrect == Spec => []TypeOK
<1>1. DispatchInv => TypeOK
  BY DEF DispatchInv
<1> QED
  BY <1>1, DispatchInvariant, PTL

\* Connection.await_ack, cancel_ack, deliver_ack and close, in any interleaving
\* of callers and connections: the waiters are the callers blocked on them.
THEOREM NoOrphanWaiter == Spec => []WaitersAreCallers
<1>1. DispatchInv => WaitersAreCallers
  BY DEF DispatchInv, WaitInv
<1> QED
  BY <1>1, DispatchInvariant, PTL

\* A call is answered with what the node said of its own frame, however acks
\* of other commands and lost connections fall between.
THEOREM OwnAnswer == Spec => []AnswerIsOwn
<1>1. DispatchInv => AnswerIsOwn
  BY DEF DispatchInv
<1> QED
  BY <1>1, DispatchInvariant, PTL

\* bind_session_to_node and update_session_config_snapshot write only what the
\* node they name acknowledged.
THEOREM AckedPlacement == Spec => []PlacementWasAcked
<1>1. DispatchInv => PlacementWasAcked
  BY DEF DispatchInv
<1> QED
  BY <1>1, DispatchInvariant, PTL

\* The retry of a lost insert fails only after an unbinding of the session.
THEOREM HarmlessRetry == Spec => []SecondWriterHarmless
<1>1. DispatchInv => SecondWriterHarmless
  BY DEF DispatchInv, RetryInv, SecondWriterHarmless
<1> QED
  BY <1>1, DispatchInvariant, PTL
============================================================================

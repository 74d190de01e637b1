-------------------------- MODULE SessionFramesProofs --------------------------
(***************************************************************************)
(* Proofs about TaskFinalize and SessionFrames, for any finite set of      *)
(* result frames (loops), any number of items and stages, any pool and any *)
(* number of resumptions, and, below, about NodeStreams, for any requests, *)
(* buffer and length of a response.  NodeStreams shares no name with them. *)
(***************************************************************************)
EXTENDS SessionFrames, NodeStreams, FiniteSetTheorems, TLAPS

\* Grants of an ended task are about to be withdrawn, but for those skipped:
\* somebody has still to disable the principal, or only the key is left to park.
Withdrawing ==
    \E f \in Frame : \/ pc[f] = "principal"
                     \/ pc[f] = "key" /\ grants \subseteq skipped \cup {"key"}
GrantInv == status \in Terminal \/ deleted => grants \subseteq skipped \/ Withdrawing

\* The steps of a loop that is handling an item or a stage.
Writing == {"content", "number", "row", "stageNumber", "stageRow"}
Numbered == {"row", "stageRow"}

\* Where the content of an item went is known from its insert to its row.
LoopInv ==
    \A l \in Frame :
        /\ at[l] \in Writing => next[l] <= Items
        /\ at[l] \in {"number", "row"} <=> place[l] # "none"

\* Content that is referred to, or about to be, is there.
ContentInv ==
    /\ ReferenceHasContent
    /\ \A l \in Frame : place[l] = "ref" => \E c \in content : c.n = next[l]

\* A number drawn is nobody else's and comes after those of the loop's rows.
NumberInv ==
    /\ \A r \in rows : r.seq \in 1 .. numbers /\ r.by \in Frame /\ r.n < next[r.by]
    /\ \A l \in Frame : at[l] \in Numbered =>
          /\ num[l] \in 1 .. numbers
          /\ \A r \in rows : r.seq # num[l] /\ (r.by = l => r.seq < num[l])
          /\ \A k \in Frame : at[k] \in Numbered /\ num[k] = num[l] => k = l

FramesInv == FramesTypeOK /\ LoopInv /\ ContentInv /\ NumberInv /\ CursorOrdersRows

----------------------------------------------------------------------------
(***************************************************************************)
(* TaskFinalize: the notifications.                                        *)
(***************************************************************************)

\* Nothing has been finalized initially.
LEMMA InitFinalize == Init => TypeOK /\ NotifiedPerEnding /\ GrantInv
<1> SUFFICES ASSUME Init PROVE TypeOK /\ NotifiedPerEnding /\ GrantInv
  OBVIOUS
<1>1. TypeOK
  <2>1. deleted \in BOOLEAN
    BY Zenon DEF Init
  <2> QED
    BY <2>1, TaskFinalizeAssumption DEF Init, TypeOK, Terminal
<1>2. InProgress = {}
  BY DEF Init, InProgress, Statement
<1>3. NotifiedPerEnding
  BY <1>2, FS_EmptySet DEF Init, NotifiedPerEnding
<1>4. GrantInv
  BY DEF Init, GrantInv, Terminal
<1> QED
  BY <1>1, <1>3, <1>4

\* Every step keeps the types.
LEMMA FinalizeTypeOK == TypeOK /\ [Next]_vars => TypeOK'
<1> SUFFICES ASSUME TypeOK, [Next]_vars PROVE TypeOK'
  OBVIOUS
<1>1. ASSUME NEW f \in Frame, Transition(f) PROVE TypeOK'
  BY <1>1 DEF TypeOK, Transition, Goto, Outcome, Terminal, Statement
<1>2. ASSUME NEW f \in Frame, DisableGrants(f) PROVE TypeOK'
  BY <1>2 DEF TypeOK, DisableGrants, Disable, Goto, Statement
<1>3. ASSUME NEW f \in Frame, Notify(f) \/ StatementFails(f) PROVE TypeOK'
  <2>1. /\ pc' = [pc EXCEPT ![f] = "done"] /\ notified' \in {notified, notified + 1}
        /\ UNCHANGED <<status, deleted, grants, endings, resumed>>
        /\ skipped \subseteq skipped' /\ skipped' \subseteq skipped \cup grants
    BY <1>3 DEF Notify, StatementFails, Goto
  <2> QED
    BY <2>1 DEF TypeOK
<1>4. CASE GatewayFinalizes \/ Resume \/ Delete
  <2>1. deleted' \in BOOLEAN
    BY <1>4, Zenon DEF TypeOK, GatewayFinalizes, Resume, Delete
  <2>2. /\ status' \in Terminal \cup {"processing"} /\ UNCHANGED pc
        /\ grants' \subseteq {"principal", "key"} /\ skipped' \subseteq skipped
    BY <1>4 DEF TypeOK, GatewayFinalizes, Resume, Delete
  <2>3. endings' \in Nat /\ notified' \in Nat /\ resumed' \in 0 .. MaxResume
    BY <1>4, TaskFinalizeAssumption DEF TypeOK, GatewayFinalizes, Resume, Delete
  <2> QED
    BY <2>1, <2>2, <2>3 DEF TypeOK
<1>5. CASE UNCHANGED vars
  BY <1>5 DEF TypeOK, vars
<1> QED
  BY <1>1, <1>2, <1>3, <1>4, <1>5 DEF Next, FinalizeStep

\* The finalizers in progress are finitely many.
LEMMA InProgressFinite == IsFiniteSet(InProgress) /\ Cardinality(InProgress) \in Nat
BY TaskFinalizeAssumption, FS_Subset, FS_CardinalityType DEF InProgress

\* A finalizer enters by winning an ending, and leaves by notifying it or by
\* failing: no step lets the notifications overtake the endings.
LEMMA FinalizeNotified == TypeOK /\ NotifiedPerEnding /\ [Next]_vars => NotifiedPerEnding'
<1> SUFFICES ASSUME TypeOK, NotifiedPerEnding, [Next]_vars PROVE NotifiedPerEnding'
  OBVIOUS
<1>1. /\ IsFiniteSet(InProgress) /\ Cardinality(InProgress) \in Nat
      /\ notified \in Nat /\ endings \in Nat /\ pc \in [Frame -> Statement \cup {"update", "done"}]
  BY InProgressFinite DEF TypeOK
<1>2. ASSUME NEW f \in Frame, Transition(f) PROVE NotifiedPerEnding'
  <2>1. CASE Flips
    <3>1. pc[f] = "update" /\ pc' = [pc EXCEPT ![f] = "principal"] /\ notified' = notified
          /\ endings' = endings + 1
      BY <1>2, <2>1 DEF Transition, Goto, Flips
    <3>2. InProgress' = InProgress \cup {f} /\ f \notin InProgress
      BY <1>1, <3>1 DEF InProgress, Statement
    <3>3. Cardinality(InProgress') = Cardinality(InProgress) + 1
      BY <1>1, <3>2, FS_AddElement
    <3> QED
      BY <1>1, <3>1, <3>3 DEF NotifiedPerEnding
  <2>2. CASE ~Flips
    <3>1. pc[f] = "update" /\ pc' = [pc EXCEPT ![f] = "done"] /\ UNCHANGED <<notified, endings>>
      BY <1>2, <2>2 DEF Transition, Goto
    <3>2. InProgress' = InProgress
      BY <1>1, <3>1 DEF InProgress, Statement
    <3> QED
      BY <3>1, <3>2 DEF NotifiedPerEnding
  <2> QED
    BY <2>1, <2>2
<1>3. ASSUME NEW f \in Frame, DisableGrants(f) PROVE NotifiedPerEnding'
  <2>1. pc[f] \in Statement /\ \E p \in Statement : pc' = [pc EXCEPT ![f] = p]
    BY <1>3 DEF DisableGrants, Disable, Goto, Statement
  <2>2. InProgress' = InProgress
    BY <1>1, <2>1 DEF InProgress
  <2> QED
    BY <1>3, <2>2 DEF NotifiedPerEnding, DisableGrants
<1>4. ASSUME NEW f \in Frame, Notify(f) \/ StatementFails(f) PROVE NotifiedPerEnding'
  <2>1. /\ pc[f] \in Statement /\ pc' = [pc EXCEPT ![f] = "done"]
        /\ notified' \in {notified, notified + 1} /\ endings' = endings
    BY <1>4, TaskFinalizeAssumption DEF Notify, StatementFails, Goto, Statement
  <2>2. InProgress' = InProgress \ {f} /\ f \in InProgress
    BY <1>1, <2>1 DEF InProgress, Statement
  <2>3. Cardinality(InProgress') = Cardinality(InProgress) - 1
    BY <1>1, <2>2, FS_RemoveElement
  <2> QED
    BY <1>1, <2>1, <2>3 DEF NotifiedPerEnding
<1>5. CASE GatewayFinalizes \/ Resume \/ Delete \/ UNCHANGED vars
  <2>1. InProgress' = InProgress
    BY <1>5 DEF GatewayFinalizes, Resume, Delete, vars, InProgress
  <2>2. UNCHANGED <<notified, endings>> \/ (notified' = notified + 1 /\ endings' = endings + 1)
    BY <1>5 DEF GatewayFinalizes, Resume, Delete, vars
  <2> QED
    BY <1>1, <2>1, <2>2 DEF NotifiedPerEnding
<1> QED
  BY <1>2, <1>3, <1>4, <1>5 DEF Next, FinalizeStep

\* The grants of an ended task are gone, going or skipped: only a resumption
\* restores them.
LEMMA FinalizeGrants == TypeOK /\ GrantInv /\ [Next]_vars => GrantInv'
<1> SUFFICES ASSUME TypeOK, GrantInv, [Next]_vars PROVE GrantInv'
  OBVIOUS
<1>1. pc \in [Frame -> Statement \cup {"update", "done"}] /\ grants \subseteq {"principal", "key"}
  BY DEF TypeOK, Statement
<1>2. ASSUME NEW f \in Frame, Transition(f) PROVE GrantInv'
  <2>1. CASE Flips
    <3>1. pc'[f] = "principal"
      BY <1>1, <1>2, <2>1 DEF Transition, Goto
    <3> QED
      BY <3>1 DEF GrantInv, Withdrawing
  <2>2. CASE ~Flips
    <3>1. pc[f] = "update" /\ pc' = [pc EXCEPT ![f] = "done"] /\ UNCHANGED <<status, deleted, grants, skipped>>
      BY <1>2, <2>2 DEF Transition, Goto
    <3> QED
      BY <1>1, <3>1 DEF GrantInv, Withdrawing
  <2> QED
    BY <2>1, <2>2
<1>3. ASSUME NEW f \in Frame, DisableGrants(f) PROVE GrantInv'
  <2>1. UNCHANGED <<status, deleted, skipped>>
    BY <1>3 DEF DisableGrants
  <2>2. CASE pc[f] = "principal"
    <3>1. pc'[f] = "key" /\ grants' = grants \ {"principal"}
      BY <1>1, <1>3, <2>2 DEF DisableGrants, Disable, Goto
    <3>2. grants' \subseteq {"key"}
      BY <1>1, <3>1
    <3> QED
      BY <3>1, <3>2 DEF GrantInv, Withdrawing
  <2>3. CASE pc[f] = "key"
    <3>1. pc' = [pc EXCEPT ![f] = "notify"] /\ grants' = grants \ {"key"}
      BY <1>3, <2>3 DEF DisableGrants, Disable, Goto
    <3>2. CASE grants \subseteq skipped \cup {"key"}
      BY <2>1, <3>1, <3>2 DEF GrantInv
    <3>3. CASE ~(grants \subseteq skipped \cup {"key"})
      BY <1>1, <2>1, <2>3, <3>1, <3>3 DEF GrantInv, Withdrawing
    <3> QED
      BY <3>2, <3>3
  <2> QED
    BY <1>3, <2>2, <2>3 DEF DisableGrants, Disable
<1>4. ASSUME NEW f \in Frame, Notify(f) \/ StatementFails(f) PROVE GrantInv'
  <2>1. /\ pc' = [pc EXCEPT ![f] = "done"] /\ UNCHANGED <<status, deleted, grants>>
        /\ skipped \subseteq skipped'
    BY <1>4 DEF Notify, StatementFails, Goto
  <2>2. CASE pc[f] = "principal"
    <3>1. skipped' = skipped \cup ({"principal", "key"} \cap grants)
      BY <1>4, <2>2 DEF Notify, StatementFails, Pending
    <3> QED
      BY <1>1, <2>1, <3>1 DEF GrantInv
  <2>3. CASE pc[f] = "key"
    <3>1. skipped' = skipped \cup ({"key"} \cap grants)
      BY <1>4, <2>3 DEF Notify, StatementFails, Pending
    <3> QED
      BY <1>1, <2>1, <2>3, <3>1 DEF GrantInv, Withdrawing
  <2>4. CASE pc[f] = "notify"
    BY <1>1, <2>1, <2>4 DEF GrantInv, Withdrawing
  <2> QED
    BY <1>4, <2>2, <2>3, <2>4 DEF Notify, StatementFails, Statement
<1>5. CASE GatewayFinalizes \/ Delete
  BY <1>5 DEF GatewayFinalizes, Delete, GrantInv
<1>6. CASE Resume
  <2>1. status' = "processing" /\ ~deleted /\ UNCHANGED deleted
    BY <1>6 DEF Resume
  <2> QED
    BY <2>1 DEF GrantInv, Terminal
<1>7. CASE UNCHANGED vars
  BY <1>7 DEF vars, GrantInv, Withdrawing
<1> QED
  BY <1>2, <1>3, <1>4, <1>5, <1>6, <1>7 DEF Next, FinalizeStep

\* finalize_task_for_session, replayed and beside the gateway's finalizer:
\* every ending is notified at most once.
THEOREM OneNotification == Spec => []NotifiedPerEnding
<1>1. Init => TypeOK /\ NotifiedPerEnding
  BY InitFinalize
<1>2. TypeOK /\ NotifiedPerEnding /\ [Next]_vars => TypeOK' /\ NotifiedPerEnding'
  BY FinalizeTypeOK, FinalizeNotified
<1> QED
  BY <1>1, <1>2, PTL DEF Spec

\* finalize_task_for_session with any of its statements failing: once the
\* finalizers are through, the only grants left to an ended task are those whose
\* withdrawal failed or was skipped by a failure since the task was resumed.
THEOREM GrantsWithdrawn == Spec => []OnlySkippedGrantsLeft
<1>1. Init => TypeOK /\ GrantInv
  BY InitFinalize
<1>2. TypeOK /\ GrantInv /\ [Next]_vars => TypeOK' /\ GrantInv'
  BY FinalizeTypeOK, FinalizeGrants
<1>3. GrantInv => OnlySkippedGrantsLeft
  BY DEF GrantInv, Withdrawing, OnlySkippedGrantsLeft, InProgress, Statement
<1> QED
  BY <1>1, <1>2, <1>3, PTL DEF Spec

----------------------------------------------------------------------------
(***************************************************************************)
(* SessionFrames: the stream loops implement the finalizers.               *)
(***************************************************************************)

\* What a loop does to the task itself is a step of its finalizer, or nothing.
LEMMA LoopRefines == [SFNext]_allVars => [Next]_vars
<1> SUFFICES ASSUME [SFNext]_allVars PROVE [Next]_vars
  OBVIOUS
<1>1. CASE Gateway \/ UNCHANGED allVars
  BY <1>1 DEF Gateway, Next, allVars
<1>2. ASSUME NEW l \in Frame, LoopStep(l) PROVE [Next]_vars
  <2>1. CASE RecordItem(l) \/ RecordStage(l) \/ InsertMessage(l) \/ NextVal(l) \/ InsertRow(l)
             \/ WriteFails(l) \/ TakeResult(l) \/ RecordTransition(l)
    BY <2>1 DEF RecordItem, RecordStage, Look, InsertMessage, NextVal, InsertRow, WriteFails,
       TakeResult, RecordTransition
  <2>2. CASE Finalize(l)
    <3>1. Transition(l) \/ UNCHANGED vars
      BY <2>2 DEF Finalize
    <3> QED
      BY <3>1 DEF Next, FinalizeStep
  <2>3. CASE TearDown(l) \/ NotifyEnd(l) \/ FinalizeFails(l)
    BY <2>3 DEF TearDown, NotifyEnd, FinalizeFails, Next, FinalizeStep
  <2> QED
    BY <1>2, <2>1, <2>2, <2>3 DEF LoopStep
<1> QED
  BY <1>1, <1>2 DEF SFNext

\* handle_upstream's stream loops, with their pool and their other frames, do
\* to the task what TaskFinalize says: what is proved of it holds of them.
THEOREM LoopsFinalize == SFSpec => Spec
<1>1. SFInit => Init
  BY DEF SFInit
<1> QED
  BY <1>1, LoopRefines, PTL DEF SFSpec, Spec

(***************************************************************************)
(* Types and numbers of the index.                                         *)
(***************************************************************************)

\* Nothing has been written initially.
LEMMA InitFrames == SFInit => FramesInv
<1> SUFFICES ASSUME SFInit PROVE FramesInv
  OBVIOUS
<1>1. TypeOK
  BY InitFinalize DEF SFInit
<1>2. at = [l \in Frame |-> "ready"] /\ rows = {} /\ content = {}
      /\ place = [l \in Frame |-> "none"]
  BY DEF SFInit
<1>3. FramesTypeOK
  <2>1. holds \subseteq Frame /\ Cardinality(holds) <= PoolSize
    BY FS_EmptySet, SessionFramesAssumption DEF SFInit
  <2>2. /\ at \in [Frame -> Steps] /\ place \in [Frame -> {"none", "ref", "item"}]
        /\ rows \subseteq Rows /\ content \subseteq [n : 1 .. Items, by : Frame]
    BY <1>2 DEF Steps, Between
  <2> QED
    BY <1>1, <2>1, <2>2 DEF FramesTypeOK, SFInit
<1>4. LoopInv /\ NumberInv /\ CursorOrdersRows /\ ContentInv
  BY <1>2 DEF LoopInv, NumberInv, CursorOrdersRows, ContentInv, ReferenceHasContent, Writing, Numbered
<1> QED
  BY <1>3, <1>4 DEF FramesInv

\* A connection is taken only when the pool has one, and given back.
LEMMA PoolKept ==
    ASSUME FramesTypeOK, NEW l \in Frame,
           \/ holds' = holds
           \/ holds' = holds \ {l}
           \/ Free /\ holds' = holds \cup {l}
    PROVE  holds' \subseteq Frame /\ Cardinality(holds') <= PoolSize
<1>1. /\ holds \subseteq Frame /\ IsFiniteSet(holds) /\ Cardinality(holds) \in Nat
      /\ Cardinality(holds) <= PoolSize /\ PoolSize \in Nat
  BY TaskFinalizeAssumption, SessionFramesAssumption, FS_Subset, FS_CardinalityType DEF FramesTypeOK
<1>2. /\ Cardinality(holds \ {l}) \in {Cardinality(holds), Cardinality(holds) - 1}
      /\ Cardinality(holds \cup {l}) \in {Cardinality(holds), Cardinality(holds) + 1}
  BY <1>1, FS_RemoveElement, FS_AddElement
<1>3. CASE holds' = holds \/ holds' = holds \ {l}
  BY <1>1, <1>2, <1>3
<1>4. CASE Free /\ holds' = holds \cup {l}
  BY <1>1, <1>2, <1>4 DEF Free
<1> QED
  BY <1>3, <1>4

\* What every step of a loop does to where the loops are.
LEMMA LoopAt ==
    ASSUME FramesTypeOK, NEW l \in Frame, LoopStep(l)
    PROVE  /\ at' \in [Frame -> Steps] /\ \A k \in Frame \ {l} : at'[k] = at[k]
           /\ next' \in [Frame -> Int] /\ \A k \in Frame \ {l} : next'[k] = next[k]
           /\ next'[l] \in {next[l], next[l] + 1}
           /\ \/ holds' = holds
              \/ holds' = holds \ {l}
              \/ Free /\ holds' = holds \cup {l}
<1>1. at \in [Frame -> Steps] /\ next \in [Frame -> 1 .. Items + 1]
  BY DEF FramesTypeOK
<1>2. CASE RecordItem(l) \/ RecordStage(l)
  <2>1. PICK step \in {"content", "stageNumber"} : Look(l, step)
    BY <1>2 DEF RecordItem, RecordStage
  <2> QED
    BY <1>1, <2>1, SessionFramesAssumption DEF Look, To, Steps, Between
<1>3. CASE InsertMessage(l) \/ NextVal(l)
  BY <1>1, <1>3, SessionFramesAssumption DEF InsertMessage, NextVal, To, Steps, Between
<1>4. CASE InsertRow(l) \/ WriteFails(l)
  BY <1>1, <1>4, SessionFramesAssumption DEF InsertRow, WriteFails, Handled, Release, To, Steps, Between
<1>5. CASE TakeResult(l) \/ RecordTransition(l)
  BY <1>1, <1>5, SessionFramesAssumption DEF TakeResult, RecordTransition, To, Steps, Between
<1>6. CASE Finalize(l) \/ TearDown(l) \/ NotifyEnd(l) \/ FinalizeFails(l)
  BY <1>1, <1>6, SessionFramesAssumption DEF Finalize, TearDown, NotifyEnd, FinalizeFails, Release,
     To, Steps, Between
<1> QED
  BY <1>2, <1>3, <1>4, <1>5, <1>6 DEF LoopStep

\* The types of what a loop writes, by the step.
LEMMA LoopTypeOK ==
    ASSUME FramesInv, NEW l \in Frame, LoopStep(l)
    PROVE  FramesTypeOK'
<1>1. TypeOK'
  <2>1. [Next]_vars
    BY LoopRefines DEF SFNext
  <2> QED
    BY <2>1, FinalizeTypeOK DEF FramesInv, FramesTypeOK
<1>2. /\ holds' \subseteq Frame /\ Cardinality(holds') <= PoolSize
      /\ at' \in [Frame -> Steps]
  BY LoopAt, PoolKept DEF FramesInv
<1>3. /\ at \in [Frame -> Steps] /\ next \in [Frame -> 1 .. Items + 1]
      /\ num \in [Frame -> Nat] /\ place \in [Frame -> {"none", "ref", "item"}]
      /\ numbers \in Nat /\ rows \subseteq Rows /\ content \subseteq [n : 1 .. Items, by : Frame]
      /\ Items \in Nat
  BY SessionFramesAssumption DEF FramesInv, FramesTypeOK
<1>4. /\ at[l] \in Writing => next[l] <= Items
      /\ at[l] = "row" => place[l] # "none"
  BY DEF FramesInv, LoopInv
<1>5. next' \in [Frame -> 1 .. Items + 1]
  <2>1. \/ next' = next
        \/ next[l] <= Items /\ next' = [next EXCEPT ![l] = @ + 1]
    BY <1>4 DEF LoopStep, RecordItem, RecordStage, Look, InsertMessage, NextVal, InsertRow,
       WriteFails, Handled, TakeResult, Finalize, RecordTransition, TearDown, NotifyEnd,
       FinalizeFails, Writing
  <2> QED
    BY <1>3, <2>1
<1>6. CASE RecordItem(l) \/ RecordStage(l) \/ TakeResult(l) \/ Finalize(l) \/ RecordTransition(l)
           \/ TearDown(l) \/ NotifyEnd(l) \/ FinalizeFails(l)
  <2>1. UNCHANGED itemVars
    BY <1>6 DEF RecordItem, RecordStage, Look, TakeResult, Finalize, RecordTransition, TearDown,
       NotifyEnd, FinalizeFails
  <2> QED
    BY <1>1, <1>2, <1>3, <1>5, <2>1 DEF FramesTypeOK, itemVars
<1>7. CASE InsertMessage(l)
  <2>1. UNCHANGED <<num, numbers, rows>>
    BY <1>7 DEF InsertMessage
  <2>2. place' \in [Frame -> {"none", "ref", "item"}]
    BY <1>3, <1>7 DEF InsertMessage
  <2>3. content' \subseteq [n : 1 .. Items, by : Frame]
    <3>1. [n |-> next[l], by |-> l] \in [n : 1 .. Items, by : Frame]
      BY <1>3, <1>4, <1>7 DEF InsertMessage, Writing
    <3> QED
      BY <1>3, <1>7, <3>1 DEF InsertMessage, Rest
  <2> QED
    BY <1>1, <1>2, <1>3, <1>5, <2>1, <2>2, <2>3 DEF FramesTypeOK
<1>8. CASE NextVal(l)
  <2>1. numbers' \in Nat /\ num' \in [Frame -> Nat] /\ UNCHANGED <<place, rows, content>>
    BY <1>3, <1>8 DEF NextVal
  <2> QED
    BY <1>1, <1>2, <1>3, <1>5, <2>1 DEF FramesTypeOK
<1>9. CASE InsertRow(l) \/ WriteFails(l)
  <2>1. num' \in [Frame -> Nat] /\ UNCHANGED <<numbers, content>>
    BY <1>3, <1>9 DEF InsertRow, WriteFails, Handled
  <2>2. place' \in [Frame -> {"none", "ref", "item"}]
    BY <1>3, <1>9 DEF InsertRow, WriteFails, Handled
  <2>3. rows' \subseteq Rows
    <3>1. CASE WriteFails(l)
      BY <1>3, <3>1 DEF WriteFails
    <3>2. CASE InsertRow(l)
      <4> DEFINE tag == IF at[l] = "stageRow" THEN "stage" ELSE place[l]
      <4>1. next[l] \in 1 .. Items /\ num[l] \in Nat /\ tag \in {"ref", "item", "stage"}
        BY <1>3, <1>4, <3>2 DEF InsertRow, Writing
      <4>2. [seq |-> num[l], n |-> next[l], by |-> l, kind |-> tag] \in Rows
        <5> HIDE DEF tag
        <5> QED
          BY <4>1 DEF Rows
      <4>3. rows' = rows \cup {[seq |-> num[l], n |-> next[l], by |-> l, kind |-> tag]}
        BY <3>2 DEF InsertRow
      <4> QED
        BY <1>3, <4>2, <4>3
    <3> QED
      BY <1>9, <3>1, <3>2
  <2> QED
    BY <1>1, <1>2, <1>3, <1>5, <2>1, <2>2, <2>3 DEF FramesTypeOK
<1> QED
  BY <1>6, <1>7, <1>8, <1>9 DEF LoopStep

\* What is said of a loop's frame stays true while it is handled.
LEMMA LoopKeepsLoop ==
    ASSUME FramesInv, NEW l \in Frame, LoopStep(l)
    PROVE  LoopInv'
<1>1. /\ at \in [Frame -> Steps] /\ next \in [Frame -> 1 .. Items + 1]
      /\ place \in [Frame -> {"none", "ref", "item"}] /\ LoopInv
  BY DEF FramesInv, FramesTypeOK
<1>2. \A k \in Frame \ {l} : at'[k] = at[k] /\ next'[k] = next[k]
  BY LoopAt DEF FramesInv
<1>3. \A k \in Frame \ {l} : place'[k] = place[k]
  BY <1>1 DEF LoopStep, RecordItem, RecordStage, Look, InsertMessage, NextVal, InsertRow,
     WriteFails, Handled, TakeResult, Finalize, RecordTransition, TearDown, NotifyEnd,
     FinalizeFails, itemVars
<1>4. /\ at'[l] \in Writing => next'[l] <= Items
      /\ at'[l] \in {"number", "row"} <=> place'[l] # "none"
  <2>1. CASE RecordItem(l) \/ RecordStage(l)
    <3>1. PICK step \in {"content", "stageNumber"} : Look(l, step)
      BY <2>1 DEF RecordItem, RecordStage
    <3> QED
      BY <1>1, <3>1 DEF Look, To, itemVars, LoopInv, Writing
  <2>2. CASE InsertMessage(l) \/ NextVal(l)
    BY <1>1, <2>2 DEF InsertMessage, NextVal, To, LoopInv, Writing
  <2>3. CASE InsertRow(l) \/ WriteFails(l)
    BY <1>1, <2>3 DEF InsertRow, WriteFails, Handled, To, Writing
  <2>4. CASE TakeResult(l) \/ RecordTransition(l)
    BY <1>1, <2>4 DEF TakeResult, RecordTransition, To, itemVars, LoopInv, Writing
  <2>5. CASE Finalize(l) \/ TearDown(l) \/ NotifyEnd(l) \/ FinalizeFails(l)
    <3>1. /\ UNCHANGED itemVars /\ at[l] \in {"finalize", "grants", "notify"}
          /\ at'[l] \in {"gone", "history", "grants", "notify"}
      BY <1>1, <2>5 DEF Finalize, TearDown, NotifyEnd, FinalizeFails, To
    <3> QED
      BY <1>1, <3>1 DEF LoopInv, itemVars, Writing
  <2> QED
    BY <2>1, <2>2, <2>3, <2>4, <2>5 DEF LoopStep
<1> QED
  BY <1>1, <1>2, <1>3, <1>4 DEF LoopInv

\* The steps that write neither an item nor a stage.
Other(l) == RecordItem(l) \/ RecordStage(l) \/ TakeResult(l) \/ Finalize(l)
            \/ RecordTransition(l) \/ TearDown(l) \/ NotifyEnd(l) \/ FinalizeFails(l)

\* They leave the index, its numbers and the content alone, and are taken while
\* the loop has neither content nor a number in hand.
LEMMA OtherStep ==
    ASSUME FramesInv, NEW l \in Frame, Other(l)
    PROVE  /\ UNCHANGED itemVars /\ place[l] = "none"
           /\ at[l] \notin Numbered /\ at'[l] \notin Numbered
<1>1. at \in [Frame -> Steps] /\ place \in [Frame -> {"none", "ref", "item"}]
  BY DEF FramesInv, FramesTypeOK
<1>2. /\ UNCHANGED itemVars /\ at[l] \in {"ready", "finalize", "history", "grants", "notify"}
  BY DEF Other, RecordItem, RecordStage, Look, TakeResult, Finalize, RecordTransition, TearDown,
     NotifyEnd, FinalizeFails
<1>3. at'[l] \notin Numbered
  BY <1>1, <1>2 DEF Other, RecordItem, RecordStage, Look, TakeResult, Finalize, RecordTransition,
     TearDown, NotifyEnd, FinalizeFails, To, Numbered
<1> QED
  BY <1>2, <1>3 DEF FramesInv, LoopInv, Numbered

\* An item is referred to only once ClickHouse has it: a later insert of its
\* number replaces the content, it never removes it.
LEMMA LoopKeepsContent ==
    ASSUME FramesInv, NEW l \in Frame, LoopStep(l)
    PROVE  ContentInv'
<1>1. /\ at \in [Frame -> Steps] /\ next \in [Frame -> 1 .. Items + 1]
      /\ place \in [Frame -> {"none", "ref", "item"}] /\ ContentInv
  BY DEF FramesInv, FramesTypeOK
<1>2. \A k \in Frame \ {l} : next'[k] = next[k]
  BY LoopAt DEF FramesInv
<1>3. CASE Other(l)
  <2>1. UNCHANGED itemVars /\ place[l] = "none"
    BY <1>3, OtherStep
  <2> QED
    BY <1>1, <1>2, <2>1 DEF ContentInv, ReferenceHasContent, itemVars
<1>4. CASE InsertMessage(l)
  <2> DEFINE new == Rest(next[l]) \cup {[n |-> next[l], by |-> l]}
  <2>1. /\ UNCHANGED <<next, rows>> /\ content' \in {content, new}
        /\ \/ content' = new /\ place' = [place EXCEPT ![l] = "ref"]
           \/ place' = [place EXCEPT ![l] = "item"]
    BY <1>4 DEF InsertMessage
  <2>2. [n |-> next[l], by |-> l] \in new /\ [n |-> next[l], by |-> l].n = next[l]
    OBVIOUS
  <2>3. \A c \in content : \E d \in new : d.n = c.n
    BY <2>2 DEF Rest
  <2>4. \A c \in content : \E d \in content' : d.n = c.n
    BY <2>1, <2>3
  <2>5. ReferenceHasContent'
    BY <1>1, <2>1, <2>4 DEF ContentInv, ReferenceHasContent
  <2>6. place'[l] = "ref" => \E c \in content' : c.n = next'[l]
    BY <1>1, <2>1, <2>2
  <2>7. \A k \in Frame \ {l} : place'[k] = "ref" => \E c \in content' : c.n = next'[k]
    BY <1>1, <2>1, <2>4 DEF ContentInv
  <2> QED
    BY <2>5, <2>6, <2>7 DEF ContentInv
<1>5. CASE NextVal(l)
  BY <1>1, <1>5 DEF NextVal, ContentInv, ReferenceHasContent
<1>6. CASE InsertRow(l) \/ WriteFails(l)
  <2>1. UNCHANGED content /\ place' = [place EXCEPT ![l] = "none"]
    BY <1>6 DEF InsertRow, WriteFails, Handled
  <2>2. ReferenceHasContent'
    <3>1. CASE WriteFails(l)
      BY <1>1, <2>1, <3>1 DEF WriteFails, ContentInv, ReferenceHasContent
    <3>2. CASE InsertRow(l)
      BY <1>1, <2>1, <3>2 DEF InsertRow, ContentInv, ReferenceHasContent
    <3> QED
      BY <1>6, <3>1, <3>2
  <2> QED
    BY <1>1, <1>2, <2>1, <2>2 DEF ContentInv
<1> QED
  BY <1>3, <1>4, <1>5, <1>6 DEF LoopStep, Other

\* Numbers are drawn from one sequence, a loop's in the order of its frames.
LEMMA LoopKeepsNumbers ==
    ASSUME FramesInv, NEW l \in Frame, LoopStep(l)
    PROVE  NumberInv' /\ CursorOrdersRows'
<1>1. /\ at \in [Frame -> Steps] /\ next \in [Frame -> 1 .. Items + 1] /\ num \in [Frame -> Nat]
      /\ numbers \in Nat /\ Items \in Nat
      /\ \A r \in rows : r.seq \in Nat /\ r.n \in Nat
      /\ NumberInv /\ CursorOrdersRows
  BY SessionFramesAssumption DEF FramesInv, FramesTypeOK, Rows
<1>2. /\ \A k \in Frame \ {l} : at'[k] = at[k] /\ next'[k] = next[k]
      /\ next'[l] \in {next[l], next[l] + 1}
  BY LoopAt DEF FramesInv
<1>3. \A r \in rows : r.seq \in 1 .. numbers /\ r.by \in Frame /\ r.n < next[r.by] /\ r.n < next'[r.by]
  BY <1>1, <1>2 DEF NumberInv
<1>4. CASE Other(l) \/ InsertMessage(l) \/ WriteFails(l)
  <2>1. UNCHANGED <<numbers, rows>> /\ \A k \in Frame \ {l} : num'[k] = num[k]
    BY <1>1, <1>4, OtherStep DEF itemVars, InsertMessage, WriteFails, Handled
  <2>2. at'[l] \notin Numbered
    BY <1>1, <1>4, OtherStep DEF InsertMessage, WriteFails, Handled, To, Numbered
  <2>3. CursorOrdersRows'
    BY <1>1, <2>1 DEF CursorOrdersRows
  <2>4. ASSUME NEW k \in Frame, at'[k] \in Numbered
        PROVE  /\ num'[k] \in 1 .. numbers'
               /\ \A r \in rows' : r.seq # num'[k] /\ (r.by = k => r.seq < num'[k])
               /\ \A j \in Frame : at'[j] \in Numbered /\ num'[j] = num'[k] => j = k
    BY <1>1, <1>2, <2>1, <2>2, <2>4 DEF NumberInv
  <2> QED
    BY <1>3, <2>1, <2>3, <2>4 DEF NumberInv
<1>5. CASE NextVal(l)
  <2>1. /\ numbers' = numbers + 1 /\ num' = [num EXCEPT ![l] = numbers + 1]
        /\ UNCHANGED <<next, rows>>
    BY <1>5 DEF NextVal
  <2>2. CursorOrdersRows'
    BY <1>1, <2>1 DEF CursorOrdersRows
  <2>3. ASSUME NEW k \in Frame, at'[k] \in Numbered
        PROVE  /\ num'[k] \in 1 .. numbers'
               /\ \A r \in rows' : r.seq # num'[k] /\ (r.by = k => r.seq < num'[k])
               /\ \A j \in Frame : at'[j] \in Numbered /\ num'[j] = num'[k] => j = k
    <3>1. \A j \in Frame \ {l} : at'[j] \in Numbered => num[j] \in 1 .. numbers /\ num'[j] = num[j]
      BY <1>1, <1>2, <2>1 DEF NumberInv
    <3>2. CASE k = l
      BY <1>1, <1>3, <2>1, <3>1, <3>2
    <3>3. CASE k # l
      BY <1>1, <1>2, <2>1, <2>3, <3>1, <3>3 DEF NumberInv
    <3> QED
      BY <3>2, <3>3
  <2> QED
    BY <1>1, <1>3, <2>1, <2>2, <2>3 DEF NumberInv
<1>6. CASE InsertRow(l)
  <2> DEFINE new == [seq |-> num[l], n |-> next[l], by |-> l,
                     kind |-> IF at[l] = "stageRow" THEN "stage" ELSE place[l]]
  <2>1. /\ rows' = rows \cup {new} /\ numbers' = numbers
        /\ next'[l] = next[l] + 1
        /\ \A k \in Frame \ {l} : num'[k] = num[k]
        /\ at'[l] \notin Numbered /\ at[l] \in Numbered
    BY <1>1, <1>6 DEF InsertRow, Handled, To, Numbered
  <2>2. new.seq = num[l] /\ new.n = next[l] /\ new.by = l
    OBVIOUS
  <2>3. /\ num[l] \in 1 .. numbers
        /\ \A r \in rows : r.seq # num[l] /\ (r.by = l => r.seq < num[l] /\ r.n < next[l])
    BY <1>1, <2>1 DEF NumberInv
  <2> HIDE DEF new
  <2>4. CursorOrdersRows'
    BY <1>1, <2>1, <2>2, <2>3 DEF CursorOrdersRows
  <2>5. \A r \in rows' : r.seq \in 1 .. numbers' /\ r.by \in Frame /\ r.n < next'[r.by]
    BY <1>1, <1>3, <2>1, <2>2, <2>3
  <2>6. ASSUME NEW k \in Frame, at'[k] \in Numbered
        PROVE  /\ num'[k] \in 1 .. numbers'
               /\ \A r \in rows' : r.seq # num'[k] /\ (r.by = k => r.seq < num'[k])
               /\ \A j \in Frame : at'[j] \in Numbered /\ num'[j] = num'[k] => j = k
    <3>1. k # l /\ at[k] \in Numbered /\ num'[k] = num[k]
      BY <1>2, <2>1, <2>6
    <3>2. num[k] # num[l]
      BY <1>1, <2>1, <3>1 DEF NumberInv
    <3>3. \A j \in Frame : at'[j] \in Numbered => j # l /\ at[j] \in Numbered /\ num'[j] = num[j]
      BY <1>2, <2>1
    <3> QED
      BY <1>1, <2>1, <2>2, <3>1, <3>2, <3>3 DEF NumberInv
  <2> QED
    BY <2>4, <2>5, <2>6 DEF NumberInv
<1> QED
  BY <1>4, <1>5, <1>6 DEF LoopStep, Other

----------------------------------------------------------------------------
\* The invariant is inductive.
LEMMA NextFrames == FramesInv /\ [SFNext]_allVars => FramesInv'
<1>1. ASSUME FramesInv, NEW l \in Frame, LoopStep(l) PROVE FramesInv'
  BY <1>1, LoopTypeOK, LoopKeepsLoop, LoopKeepsContent, LoopKeepsNumbers DEF FramesInv
<1>2. ASSUME FramesInv, [SFNext]_allVars, UNCHANGED frameVars PROVE FramesInv'
  <2> USE DEF frameVars, itemVars
  <2>1. TypeOK'
    BY <1>2, LoopRefines, FinalizeTypeOK DEF FramesInv, FramesTypeOK
  <2>2. FramesTypeOK'
    BY <1>2, <2>1 DEF FramesInv, FramesTypeOK
  <2>3. LoopInv' /\ ContentInv'
    BY <1>2 DEF FramesInv, LoopInv, ContentInv, ReferenceHasContent
  <2>4. NumberInv' /\ CursorOrdersRows'
    BY <1>2 DEF FramesInv, NumberInv, CursorOrdersRows
  <2> QED
    BY <2>2, <2>3, <2>4 DEF FramesInv
<1> QED
  BY <1>1, <1>2 DEF SFNext, Gateway, allVars

\* Every reachable state satisfies it.
LEMMA FramesInvariant == SFSpec => []FramesInv
BY InitFrames, NextFrames, PTL DEF SFSpec

\* Type correctness of the loops, the pool, the index and its content; no more
\* connections are held than the pool has.
THEOREM FramesTypeCorrect == SFSpec => []FramesTypeOK
<1>1. FramesInv => FramesTypeOK
  BY DEF FramesInv
<1> QED
  BY <1>1, FramesInvariant, PTL

\* task_event_log: a row of the index that refers to ClickHouse has content
\* there, however inserts fail or repeat.
THEOREM ReferencedContent == SFSpec => []ReferenceHasContent
<1>1. FramesInv => ReferenceHasContent
  BY DEF FramesInv, ContentInv
<1> QED
  BY <1>1, FramesInvariant, PTL

\* The paging cursor orders the index, however many connections write it.
THEOREM OrderedIndex == SFSpec => []CursorOrdersRows
<1>1. FramesInv => CursorOrdersRows
  BY DEF FramesInv
<1> QED
  BY <1>1, FramesInvariant, PTL

-----------------------------------------------------------------------------
(***************************************************************************)
(* NodeStreams, for any requests, any buffer and any length of a response. *)
(* An entry of a connection's table belongs to a handler that reads it; a  *)
(* response is whole when its frames, in the handler's hand, in its queue  *)
(* and still to be sent, follow each other up to the end.                  *)
(***************************************************************************)

\* StreamsTypeOK by its parts.
Frames == 1 .. Gone
StreamTyped ==
    /\ kind \in [Readers -> Kinds]
    /\ made \in 0 .. MaxConns /\ live \in {0, made}
    /\ table \in [Conn -> SUBSET Readers]
    /\ asked \subseteq Readers /\ sent \in [Readers -> 0 .. Chunks]
    /\ lost \subseteq Readers /\ ousted \subseteq Readers
ReaderTyped ==
    /\ phase \in [Readers -> Phases]
    /\ conn \in [Readers -> 0 .. MaxConns]
    /\ first \in [Readers -> 0 .. Chunks]
    /\ queue \in [Readers -> Seq(Frames)] /\ \A r \in Readers : Len(queue[r]) <= Buffer
    /\ got \in [Readers -> SUBSET (1 .. Chunks)]
    /\ how \in [Readers -> Endings]

\* A reader's entry is where it reads, and only a session's stays on a connection
\* that was closed.
ReaderFine(r) ==
    /\ phase[r] = "idle" =>
          /\ how[r] = "none" /\ queue[r] = << >> /\ got[r] = {}
          /\ kind[r] \in Tunnels => sent[r] = 0 /\ r \notin asked
    /\ Open(r) => conn[r] \in Conn /\ how[r] = "none"
    /\ phase[r] # "ended" => how[r] = "none"
    /\ first[r] # 0 <=> phase[r] = "head"
    /\ \A c \in Conn : r \in table[c] =>
          /\ (Open(r) /\ conn[r] = c) \/ how[r] = "abandoned"
          /\ c = live \/ kind[r] = "session"

\* ClosedWakes, for one reader.
Ends(r, f) == f = Gone \/ (kind[r] \in Calls /\ f = Chunks)
EndIn(r, q) == \E i \in 1 .. Len(q) : Ends(r, q[i])
WakeFine(r) ==
    Open(r) /\ kind[r] # "session" =>
        \/ live # 0 /\ conn[r] = live /\ r \in table[live]
        \/ EndIn(r, queue[r])
        \/ r \in lost \cup ousted

\* The chunks in a queue continue the first n, and none follows an end; while the
\* node may still send some it has sent these.
Continues(q, n) ==
    /\ \A i \in 1 .. Len(q) : q[i] <= Chunks => q[i] = n + i
    /\ \A i, j \in 1 .. Len(q) : i < j /\ q[i] > Chunks => q[j] > Chunks
Fed(r) == live # 0 /\ r \in table[live] /\ r \in asked
AllSent(r, n) ==
    /\ sent[r] = n + Len(queue[r])
    /\ \A i \in 1 .. Len(queue[r]) : queue[r][i] <= Chunks
LineAt(r, n) == Continues(queue[r], n) /\ (Fed(r) => AllSent(r, n))

\* A tunnel that lost nothing has passed on a first part of the response, or holds
\* its first chunk; its queue continues that.
LineFine(r) ==
    kind[r] \in Tunnels /\ r \notin lost =>
        /\ phase[r] = "wait" => got[r] = {} /\ LineAt(r, 0)
        /\ phase[r] = "head" => got[r] = {} /\ first[r] = 1 /\ LineAt(r, 1)
        /\ phase[r] = "body" => \E n \in 0 .. Chunks : got[r] = 1 .. n /\ LineAt(r, n)
        /\ how[r] = "whole" => got[r] = 1 .. Chunks

Fine(r) == ReaderFine(r) /\ WakeFine(r) /\ LineFine(r)
StreamInv == StreamTyped /\ ReaderTyped /\ kind \in Mixes /\ \A r \in Readers : Fine(r)

(***************************************************************************)
(* Frames and queues.                                                      *)
(***************************************************************************)

\* The two frames that end a response come after its chunks.
LEMMA StreamFrames ==
    /\ Chunks \in Nat /\ Chunks >= 1 /\ MaxConns \in Nat /\ Buffer \in Nat /\ Buffer >= 1
    /\ Fault = Chunks + 1 /\ Gone = Chunks + 2
    /\ 1 .. Chunks \subseteq Frames /\ Fault \in Frames /\ Gone \in Frames
BY NodeStreamsAssumption DEF Fault, Gone, Frames

\* Reading a frame shortens the queue by its head.
LEMMA StreamTail ==
    ASSUME NEW q \in Seq(Frames), q # << >>
    PROVE  /\ Head(q) = q[1] /\ Head(q) \in Frames /\ 1 \in 1 .. Len(q)
           /\ Tail(q) \in Seq(Frames)
           /\ Len(Tail(q)) = Len(q) - 1 /\ Len(q) \in Nat /\ Len(q) > 0
           /\ \A i \in 1 .. Len(Tail(q)) : i + 1 \in 1 .. Len(q) /\ Tail(q)[i] = q[i + 1]
OBVIOUS

\* A delivered frame is the last of the queue.
LEMMA StreamAppend ==
    ASSUME NEW q \in Seq(Frames), NEW f \in Frames
    PROVE  /\ Append(q, f) \in Seq(Frames)
           /\ Len(Append(q, f)) = Len(q) + 1 /\ Len(q) \in Nat
           /\ \A i \in 1 .. Len(q) : Append(q, f)[i] = q[i]
           /\ Append(q, f)[Len(q) + 1] = f
OBVIOUS

\* What is left of a queue continues one chunk further.
LEMMA StreamTailContinues ==
    ASSUME NEW q \in Seq(Frames), q # << >>, NEW n \in Nat, Continues(q, n)
    PROVE  /\ Continues(Tail(q), n + 1)
           /\ q[1] > Chunks => Continues(Tail(q), n)
<1>1. \A i \in 1 .. Len(Tail(q)) :
          i + 1 \in 1 .. Len(q) /\ Tail(q)[i] = q[i + 1] /\ i \in Nat /\ 1 < i + 1
  BY StreamTail
<1>2. 1 \in 1 .. Len(q)
  BY StreamTail
<1>3. \A i \in 1 .. Len(Tail(q)) : Tail(q)[i] <= Chunks => Tail(q)[i] = (n + 1) + i
  BY <1>1 DEF Continues
<1>4. \A i, j \in 1 .. Len(Tail(q)) : i < j /\ Tail(q)[i] > Chunks => Tail(q)[j] > Chunks
  <2>1. TAKE i, j \in 1 .. Len(Tail(q))
  <2>2. i < j => i + 1 < j + 1
    BY <1>1
  <2> QED
    BY <1>1, <2>2 DEF Continues
<1>5. ASSUME q[1] > Chunks PROVE Continues(Tail(q), n)
  <2>1. \A i \in 1 .. Len(Tail(q)) : Tail(q)[i] > Chunks
    BY <1>1, <1>2, <1>5 DEF Continues
  <2>2. \A i \in 1 .. Len(Tail(q)) : Tail(q)[i] \in Nat
    BY StreamTail, StreamFrames, <1>1 DEF Frames, Gone
  <2> QED
    BY <1>4, <2>1, <2>2, StreamFrames DEF Continues
<1> QED
  BY <1>3, <1>4, <1>5 DEF Continues

\* The next chunk, or an end, continues a queue that holds chunks only; an end
\* continues any queue.
LEMMA StreamAppendContinues ==
    ASSUME NEW q \in Seq(Frames), NEW f \in Frames, NEW n \in Nat, Continues(q, n),
           \/ f > Chunks
           \/ f = n + Len(q) + 1 /\ \A i \in 1 .. Len(q) : q[i] <= Chunks
    PROVE  Continues(Append(q, f), n)
<1> DEFINE a == Append(q, f)
<1>1. /\ Len(a) = Len(q) + 1 /\ Len(q) \in Nat /\ a[Len(q) + 1] = f
      /\ \A i \in 1 .. Len(q) : a[i] = q[i]
  BY StreamAppend
<1>2. \A i \in 1 .. Len(a) : i \in 1 .. Len(q) \/ i = Len(q) + 1
  BY <1>1
<1>3. f \in Nat /\ \A i \in 1 .. Len(q) : q[i] \in Nat
  <2>1. \A g \in Frames : g \in Nat
    BY StreamFrames DEF Frames, Gone
  <2>2. \A i \in 1 .. Len(q) : q[i] \in Frames
    OBVIOUS
  <2> QED
    BY <2>1, <2>2
<1> HIDE DEF a
<1>4. ASSUME NEW i \in 1 .. Len(a), a[i] <= Chunks PROVE a[i] = n + i
  <2>1. CASE i \in 1 .. Len(q)
    BY <1>1, <1>4, <2>1 DEF Continues
  <2>2. CASE i = Len(q) + 1
    <3>1. a[i] = f /\ ~ (f > Chunks)
      BY <1>1, <1>3, <1>4, <2>2, StreamFrames
    <3> QED
      BY <1>1, <2>2, <3>1
  <2> QED
    BY <1>2, <2>1, <2>2
<1>5. \A i, j \in 1 .. Len(a) : i < j /\ a[i] > Chunks => a[j] > Chunks
  <2>1. TAKE i, j \in 1 .. Len(a)
  <2>2. ASSUME i < j, a[i] > Chunks PROVE a[j] > Chunks
    <3>1. i \in 1 .. Len(q)
      BY <1>1, <1>2, <2>2
    <3>2. CASE j \in 1 .. Len(q)
      BY <1>1, <3>1, <3>2, <2>2 DEF Continues
    <3>3. CASE j = Len(q) + 1
      BY <1>1, <1>3, <3>1, <3>3, <2>2, StreamFrames
    <3> QED
      BY <1>2, <3>2, <3>3
  <2> QED
    BY <2>2
<1> QED
  BY <1>4, <1>5 DEF Continues, a

(***************************************************************************)
(* The readers a step does not move.                                       *)
(***************************************************************************)

\* Nothing of s's handler changes, and its queue does not.
Untouched(s) ==
    /\ phase'[s] = phase[s] /\ conn'[s] = conn[s] /\ first'[s] = first[s]
    /\ got'[s] = got[s] /\ how'[s] = how[s] /\ queue'[s] = queue[s]
\* Nor what the node has to say to it.
Unasked(s) ==
    /\ kind' = kind /\ live' = live /\ sent'[s] = sent[s]
    /\ (s \in asked') <=> (s \in asked)
    /\ (s \in lost') <=> (s \in lost)
\* It takes no entry, and who loses one was ousted.
NoEntry(s) == \A c \in Conn : s \in table'[c] => s \in table[c]
Dropped(s) == \A c \in Conn : s \in table[c] => s \in table'[c] \/ s \in ousted'

LEMMA StreamBystander ==
    ASSUME StreamInv, NEW s \in Readers, Untouched(s), Unasked(s), NoEntry(s), Dropped(s),
           ousted \subseteq ousted'
    PROVE  Fine(s)'
<1>1. Fine(s) /\ live \in 0 .. MaxConns
  BY StreamFrames DEF StreamInv, StreamTyped
<1>2. ReaderFine(s)'
  <2>1. ReaderFine(s)
    BY <1>1 DEF Fine
  <2> QED
    BY <2>1 DEF ReaderFine, Untouched, Unasked, NoEntry, Open
<1>3. WakeFine(s)'
  <2>1. WakeFine(s)
    BY <1>1 DEF Fine
  <2>2. live # 0 => live \in Conn
    BY <1>1, StreamFrames DEF Conn
  <2>3. EndIn(s, queue[s]) => EndIn(s, queue[s])'
    BY DEF EndIn, Ends, Untouched, Unasked
  <2>4. live # 0 /\ s \in table[live] => s \in (table[live])' \/ s \in ousted'
    BY <2>2 DEF Dropped, Unasked
  <2> QED
    BY <2>1, <2>3, <2>4 DEF WakeFine, Untouched, Unasked, Open
<1>4. LineFine(s)'
  <2>1. LineFine(s)
    BY <1>1 DEF Fine
  <2>2. live # 0 => live \in Conn
    BY <1>1, StreamFrames DEF Conn
  <2>3. Fed(s)' => Fed(s)
    BY <2>2 DEF Fed, Unasked, NoEntry
  <2>4. ASSUME NEW n, LineAt(s, n) PROVE LineAt(s, n)'
    BY <2>3, <2>4 DEF LineAt, AllSent, Continues, Untouched, Unasked
  <2> QED
    BY <2>1, <2>4 DEF LineFine, Untouched, Unasked
<1> QED
  BY <1>2, <1>3, <1>4 DEF Fine

\* A step that moves nobody at all.
LEMMA StreamStutter ==
    ASSUME StreamInv, UNCHANGED streamVars
    PROVE  StreamInv'
<1>1. \A s \in Readers : Fine(s)'
  <2>1. TAKE s \in Readers
  <2> QED
    BY StreamBystander
       DEF streamVars, wireVars, nodeVars, readerVars, Untouched, Unasked, NoEntry, Dropped
<1>2. StreamTyped' /\ ReaderTyped' /\ kind' \in Mixes
  BY DEF StreamInv, StreamTyped, ReaderTyped, streamVars, wireVars, nodeVars, readerVars
<1> QED
  BY <1>1, <1>2 DEF StreamInv

\* The states the program starts in.
LEMMA StreamStart ==
    ASSUME StreamsInit
    PROVE  StreamInv
<1>1. kind \in Mixes /\ kind \in [Readers -> Kinds]
  BY NodeStreamsAssumption DEF StreamsInit
<1>2. StreamTyped /\ ReaderTyped
  <2>1. StreamTyped
    BY <1>1, StreamFrames DEF StreamsInit, StreamTyped
  <2>2. queue \in [Readers -> Seq(Frames)] /\ \A r \in Readers : Len(queue[r]) <= Buffer
    BY StreamFrames DEF StreamsInit
  <2>3. /\ phase \in [Readers -> Phases] /\ conn \in [Readers -> 0 .. MaxConns]
        /\ first \in [Readers -> 0 .. Chunks] /\ got \in [Readers -> SUBSET (1 .. Chunks)]
        /\ how \in [Readers -> Endings]
    BY StreamFrames DEF StreamsInit, Phases, Endings
  <2> QED
    BY <2>1, <2>2, <2>3 DEF ReaderTyped
<1>3. ASSUME NEW r \in Readers PROVE Fine(r)
  <2>1. ReaderFine(r)
    BY <1>3 DEF StreamsInit, ReaderFine, Open
  <2>2. WakeFine(r) /\ LineFine(r)
    BY <1>3 DEF StreamsInit, WakeFine, LineFine, Open
  <2> QED
    BY <2>1, <2>2 DEF Fine
<1> QED
  BY <1>1, <1>2, <1>3 DEF StreamInv

(***************************************************************************)
(* A handler's own steps.                                                  *)
(***************************************************************************)

\* Only r's handler moves; the node and the connections do not.
OnlyHandler(r) ==
    /\ kind' = kind /\ live' = live /\ made' = made /\ sent' = sent /\ lost' = lost
    /\ \A s \in Readers \ {r} : Untouched(s) /\ (s \in asked' <=> s \in asked)
\* It takes the key of its entry from others, or nothing.
OnlyOusts(r) ==
    /\ table' \in [Conn -> SUBSET Readers]
    /\ ousted \subseteq ousted' /\ ousted' \subseteq Readers
    /\ \A s \in Readers \ {r} : NoEntry(s) /\ Dropped(s)

LEMMA StreamOthers ==
    ASSUME StreamInv, NEW r \in Readers, OnlyHandler(r), OnlyOusts(r),
           asked' \subseteq Readers, Fine(r)', ReaderTyped'
    PROVE  StreamInv'
<1>1. ASSUME NEW s \in Readers \ {r} PROVE Fine(s)'
  <2>1. Untouched(s) /\ Unasked(s) /\ NoEntry(s) /\ Dropped(s) /\ ousted \subseteq ousted'
    BY <1>1 DEF OnlyHandler, OnlyOusts, Unasked
  <2> QED
    BY <2>1, StreamBystander
<1>2. StreamTyped' /\ kind' \in Mixes
  BY DEF StreamInv, StreamTyped, OnlyHandler, OnlyOusts
<1> QED
  BY <1>1, <1>2 DEF StreamInv

\* Removing an entry by its key removes the reader's and ousts the others'.
LEMMA StreamUnregister ==
    ASSUME StreamInv, NEW r \in Readers, NEW c \in {0} \cup Conn, Unregister(c, r)
    PROVE  /\ OnlyOusts(r)
           /\ NoEntry(r)
           /\ c # 0 => r \notin table'[c]
<1>1. table \in [Conn -> SUBSET Readers] /\ ousted \subseteq Readers /\ 0 \notin Conn
  BY DEF StreamInv, StreamTyped, Conn
<1>2. CASE c = 0
  BY <1>1, <1>2 DEF Unregister, OnlyOusts, NoEntry, Dropped
<1>3. CASE c # 0
  <2>1. /\ table' = [table EXCEPT ![c] = @ \ ({r} \cup Others(r))]
        /\ ousted' = ousted \cup (table[c] \cap Others(r)) /\ c \in Conn
    BY <1>3 DEF Unregister
  <2>2. \A d \in Conn : table'[d] = IF d = c THEN table[c] \ ({r} \cup Others(r)) ELSE table[d]
    BY <1>1, <2>1
  <2>3. table' \in [Conn -> SUBSET Readers]
    BY <1>1, <2>1
  <2>4. \A s \in Readers \ {r} : NoEntry(s) /\ Dropped(s)
    BY <2>1, <2>2 DEF NoEntry, Dropped
  <2>5. ousted \subseteq ousted' /\ ousted' \subseteq Readers
    BY <1>1, <2>1
  <2>6. NoEntry(r) /\ r \notin table'[c]
    BY <2>1, <2>2 DEF NoEntry
  <2> QED
    BY <2>3, <2>4, <2>5, <2>6 DEF OnlyOusts
<1> QED
  BY <1>2, <1>3

\* The entry an open reader may have is where its end looks for it.
LEMMA StreamCleanup ==
    ASSUME StreamInv, NEW r \in Readers, Open(r)
    PROVE  /\ CleansUpAt(r) \in {0} \cup Conn
           /\ \A c \in Conn : r \in table[c] => c = CleansUpAt(r)
<1>1. ReaderFine(r) /\ live \in 0 .. MaxConns
  BY StreamFrames DEF StreamInv, StreamTyped, Fine
<1>2. live = 0 \/ live \in Conn
  BY <1>1, StreamFrames DEF Conn
<1>3. how[r] # "abandoned" /\ conn[r] \in Conn
  BY <1>1 DEF ReaderFine
<1> QED
  BY <1>1, <1>2, <1>3 DEF CleansUpAt, ReaderFine

\* The end of a handler leaves no entry, on whatever path it is reached.
LEMMA StreamFinish ==
    ASSUME StreamInv, NEW r \in Readers, Open(r), NEW h \in Endings, Finish(r, h),
           h # "none",
           UNCHANGED <<kind, wireVars, nodeVars, lost>>,
           first' \in [Readers -> 0 .. Chunks], first'[r] = 0,
           \A s \in Readers \ {r} : first'[s] = first[s] /\ got'[s] = got[s],
           got' \in [Readers -> SUBSET (1 .. Chunks)],
           h = "whole" /\ kind[r] \in Tunnels /\ r \notin lost => got'[r] = 1 .. Chunks
    PROVE  StreamInv'
<1>1. /\ phase' = [phase EXCEPT ![r] = "ended"] /\ how' = [how EXCEPT ![r] = h]
      /\ conn' = [conn EXCEPT ![r] = 0] /\ queue' = [queue EXCEPT ![r] = << >>]
      /\ Unregister(CleansUpAt(r), r)
  BY DEF Finish
<1>2. ReaderTyped
  BY DEF StreamInv
<1>3. ReaderTyped'
  <2>1. queue' \in [Readers -> Seq(Frames)] /\ \A s \in Readers : Len(queue'[s]) <= Buffer
    BY <1>1, <1>2, StreamFrames DEF ReaderTyped
  <2>2. phase' \in [Readers -> Phases] /\ conn' \in [Readers -> 0 .. MaxConns]
        /\ how' \in [Readers -> Endings]
    BY <1>1, <1>2, StreamFrames DEF ReaderTyped, Phases
  <2> QED
    BY <2>1, <2>2 DEF ReaderTyped
<1>4. OnlyHandler(r)
  BY <1>1, <1>2 DEF OnlyHandler, Untouched, wireVars, nodeVars, ReaderTyped
<1>5. OnlyOusts(r) /\ \A c \in Conn : r \notin table'[c]
  <2>1. CleansUpAt(r) \in {0} \cup Conn
    BY StreamCleanup
  <2>2. Unregister(CleansUpAt(r), r)
    BY <1>1
  <2>3. /\ OnlyOusts(r) /\ NoEntry(r)
        /\ CleansUpAt(r) # 0 => r \notin table'[CleansUpAt(r)]
    BY <2>1, <2>2, StreamUnregister
  <2> QED
    BY <2>3, StreamCleanup DEF NoEntry, Conn
<1>6. phase'[r] = "ended" /\ how'[r] = h
  BY <1>1, <1>2 DEF ReaderTyped
<1>7. Fine(r)'
  <2>1. ReaderFine(r)'
    BY <1>5, <1>6 DEF ReaderFine, Open
  <2>2. WakeFine(r)' /\ LineFine(r)'
    BY <1>6 DEF WakeFine, LineFine, Open
  <2> QED
    BY <2>1, <2>2 DEF Fine
<1>8. asked' \subseteq Readers
  BY DEF StreamInv, StreamTyped, nodeVars
<1> QED
  BY <1>3, <1>4, <1>5, <1>7, <1>8, StreamOthers

\* A step that leaves the tables alone.
LEMMA StreamNoTable ==
    ASSUME StreamInv, NEW r \in Readers, UNCHANGED <<table, ousted>>
    PROVE  OnlyOusts(r)
BY DEF StreamInv, StreamTyped, OnlyOusts, NoEntry, Dropped

\* A request that is sent takes its key, whoever held it.
LEMMA StreamStarts ==
    ASSUME StreamInv, NEW r \in Readers, phase[r] = "idle",
           NEW p \in {"wait", "body"}, Start(r, p), UNCHANGED sent,
           \/ p = "wait" /\ asked' = asked \cup {r}
           \/ kind[r] \in Followers /\ UNCHANGED asked
    PROVE  StreamInv'
<1>1. /\ live # 0 /\ Register(live, r)
      /\ phase' = [phase EXCEPT ![r] = p] /\ conn' = [conn EXCEPT ![r] = live]
      /\ UNCHANGED <<kind, live, made, first, got, how, queue, lost>>
  BY DEF Start, wireVars
<1>2. ReaderTyped /\ StreamTyped /\ Fine(r)
  BY DEF StreamInv
<1>3. live \in Conn /\ live \in 0 .. MaxConns
  BY <1>1, <1>2, StreamFrames DEF StreamTyped, Conn
<1>4. ReaderTyped'
  <2>1. phase' \in [Readers -> Phases] /\ conn' \in [Readers -> 0 .. MaxConns]
    BY <1>1, <1>2, <1>3 DEF ReaderTyped, Phases
  <2> QED
    BY <1>1, <1>2, <2>1 DEF ReaderTyped
<1>5. OnlyHandler(r) /\ asked' \subseteq Readers
  BY <1>1, <1>2 DEF OnlyHandler, Untouched, ReaderTyped, StreamTyped
<1>6. \A c \in Conn :
          table'[c] = IF c = live THEN (table[c] \ Others(r)) \cup {r} ELSE table[c]
  BY <1>1, <1>2, <1>3 DEF Register, StreamTyped
<1>7. OnlyOusts(r)
  <2>1. table' \in [Conn -> SUBSET Readers]
    BY <1>1, <1>2, <1>3 DEF Register, StreamTyped
  <2>2. ousted' = ousted \cup (table[live] \cap Others(r)) /\ ousted' \subseteq Readers
    BY <1>1, <1>2, <1>3 DEF Register, StreamTyped
  <2>3. \A s \in Readers \ {r} : NoEntry(s) /\ Dropped(s)
    BY <1>6, <2>2 DEF NoEntry, Dropped
  <2> QED
    BY <2>1, <2>2, <2>3 DEF OnlyOusts
<1>8. phase'[r] = p /\ conn'[r] = live
  BY <1>1, <1>2 DEF ReaderTyped
<1>9. ReaderFine(r) /\ how[r] = "none" /\ queue[r] = << >> /\ got[r] = {} /\ first[r] = 0
  BY <1>2 DEF Fine, ReaderFine
<1>10. Fine(r)'
  <2>1. \A c \in Conn : r \in table'[c] => c = live
    BY <1>6, <1>9 DEF ReaderFine, Open
  <2>2. ReaderFine(r)'
    BY <1>1, <1>3, <1>8, <1>9, <2>1 DEF ReaderFine, Open
  <2>3. WakeFine(r)'
    BY <1>1, <1>3, <1>6, <1>8 DEF WakeFine
  <2>4. LineFine(r)'
    <3>1. CASE kind[r] \in Tunnels
      <4>1. p = "wait" /\ sent[r] = 0 /\ sent' = sent
        BY <1>9, <3>1 DEF ReaderFine, Tunnels, Followers
      <4>2. queue'[r] = << >> /\ Len(queue'[r]) = 0
        BY <1>1, <1>9
      <4>3. LineAt(r, 0)'
        BY <4>1, <4>2 DEF LineAt, Continues, AllSent
      <4> QED
        BY <1>1, <1>8, <1>9, <4>1, <4>3 DEF LineFine
    <3>2. CASE kind[r] \notin Tunnels
      BY <1>1, <3>2 DEF LineFine
    <3> QED
      BY <3>1, <3>2
  <2> QED
    BY <2>2, <2>3, <2>4 DEF Fine
<1> QED
  BY <1>4, <1>5, <1>7, <1>10, StreamOthers

\* A request that is refused, before or after its entry was made, leaves none.
LEMMA StreamRefused ==
    ASSUME StreamInv, NEW r \in Readers, phase[r] = "idle",
           Reject(r) \/ Refuse(r)
    PROVE  StreamInv'
<1>1. /\ phase' = [phase EXCEPT ![r] = "ended"] /\ how' = [how EXCEPT ![r] = "failed"]
      /\ UNCHANGED <<kind, live, made, asked, sent, conn, first, got, queue, lost>>
      /\ \/ UNCHANGED <<table, ousted>>
         \/ live # 0 /\ Unregister(live, r)
  <2>1. CASE Reject(r)
    BY <2>1 DEF Reject, wireVars, nodeVars
  <2>2. CASE Refuse(r)
    BY <2>2 DEF Refuse, wireVars, nodeVars
  <2> QED
    BY <2>1, <2>2
<1>2. ReaderTyped /\ StreamTyped /\ Fine(r) /\ live \in 0 .. MaxConns
  BY StreamFrames DEF StreamInv, StreamTyped
<1>3. ReaderTyped'
  <2>1. phase' \in [Readers -> Phases] /\ how' \in [Readers -> Endings]
    BY <1>1, <1>2 DEF ReaderTyped, Phases, Endings
  <2> QED
    BY <1>1, <1>2, <2>1 DEF ReaderTyped
<1>4. OnlyHandler(r) /\ asked' \subseteq Readers
  BY <1>1, <1>2 DEF OnlyHandler, Untouched, ReaderTyped, StreamTyped
<1>5. OnlyOusts(r) /\ NoEntry(r)
  <2>1. CASE UNCHANGED <<table, ousted>>
    BY <2>1, StreamNoTable DEF NoEntry
  <2>2. CASE live # 0 /\ Unregister(live, r)
    <3>1. live \in {0} \cup Conn
      BY <1>2, StreamFrames DEF Conn
    <3> QED
      BY <2>2, <3>1, StreamUnregister
  <2> QED
    BY <1>1, <2>1, <2>2
<1>6. phase'[r] = "ended" /\ how'[r] = "failed"
  BY <1>1, <1>2 DEF ReaderTyped
<1>7. Fine(r)'
  <2>1. \A c \in Conn : r \notin table'[c]
    BY <1>2, <1>5 DEF Fine, ReaderFine, NoEntry, Open
  <2>2. first'[r] = 0
    BY <1>1, <1>2 DEF Fine, ReaderFine
  <2>3. ReaderFine(r)'
    BY <1>6, <2>1, <2>2 DEF ReaderFine, Open
  <2>4. WakeFine(r)' /\ LineFine(r)'
    BY <1>6 DEF WakeFine, LineFine, Open
  <2> QED
    BY <2>3, <2>4 DEF Fine
<1> QED
  BY <1>3, <1>4, <1>5, <1>7, StreamOthers

\* The run whose start is refused loses the entry a follower made for it.
LEMMA StreamRunRefused ==
    ASSUME StreamInv, NEW r \in Readers, StartToolRunRefused(r)
    PROVE  StreamInv'
<1>1. /\ live # 0 /\ r \in table[live]
      /\ table' = [table EXCEPT ![live] = @ \ {r}] /\ ousted' = ousted \cup {r}
      /\ UNCHANGED <<kind, live, made, asked, sent, phase, conn, first, got, how, queue, lost>>
  BY DEF StartToolRunRefused, wireVars, nodeVars, readerVars
<1>2. StreamTyped /\ ReaderTyped /\ live \in Conn
  BY <1>1, StreamFrames DEF StreamInv, StreamTyped, Conn
<1>3. \A c \in Conn : table'[c] = IF c = live THEN table[c] \ {r} ELSE table[c]
  BY <1>1, <1>2 DEF StreamTyped
<1>4. ASSUME NEW s \in Readers PROVE Fine(s)'
  <2>1. Untouched(s) /\ Unasked(s) /\ ousted \subseteq ousted'
    BY <1>1 DEF Untouched, Unasked
  <2>2. NoEntry(s) /\ Dropped(s)
    BY <1>1, <1>3 DEF NoEntry, Dropped
  <2> QED
    BY <2>1, <2>2, StreamBystander
<1>5. StreamTyped' /\ ReaderTyped' /\ kind' \in Mixes
  <2>1. table' \in [Conn -> SUBSET Readers] /\ ousted' \subseteq Readers
    BY <1>1, <1>2 DEF StreamTyped
  <2> QED
    BY <1>1, <1>2, <2>1 DEF StreamInv, StreamTyped, ReaderTyped
<1> QED
  BY <1>4, <1>5 DEF StreamInv

\* A handler that goes on: its entry and its connection stay.  An end in its
\* queue is still there, and what is left of the queue continues what it passed on.
LEMMA StreamGoesOn ==
    ASSUME StreamInv, NEW r \in Readers, Open(r),
           UNCHANGED <<kind, live, made, table, asked, sent, conn, how, lost, ousted>>,
           \A s \in Readers \ {r} : Untouched(s),
           ReaderTyped', Open(r)',
           first'[r] # 0 <=> phase'[r] = "head",
           EndIn(r, queue[r]) => EndIn(r, queue'[r]),
           LineFine(r)'
    PROVE  StreamInv'
<1>1. OnlyHandler(r) /\ asked' \subseteq Readers
  BY DEF OnlyHandler, StreamInv, StreamTyped
<1>2. OnlyOusts(r)
  BY StreamNoTable
<1>3. ReaderFine(r) /\ WakeFine(r)
  BY DEF StreamInv, Fine
<1>4. phase'[r] \notin {"idle", "ended"} /\ phase[r] \notin {"idle", "ended"}
  BY DEF Open
<1>5. ReaderFine(r)'
  BY <1>3, <1>4 DEF ReaderFine
<1>6. WakeFine(r)'
  BY <1>3 DEF WakeFine, EndIn, Ends
<1> QED
  BY <1>1, <1>2, <1>5, <1>6, StreamOthers DEF Fine

\* Nothing is waited for in the middle of a handler's step: a reader that goes on
\* has taken one frame from its queue, or none.
LEMMA StreamReadQueue ==
    ASSUME StreamInv, NEW r \in Readers, queue[r] # << >>,
           queue' = [queue EXCEPT ![r] = Tail(@)]
    PROVE  /\ queue[r] \in Seq(Frames) /\ queue'[r] = Tail(queue[r])
           /\ queue' \in [Readers -> Seq(Frames)]
           /\ \A s \in Readers : Len(queue'[s]) <= Buffer
           /\ \A s \in Readers \ {r} : queue'[s] = queue[s]
           /\ ~ Ends(r, queue[r][1])
                 => (EndIn(r, queue[r]) => EndIn(r, queue'[r]))
<1>1. queue \in [Readers -> Seq(Frames)] /\ \A s \in Readers : Len(queue[s]) <= Buffer
  BY DEF StreamInv, ReaderTyped
<1>2. queue[r] \in Seq(Frames) /\ queue'[r] = Tail(queue[r])
      /\ \A s \in Readers \ {r} : queue'[s] = queue[s]
  BY <1>1
<1>3. Tail(queue[r]) \in Seq(Frames) /\ Len(queue[r]) \in Nat
      /\ Len(Tail(queue[r])) = Len(queue[r]) - 1
  BY <1>2, StreamTail
<1>4. queue' \in [Readers -> Seq(Frames)]
  BY <1>1, <1>3
<1>5. ASSUME NEW s \in Readers PROVE Len(queue'[s]) <= Buffer
  BY <1>1, <1>2, <1>3, StreamFrames
<1>6. ASSUME ~ Ends(r, queue[r][1]), EndIn(r, queue[r])
      PROVE  EndIn(r, Tail(queue[r]))
  <2>1. PICK i \in 1 .. Len(queue[r]) :
            Ends(r, queue[r][i])
    BY <1>6 DEF EndIn, Ends
  <2>2. i # 1
    BY <1>6, <2>1
  <2>3. i - 1 \in 1 .. Len(Tail(queue[r])) /\ (i - 1) + 1 = i
    BY <1>3, <2>2
  <2>4. Tail(queue[r])[i - 1] = queue[r][i]
    BY <1>2, <2>3, StreamTail
  <2> QED
    BY <2>1, <2>3, <2>4 DEF EndIn, Ends
<1> QED
  BY <1>2, <1>4, <1>5, <1>6

\* Reading a chunk moves the line by one; reading an end does not move it, and the
\* node feeds nobody who has an end to read.
LEMMA StreamLineRead ==
    ASSUME StreamInv, NEW r \in Readers, queue[r] # << >>, queue'[r] = Tail(queue[r]),
           UNCHANGED <<live, table, asked, sent>>, NEW n \in Nat, LineAt(r, n)
    PROVE  /\ queue[r][1] <= Chunks => queue[r][1] = n + 1 /\ LineAt(r, n + 1)'
           /\ queue[r][1] > Chunks => LineAt(r, n)'
<1> DEFINE q == queue[r]
<1>1. q \in Seq(Frames)
  BY DEF StreamInv, ReaderTyped
<1>2. /\ 1 \in 1 .. Len(q) /\ Len(Tail(q)) = Len(q) - 1 /\ Len(q) \in Nat
      /\ \A i \in 1 .. Len(Tail(q)) : i + 1 \in 1 .. Len(q) /\ Tail(q)[i] = q[i + 1]
  BY <1>1, StreamTail
<1>3. Continues(q, n) /\ (Fed(r) => AllSent(r, n)) /\ (Fed(r)' <=> Fed(r))
  BY DEF LineAt, Fed
<1>4. Continues(Tail(q), n + 1) /\ (q[1] > Chunks => Continues(Tail(q), n))
  BY <1>1, <1>3, StreamTailContinues
<1>5. ASSUME q[1] <= Chunks PROVE q[1] = n + 1 /\ LineAt(r, n + 1)'
  <2>1. q[1] = n + 1
    BY <1>2, <1>3, <1>5 DEF Continues
  <2>2. ASSUME Fed(r)' PROVE AllSent(r, n + 1)'
    <3>1. sent[r] = n + Len(q) /\ \A i \in 1 .. Len(q) : q[i] <= Chunks
      BY <1>3, <2>2 DEF AllSent
    <3>2. sent'[r] = (n + 1) + Len(Tail(q))
      <4>1. sent'[r] = n + Len(q) /\ Len(Tail(q)) = Len(q) - 1 /\ Len(q) \in Nat
        BY <3>1, <1>2
      <4>2. \A l \in Nat : n + l = (n + 1) + (l - 1)
        OBVIOUS
      <4> QED
        BY <4>1, <4>2
    <3>3. \A i \in 1 .. Len(Tail(q)) : Tail(q)[i] <= Chunks
      BY <3>1, <1>2
    <3> QED
      BY <3>2, <3>3 DEF AllSent
  <2>3. Continues(queue[r], n + 1)'
    BY <1>4 DEF Continues
  <2> QED
    BY <2>1, <2>2, <2>3 DEF LineAt
<1>6. ASSUME q[1] > Chunks PROVE LineAt(r, n)'
  <2>1. q[1] \in Frames
    BY <1>1, <1>2
  <2>2. ~ Fed(r)'
    BY <1>2, <1>3, <1>6, <2>1, StreamFrames DEF AllSent, Frames, Gone
  <2>3. Continues(queue[r], n)'
    BY <1>4, <1>6 DEF Continues
  <2> QED
    BY <2>2, <2>3 DEF LineAt
<1> QED
  BY <1>5, <1>6

\* An end that passes nothing on.
LEMMA StreamFinishPlain ==
    ASSUME StreamInv, NEW r \in Readers, phase[r] \in {"wait", "body"},
           NEW h \in {"failed", "cut", "left"}, Finish(r, h),
           UNCHANGED <<kind, wireVars, nodeVars, first, got, lost>>
    PROVE  StreamInv'
<1>1. ReaderTyped /\ ReaderFine(r)
  BY DEF StreamInv, Fine
<1>2. first[r] = 0 /\ Open(r)
  BY <1>1 DEF ReaderFine, Open
<1>3. first' \in [Readers -> 0 .. Chunks] /\ got' \in [Readers -> SUBSET (1 .. Chunks)]
  BY <1>1 DEF ReaderTyped
<1>4. h \in Endings /\ h # "none" /\ h # "whole"
  BY DEF Endings
<1> QED
  BY <1>2, <1>3, <1>4, StreamFinish

LEMMA StreamTimeoutLeave ==
    ASSUME StreamInv, NEW r \in Readers, Timeout(r) \/ Leave(r)
    PROVE  StreamInv'
<1>1. CASE Timeout(r)
  BY <1>1, StreamFinishPlain DEF Timeout, TimedOut
<1>2. CASE Leave(r)
  BY <1>2, StreamFinishPlain DEF Leave
<1> QED
  BY <1>1, <1>2

\* A client that goes too early leaves the entry, marked as such.
LEMMA StreamAbandon ==
    ASSUME StreamInv, NEW r \in Readers, Abandon(r)
    PROVE  StreamInv'
<1>1. /\ phase[r] = "head" /\ phase' = [phase EXCEPT ![r] = "ended"]
      /\ how' = [how EXCEPT ![r] = "abandoned"] /\ conn' = [conn EXCEPT ![r] = 0]
      /\ first' = [first EXCEPT ![r] = 0] /\ queue' = [queue EXCEPT ![r] = << >>]
      /\ UNCHANGED <<kind, live, made, table, asked, sent, got, lost, ousted>>
  BY DEF Abandon, wireVars, nodeVars
<1>2. ReaderTyped /\ StreamTyped /\ ReaderFine(r)
  BY DEF StreamInv, Fine
<1>3. ReaderTyped'
  <2>1. queue' \in [Readers -> Seq(Frames)] /\ \A s \in Readers : Len(queue'[s]) <= Buffer
    BY <1>1, <1>2, StreamFrames DEF ReaderTyped
  <2>2. phase' \in [Readers -> Phases] /\ conn' \in [Readers -> 0 .. MaxConns]
        /\ how' \in [Readers -> Endings] /\ first' \in [Readers -> 0 .. Chunks]
    BY <1>1, <1>2, StreamFrames DEF ReaderTyped, Phases, Endings
  <2> QED
    BY <1>1, <1>2, <2>1, <2>2 DEF ReaderTyped
<1>4. OnlyHandler(r) /\ asked' \subseteq Readers
  BY <1>1, <1>2 DEF OnlyHandler, Untouched, ReaderTyped, StreamTyped
<1>5. OnlyOusts(r)
  BY <1>1, StreamNoTable
<1>6. phase'[r] = "ended" /\ how'[r] = "abandoned" /\ first'[r] = 0
  BY <1>1, <1>2 DEF ReaderTyped
<1>7. ReaderFine(r)'
  BY <1>1, <1>2, <1>6 DEF ReaderFine, Open
<1>8. WakeFine(r)' /\ LineFine(r)'
  BY <1>6 DEF WakeFine, LineFine, Open
<1> QED
  BY <1>3, <1>4, <1>5, <1>7, <1>8, StreamOthers DEF Fine

\* The first frame of a tunnel is its first chunk: the line starts at none.
LEMMA StreamFirst ==
    ASSUME StreamInv, NEW r \in Readers, First(r)
    PROVE  StreamInv'
<1> DEFINE f == Head(queue[r])
<1>1. /\ phase[r] = "wait" /\ queue[r] # << >>
      /\ UNCHANGED <<kind, wireVars, nodeVars, lost>>
      /\ \/ f \in {Fault, Gone} /\ Finish(r, "failed") /\ UNCHANGED <<first, got>>
         \/ /\ f <= Chunks /\ kind[r] \in Calls
            /\ \E h \in {"whole", "failed"} : Finish(r, h)
            /\ got' = [got EXCEPT ![r] = {f}] /\ UNCHANGED first
         \/ /\ f <= Chunks /\ kind[r] \in Tunnels
            /\ phase' = [phase EXCEPT ![r] = "head"] /\ first' = [first EXCEPT ![r] = f]
            /\ queue' = [queue EXCEPT ![r] = Tail(@)]
            /\ UNCHANGED <<table, ousted, conn, got, how>>
  BY DEF First
<1>2. ReaderTyped /\ ReaderFine(r) /\ LineFine(r)
  BY DEF StreamInv, Fine
<1>3. queue[r] \in Seq(Frames) /\ f = queue[r][1] /\ f \in Frames
  BY <1>1, <1>2, StreamTail DEF ReaderTyped
<1>4. first[r] = 0 /\ Open(r) /\ how[r] = "none"
  BY <1>1, <1>2 DEF ReaderFine, Open
<1> HIDE DEF f
<1>5. CASE f \in {Fault, Gone} /\ Finish(r, "failed") /\ UNCHANGED <<first, got>>
  BY <1>1, <1>5, StreamFinishPlain
<1>6. CASE /\ f <= Chunks /\ kind[r] \in Calls
           /\ \E h \in {"whole", "failed"} : Finish(r, h)
           /\ got' = [got EXCEPT ![r] = {f}] /\ UNCHANGED first
  <2>1. PICK h \in {"whole", "failed"} : Finish(r, h)
    BY <1>6
  <2>2. h \in Endings /\ h # "none" /\ kind[r] \notin Tunnels
    BY <1>6 DEF Endings, Calls, Tunnels
  <2>3. f \in 1 .. Chunks
    BY <1>3, <1>6, StreamFrames DEF Frames, Gone
  <2>4. first' \in [Readers -> 0 .. Chunks] /\ got' \in [Readers -> SUBSET (1 .. Chunks)]
        /\ first'[r] = 0 /\ \A s \in Readers \ {r} : first'[s] = first[s] /\ got'[s] = got[s]
    BY <1>2, <1>4, <1>6, <2>3 DEF ReaderTyped
  <2> QED
    BY <1>1, <1>4, <2>1, <2>2, <2>4, StreamFinish
<1>7. CASE /\ f <= Chunks /\ kind[r] \in Tunnels
           /\ phase' = [phase EXCEPT ![r] = "head"] /\ first' = [first EXCEPT ![r] = f]
           /\ queue' = [queue EXCEPT ![r] = Tail(@)]
           /\ UNCHANGED <<table, ousted, conn, got, how>>
  <2>1. UNCHANGED <<kind, live, made, table, asked, sent, conn, got, how, lost, ousted>>
    BY <1>1, <1>7 DEF wireVars, nodeVars
  <2>2. /\ queue'[r] = Tail(queue[r]) /\ queue' \in [Readers -> Seq(Frames)]
        /\ \A s \in Readers : Len(queue'[s]) <= Buffer
        /\ \A s \in Readers \ {r} : queue'[s] = queue[s]
        /\ ~ Ends(r, queue[r][1])
              => (EndIn(r, queue[r]) => EndIn(r, queue'[r]))
    BY <1>1, <1>7, StreamReadQueue
  <2>3. f \in 1 .. Chunks /\ f # Gone /\ kind[r] \notin Calls
    BY <1>3, <1>7, StreamFrames DEF Frames, Gone, Calls, Tunnels
  <2>4. /\ phase'[r] = "head" /\ first'[r] = f
        /\ phase' \in [Readers -> Phases] /\ first' \in [Readers -> 0 .. Chunks]
        /\ \A s \in Readers \ {r} : phase'[s] = phase[s] /\ first'[s] = first[s]
    BY <1>2, <1>7, <2>3 DEF ReaderTyped, Phases
  <2>5. ReaderTyped'
    BY <1>2, <2>1, <2>2, <2>4 DEF ReaderTyped
  <2>6. \A s \in Readers \ {r} : Untouched(s)
    BY <2>1, <2>2, <2>4 DEF Untouched
  <2>7. EndIn(r, queue[r]) => EndIn(r, queue'[r])
    BY <1>3, <2>2, <2>3 DEF Ends
  <2>8. LineFine(r)'
    <3>1. CASE r \in lost
      BY <3>1, <2>1 DEF LineFine
    <3>2. CASE r \notin lost
      <4>1. got[r] = {} /\ LineAt(r, 0)
        BY <1>1, <1>2, <1>7, <3>2 DEF LineFine
      <4>2. queue[r][1] <= Chunks => queue[r][1] = 0 + 1 /\ LineAt(r, 0 + 1)'
        BY <1>1, <2>1, <2>2, <4>1, StreamLineRead
      <4>3. f = 1 /\ LineAt(r, 1)'
        BY <1>3, <1>7, <4>2
      <4> QED
        BY <2>1, <2>4, <4>1, <4>3, <1>4 DEF LineFine
    <3> QED
      BY <3>1, <3>2
  <2>9. Open(r)' /\ (first'[r] # 0 <=> phase'[r] = "head")
    BY <2>3, <2>4 DEF Open
  <2> QED
    BY <1>4, <2>1, <2>5, <2>6, <2>7, <2>8, <2>9, StreamGoesOn
<1> QED
  BY <1>1, <1>5, <1>6, <1>7

\* The body starts with the first chunk.
LEMMA StreamBegin ==
    ASSUME StreamInv, NEW r \in Readers, Begin(r)
    PROVE  StreamInv'
<1>1. /\ phase[r] = "head" /\ got' = [got EXCEPT ![r] = {first[r]}]
      /\ first' = [first EXCEPT ![r] = 0]
      /\ UNCHANGED <<kind, wireVars, nodeVars, lost>>
      /\ \/ first[r] = Chunks /\ Finish(r, "whole")
         \/ /\ phase' = [phase EXCEPT ![r] = "body"]
            /\ UNCHANGED <<table, ousted, conn, how, queue>>
  BY DEF Begin
<1>2. ReaderTyped /\ ReaderFine(r) /\ LineFine(r)
  BY DEF StreamInv, Fine
<1>3. Open(r) /\ first[r] \in 1 .. Chunks /\ how[r] = "none"
  <2>1. first[r] \in 0 .. Chunks /\ first[r] # 0
    BY <1>1, <1>2 DEF ReaderTyped, ReaderFine
  <2> QED
    BY <1>1, <1>2, <2>1, StreamFrames DEF ReaderFine, Open
<1>4. /\ first' \in [Readers -> 0 .. Chunks] /\ got' \in [Readers -> SUBSET (1 .. Chunks)]
      /\ first'[r] = 0 /\ got'[r] = {first[r]}
      /\ \A s \in Readers \ {r} : first'[s] = first[s] /\ got'[s] = got[s]
  BY <1>1, <1>2, <1>3, StreamFrames DEF ReaderTyped
<1>5. kind[r] \in Tunnels /\ r \notin lost => first[r] = 1 /\ LineAt(r, 1)
  BY <1>1, <1>2 DEF LineFine
<1>6. CASE first[r] = Chunks /\ Finish(r, "whole")
  <2>1. kind[r] \in Tunnels /\ r \notin lost => got'[r] = 1 .. Chunks
    BY <1>4, <1>5, <1>6, StreamFrames
  <2>2. "whole" \in Endings
    BY DEF Endings
  <2> QED
    BY <1>1, <1>3, <1>4, <1>6, <2>1, <2>2, StreamFinish
<1>7. CASE /\ phase' = [phase EXCEPT ![r] = "body"]
           /\ UNCHANGED <<table, ousted, conn, how, queue>>
  <2>1. UNCHANGED <<kind, live, made, table, asked, sent, conn, how, lost, ousted, queue>>
    BY <1>1, <1>7 DEF wireVars, nodeVars
  <2>2. /\ phase'[r] = "body" /\ phase' \in [Readers -> Phases]
        /\ \A s \in Readers \ {r} : phase'[s] = phase[s]
    BY <1>2, <1>7 DEF ReaderTyped, Phases
  <2>3. ReaderTyped'
    BY <1>2, <1>4, <2>1, <2>2 DEF ReaderTyped
  <2>4. \A s \in Readers \ {r} : Untouched(s)
    BY <1>4, <2>1, <2>2 DEF Untouched
  <2>5. LineFine(r)'
    <3>1. CASE kind[r] \in Tunnels /\ r \notin lost
      <4>1. got'[r] = 1 .. 1 /\ 1 \in 0 .. Chunks
        BY <1>4, <1>5, <3>1, StreamFrames
      <4>2. LineAt(r, 1)'
        BY <1>5, <2>1, <3>1 DEF LineAt, Continues, Fed, AllSent
      <4> QED
        BY <1>3, <2>1, <2>2, <4>1, <4>2 DEF LineFine
    <3>2. CASE ~ (kind[r] \in Tunnels /\ r \notin lost)
      BY <2>1, <3>2 DEF LineFine
    <3> QED
      BY <3>1, <3>2
  <2>6. Open(r)' /\ (first'[r] # 0 <=> phase'[r] = "head")
    BY <1>4, <2>2 DEF Open
  <2>7. EndIn(r, queue[r]) => EndIn(r, queue'[r])
    BY <2>1
  <2> QED
    BY <1>3, <2>1, <2>3, <2>4, <2>5, <2>6, <2>7, StreamGoesOn
<1> QED
  BY <1>1, <1>6, <1>7

\* A frame of a stream: the next chunk, or an end.
LEMMA StreamReceive ==
    ASSUME StreamInv, NEW r \in Readers, Receive(r)
    PROVE  StreamInv'
<1> DEFINE f == Head(queue[r])
           goesOn == /\ queue' = [queue EXCEPT ![r] = Tail(@)]
                     /\ UNCHANGED <<table, ousted, phase, conn, how>>
<1>1. /\ phase[r] = "body" /\ queue[r] # << >>
      /\ UNCHANGED <<kind, wireVars, nodeVars, first, lost>>
      /\ \/ /\ f <= Chunks /\ got' = [got EXCEPT ![r] = @ \cup {f}]
            /\ IF f = Chunks THEN Finish(r, "whole") ELSE goesOn
         \/ f = Gone /\ Finish(r, "cut") /\ UNCHANGED got
         \/ /\ f = Fault /\ UNCHANGED got
            /\ \/ kind[r] = "proxy" /\ Finish(r, "failed")
               \/ kind[r] = "tunnel" /\ (Finish(r, "cut") \/ goesOn)
  BY DEF Receive
<1>2. ReaderTyped /\ ReaderFine(r) /\ LineFine(r)
  BY DEF StreamInv, Fine
<1>3. queue[r] \in Seq(Frames) /\ f = queue[r][1] /\ f \in Frames
  BY <1>1, <1>2, StreamTail DEF ReaderTyped
<1>4. first[r] = 0 /\ Open(r) /\ how[r] = "none"
  BY <1>1, <1>2 DEF ReaderFine, Open
\* Where the line of a tunnel that lost nothing is after the frame.
<1>5. ASSUME kind[r] \in Tunnels, r \notin lost, queue'[r] = Tail(queue[r]),
             UNCHANGED <<live, table, asked, sent>>,
             NEW g, g = IF f <= Chunks THEN got[r] \cup {f} ELSE got[r]
      PROVE  \E n \in 0 .. Chunks : g = 1 .. n /\ LineAt(r, n)'
  <2>1. PICK n \in 0 .. Chunks : got[r] = 1 .. n /\ LineAt(r, n)
    BY <1>1, <1>2, <1>5 DEF LineFine
  <2>2. n \in Nat /\ f \in Nat
    BY <1>3, <2>1, StreamFrames DEF Frames, Gone
  <2>3. /\ f <= Chunks => f = n + 1 /\ LineAt(r, n + 1)'
        /\ f > Chunks => LineAt(r, n)'
    BY <1>1, <1>3, <1>5, <2>1, <2>2, StreamLineRead
  <2>4. CASE f <= Chunks
    <3>1. g = 1 .. (n + 1) /\ n + 1 \in 0 .. Chunks
      BY <1>5, <2>1, <2>2, <2>3, <2>4, StreamFrames
    <3> QED
      BY <2>3, <2>4, <3>1
  <2>5. CASE f > Chunks
    <3>1. g = 1 .. n
      BY <1>5, <2>1, <2>2, <2>5, StreamFrames
    <3> QED
      BY <2>1, <2>3, <2>5, <3>1
  <2> QED
    BY <2>2, <2>4, <2>5, StreamFrames
<1>6. f <= Chunks => f \in 1 .. Chunks
  BY <1>3, StreamFrames DEF Frames, Gone
<1> HIDE DEF f
\* The last chunk.
<1>7. CASE f = Chunks /\ got' = [got EXCEPT ![r] = @ \cup {f}] /\ Finish(r, "whole")
  <2>1. kind[r] \in Tunnels /\ r \notin lost => got'[r] = 1 .. Chunks
    <3>1. SUFFICES ASSUME kind[r] \in Tunnels, r \notin lost PROVE got'[r] = 1 .. Chunks
      OBVIOUS
    <3>2. PICK n \in 0 .. Chunks : got[r] = 1 .. n /\ LineAt(r, n)
      BY <1>1, <1>2, <3>1 DEF LineFine
    <3>3. f = n + 1
      <4>1. Continues(queue[r], n) /\ 1 \in 1 .. Len(queue[r])
        BY <1>1, <1>3, <3>2, StreamTail DEF LineAt
      <4>2. f = Chunks
        BY <1>7
      <4>3. queue[r][1] <= Chunks
        BY <1>3, <4>2, StreamFrames
      <4> QED
        BY <1>3, <4>1, <4>3 DEF Continues
    <3>4. got'[r] = got[r] \cup {f}
      BY <1>2, <1>7 DEF ReaderTyped
    <3>5. 1 .. (n + 1) = 1 .. n \cup {n + 1} /\ n + 1 = Chunks
      <4>1. f = Chunks
        BY <1>7
      <4> QED
        BY <3>2, <3>3, <4>1, StreamFrames
    <3> QED
      BY <3>2, <3>3, <3>4, <3>5
  <2>2. /\ first' \in [Readers -> 0 .. Chunks] /\ first'[r] = 0
        /\ got' \in [Readers -> SUBSET (1 .. Chunks)]
        /\ \A s \in Readers \ {r} : first'[s] = first[s] /\ got'[s] = got[s]
    BY <1>1, <1>2, <1>4, <1>6, <1>7, StreamFrames DEF ReaderTyped
  <2>3. "whole" \in Endings
    BY DEF Endings
  <2> QED
    BY <1>1, <1>4, <1>7, <2>1, <2>2, <2>3, StreamFinish
\* An end that passes nothing on.
<1>8. CASE UNCHANGED got /\ (Finish(r, "cut") \/ Finish(r, "failed"))
  BY <1>1, <1>8, StreamFinishPlain
\* Anything else is passed on, or skipped.
<1>9. CASE /\ goesOn
           /\ \/ f <= Chunks /\ f # Chunks /\ got' = [got EXCEPT ![r] = @ \cup {f}]
              \/ f = Fault /\ UNCHANGED got /\ kind[r] = "tunnel"
  <2>1. UNCHANGED <<kind, live, made, table, asked, sent, conn, how, lost, ousted,
                    phase, first>>
    BY <1>1, <1>9 DEF wireVars, nodeVars
  <2>2. /\ queue'[r] = Tail(queue[r]) /\ queue' \in [Readers -> Seq(Frames)]
        /\ \A s \in Readers : Len(queue'[s]) <= Buffer
        /\ \A s \in Readers \ {r} : queue'[s] = queue[s]
        /\ ~ Ends(r, queue[r][1])
              => (EndIn(r, queue[r]) => EndIn(r, queue'[r]))
    BY <1>1, <1>9, StreamReadQueue
  <2>3. f # Gone /\ f # Chunks /\ f \in Nat
    BY <1>3, <1>9, StreamFrames DEF Frames, Gone
  <2>4. /\ got'[r] = IF f <= Chunks THEN got[r] \cup {f} ELSE got[r]
        /\ got' \in [Readers -> SUBSET (1 .. Chunks)]
        /\ \A s \in Readers \ {r} : got'[s] = got[s]
    <3>1. CASE f <= Chunks
      <4>1. got' = [got EXCEPT ![r] = @ \cup {f}]
        BY <1>9, <3>1, StreamFrames
      <4> QED
        BY <1>2, <1>6, <3>1, <4>1 DEF ReaderTyped
    <3>2. CASE ~ (f <= Chunks)
      <4>1. got' = got
        BY <1>9, <3>2
      <4> QED
        BY <1>2, <3>2, <4>1 DEF ReaderTyped
    <3> QED
      BY <3>1, <3>2
  <2>5. ReaderTyped'
    BY <1>2, <2>1, <2>2, <2>4 DEF ReaderTyped
  <2>6. \A s \in Readers \ {r} : Untouched(s)
    BY <2>1, <2>2, <2>4 DEF Untouched
  <2>7. EndIn(r, queue[r]) => EndIn(r, queue'[r])
    BY <1>3, <2>2, <2>3 DEF Ends
  <2>8. LineFine(r)'
    <3>1. CASE kind[r] \in Tunnels /\ r \notin lost
      <4>1. \E n \in 0 .. Chunks : got'[r] = 1 .. n /\ LineAt(r, n)'
        BY <1>5, <2>1, <2>2, <2>4, <3>1
      <4>2. phase'[r] = "body" /\ how'[r] = "none"
        BY <1>1, <1>4, <2>1
      <4> QED
        BY <4>1, <4>2 DEF LineFine
    <3>2. CASE ~ (kind[r] \in Tunnels /\ r \notin lost)
      BY <2>1, <3>2 DEF LineFine
    <3> QED
      BY <3>1, <3>2
  <2>9. Open(r)' /\ (first'[r] # 0 <=> phase'[r] = "head")
    BY <1>1, <1>4, <2>1 DEF Open
  <2> QED
    BY <1>4, <2>1, <2>5, <2>6, <2>7, <2>8, <2>9, StreamGoesOn
<1> QED
  BY <1>1, <1>7, <1>8, <1>9

(***************************************************************************)
(* What the stream loop delivers.                                          *)
(***************************************************************************)

\* A frame reaches the end of a queue, or the reader is marked: an end that is
\* delivered is there, or the reader lost it, and an end that was there stays.
LEMMA StreamPut ==
    ASSUME StreamInv, NEW to \in SUBSET Readers, NEW f \in Frames,
           queue' = Put(to, f), lost' = lost \cup Overrun(to), kind' = kind
    PROVE  /\ queue' \in [Readers -> Seq(Frames)]
           /\ \A s \in Readers : Len(queue'[s]) <= Buffer
           /\ lost \subseteq lost' /\ lost' \subseteq Readers
           /\ \A s \in Readers :
                 /\ \/ s \in to /\ queue'[s] = Append(queue[s], f)
                    \/ s \in to /\ s \in lost' /\ queue'[s] = queue[s]
                    \/ s \notin to /\ queue'[s] = queue[s]
                 /\ EndIn(s, queue[s]) => EndIn(s, queue[s])'
                 /\ s \in to /\ Ends(s, f) => EndIn(s, queue[s])' \/ s \in lost'
<1>1. /\ queue \in [Readers -> Seq(Frames)] /\ \A s \in Readers : Len(queue[s]) <= Buffer
      /\ lost \subseteq Readers
  BY DEF StreamInv, StreamTyped, ReaderTyped
<1>2. \A s \in Readers :
          queue'[s] = IF s \in to /\ Len(queue[s]) < Buffer
                        THEN Append(queue[s], f) ELSE queue[s]
  BY DEF Put
<1>3. lost \subseteq lost' /\ lost' \subseteq Readers
      /\ \A s \in to : Len(queue[s]) >= Buffer => s \in lost'
  BY <1>1 DEF Overrun
<1>4. ASSUME NEW s \in Readers
      PROVE  /\ queue'[s] \in Seq(Frames) /\ Len(queue'[s]) <= Buffer
             /\ \/ s \in to /\ queue'[s] = Append(queue[s], f)
                \/ s \in to /\ s \in lost' /\ queue'[s] = queue[s]
                \/ s \notin to /\ queue'[s] = queue[s]
             /\ EndIn(s, queue[s]) => EndIn(s, queue[s])'
             /\ s \in to /\ Ends(s, f) => EndIn(s, queue[s])' \/ s \in lost'
  <2>1. queue[s] \in Seq(Frames) /\ Len(queue[s]) \in Nat /\ Len(queue[s]) <= Buffer
    BY <1>1
  <2>2. CASE s \in to /\ Len(queue[s]) < Buffer
    <3>1. queue'[s] = Append(queue[s], f)
      BY <1>2, <2>2
    <3>2. /\ Append(queue[s], f) \in Seq(Frames)
          /\ Len(Append(queue[s], f)) = Len(queue[s]) + 1
          /\ \A i \in 1 .. Len(queue[s]) : Append(queue[s], f)[i] = queue[s][i]
          /\ Append(queue[s], f)[Len(queue[s]) + 1] = f
      BY <2>1, StreamAppend
    <3>3. Len(queue'[s]) <= Buffer
      BY <2>1, <2>2, <3>1, <3>2, StreamFrames
    <3>4. EndIn(s, queue[s]) => EndIn(s, queue[s])'
      <4>1. \A i \in 1 .. Len(queue[s]) :
                i \in 1 .. Len(queue'[s]) /\ queue'[s][i] = queue[s][i]
        BY <2>1, <3>1, <3>2
      <4> QED
        BY <4>1 DEF EndIn, Ends
    <3>5. Ends(s, f) => EndIn(s, queue[s])'
      <4>1. Len(queue[s]) + 1 \in 1 .. Len(queue'[s]) /\ queue'[s][Len(queue[s]) + 1] = f
        BY <2>1, <3>1, <3>2
      <4> QED
        BY <4>1 DEF EndIn, Ends
    <3> QED
      BY <2>2, <3>1, <3>2, <3>3, <3>4, <3>5
  <2>3. CASE ~ (s \in to /\ Len(queue[s]) < Buffer)
    <3>1. queue'[s] = queue[s]
      BY <1>2, <2>3
    <3>2. EndIn(s, queue[s]) => EndIn(s, queue[s])'
      BY <3>1 DEF EndIn, Ends
    <3>3. s \in to => s \in lost'
      BY <1>3, <2>1, <2>3, StreamFrames
    <3> QED
      BY <2>1, <3>1, <3>2, <3>3
  <2> QED
    BY <2>2, <2>3
<1>5. queue' \in [Readers -> Seq(Frames)]
  BY <1>4 DEF Put
<1> QED
  BY <1>3, <1>4, <1>5

\* The end of a connection: whoever reads from it has its end in the queue or
\* lost it, and nothing but sessions is registered where no lookup finds it.
LEMMA StreamCut ==
    ASSUME StreamInv, UNCHANGED <<kind, nodeVars, readerVars, ousted>>,
           made' \in 0 .. MaxConns, live' \in {0, made'},
           \/ live = 0 /\ UNCHANGED <<table, queue, lost>>
           \/ live # 0 /\ Close(live)
    PROVE  StreamInv'
<1> DEFINE woken == {r \in table[live] : kind[r] # "session"}
<1>1. StreamTyped /\ ReaderTyped /\ \A s \in Readers : Fine(s)
  BY DEF StreamInv
<1>2. live \in 0 .. MaxConns /\ (live # 0 => live \in Conn) /\ (live = 0 => live \notin Conn)
  BY <1>1, StreamFrames DEF StreamTyped, Conn
<1>3. /\ table' \in [Conn -> SUBSET Readers]
      /\ \A c \in Conn : table'[c] = {s \in table[c] : c # live \/ kind[s] = "session"}
  <2>1. CASE live = 0 /\ UNCHANGED <<table, queue, lost>>
    BY <1>1, <1>2, <2>1 DEF StreamTyped
  <2>2. CASE live # 0 /\ Close(live)
    <3>1. table' = [table EXCEPT ![live] = @ \ woken]
      BY <2>2 DEF Close
    <3> QED
      BY <1>1, <1>2, <2>2, <3>1 DEF StreamTyped
  <2> QED
    BY <2>1, <2>2
\* What each reader hears.
<1>4. /\ queue' \in [Readers -> Seq(Frames)] /\ \A s \in Readers : Len(queue'[s]) <= Buffer
      /\ lost \subseteq lost' /\ lost' \subseteq Readers
      /\ \A s \in Readers :
            /\ \/ live # 0 /\ s \in woken /\ queue'[s] = Append(queue[s], Gone)
               \/ live # 0 /\ s \in woken /\ s \in lost' /\ queue'[s] = queue[s]
               \/ (live = 0 \/ s \notin woken) /\ queue'[s] = queue[s]
            /\ EndIn(s, queue[s]) => EndIn(s, queue[s])'
            /\ live # 0 /\ s \in woken => EndIn(s, queue[s])' \/ s \in lost'
  <2>1. CASE live = 0 /\ UNCHANGED <<table, queue, lost>>
    BY <1>1, <2>1 DEF StreamTyped, ReaderTyped, EndIn, Ends
  <2>2. CASE live # 0 /\ Close(live)
    <3>1. queue' = Put(woken, Gone) /\ lost' = lost \cup Overrun(woken) /\ kind' = kind
      BY <2>2 DEF Close
    <3>2. woken \in SUBSET Readers /\ Gone \in Frames
      BY <1>1, <1>2, <2>2, StreamFrames DEF StreamTyped
    <3> HIDE DEF woken
    <3>3. /\ queue' \in [Readers -> Seq(Frames)] /\ \A s \in Readers : Len(queue'[s]) <= Buffer
          /\ lost \subseteq lost' /\ lost' \subseteq Readers
          /\ \A s \in Readers :
                /\ \/ s \in woken /\ queue'[s] = Append(queue[s], Gone)
                   \/ s \in woken /\ s \in lost' /\ queue'[s] = queue[s]
                   \/ s \notin woken /\ queue'[s] = queue[s]
                /\ EndIn(s, queue[s]) => EndIn(s, queue[s])'
                /\ s \in woken /\ Ends(s, Gone) => EndIn(s, queue[s])' \/ s \in lost'
      BY <3>1, <3>2, StreamPut, Zenon
    <3>4. \A s \in Readers : Ends(s, Gone)
      BY DEF Ends
    <3> QED
      BY <2>2, <3>3, <3>4
  <2> QED
    BY <2>1, <2>2
<1>5. /\ kind' = kind /\ sent' = sent /\ asked' = asked /\ phase' = phase /\ conn' = conn
      /\ first' = first /\ got' = got /\ how' = how /\ ousted' = ousted
  BY DEF nodeVars, readerVars
<1>6. ASSUME NEW s \in Readers PROVE Fine(s)'
  <2>1. ReaderFine(s) /\ WakeFine(s) /\ LineFine(s)
    BY <1>1 DEF Fine
  <2>2. ASSUME NEW c \in Conn, s \in table'[c]
        PROVE  s \in table[c] /\ kind[s] = "session"
    <3>1. s \in table[c] /\ (c # live \/ kind[s] = "session")
      BY <1>3, <2>2
    <3> QED
      BY <2>1, <3>1 DEF ReaderFine
  <2>3. ReaderFine(s)'
    <3>1. phase[s] = "idle" => queue'[s] = << >>
      <4>1. SUFFICES ASSUME phase[s] = "idle" PROVE queue'[s] = << >>
        OBVIOUS
      <4>2. live # 0 => s \notin table[live]
        BY <1>2, <2>1, <4>1 DEF ReaderFine, Open
      <4>3. queue'[s] = queue[s]
        BY <1>4, <4>2
      <4> QED
        BY <2>1, <4>1, <4>3 DEF ReaderFine
    <3> QED
      BY <1>5, <2>1, <2>2, <3>1 DEF ReaderFine, Open
  <2>4. WakeFine(s)'
    <3>1. SUFFICES ASSUME Open(s), kind[s] # "session"
                   PROVE  EndIn(s, queue[s])' \/ s \in lost' \cup ousted'
      BY <1>5 DEF WakeFine, Open
    <3>2. CASE live # 0 /\ s \in table[live]
      BY <1>4, <3>1, <3>2
    <3>3. CASE ~ (live # 0 /\ s \in table[live])
      BY <1>4, <1>5, <2>1, <3>1, <3>3 DEF WakeFine
    <3> QED
      BY <3>2, <3>3
  <2>5. LineFine(s)'
    <3>1. CASE kind[s] \notin Tunnels \/ s \in lost'
      BY <1>5, <3>1 DEF LineFine
    <3>2. CASE kind[s] \in Tunnels /\ s \notin lost'
      <4>1. ~ Fed(s)'
        <5>1. \A c \in Conn : s \notin table'[c]
          BY <2>2, <3>2 DEF Tunnels
        <5>2. live' # 0 => live' \in Conn
          BY StreamFrames DEF Conn
        <5> QED
          BY <5>1, <5>2 DEF Fed
      <4>2. ASSUME NEW n \in Nat, LineAt(s, n) PROVE LineAt(s, n)'
        <5>1. queue[s] \in Seq(Frames) /\ Continues(queue[s], n)
          BY <1>1, <4>2 DEF ReaderTyped, LineAt
        <5>2. Continues(Append(queue[s], Gone), n)
          BY <5>1, StreamFrames, StreamAppendContinues
        <5>3. queue'[s] = queue[s] \/ queue'[s] = Append(queue[s], Gone)
          BY <1>4
        <5>4. Continues(queue'[s], n)
          BY <5>1, <5>2, <5>3
        <5> QED
          BY <4>1, <5>4 DEF LineAt, Continues
      <4>3. s \notin lost /\ 0 \in Nat /\ 1 \in Nat /\ \A n \in 0 .. Chunks : n \in Nat
        BY <1>4, <3>2, StreamFrames
      <4> QED
        BY <1>5, <2>1, <3>2, <4>2, <4>3 DEF LineFine
    <3> QED
      BY <3>1, <3>2
  <2> QED
    BY <2>3, <2>4, <2>5 DEF Fine
<1>7. StreamTyped'
  BY <1>1, <1>3, <1>4, <1>5 DEF StreamTyped
<1>8. ReaderTyped' /\ kind' \in Mixes
  BY <1>1, <1>4, <1>5 DEF ReaderTyped, StreamInv
<1> QED
  BY <1>6, <1>7, <1>8 DEF StreamInv

LEMMA StreamConnections ==
    ASSUME StreamInv, Connect \/ Disconnect
    PROVE  StreamInv'
<1>1. StreamTyped
  BY DEF StreamInv
<1>2. CASE Connect
  <2>1. /\ made < MaxConns /\ made' = made + 1 /\ live' = made'
        /\ UNCHANGED <<kind, nodeVars, readerVars, ousted>>
        /\ IF live = 0 THEN UNCHANGED <<table, queue, lost>> ELSE Close(live)
    BY <1>2 DEF Connect
  <2>2. made' \in 0 .. MaxConns /\ live' \in {0, made'}
    BY <1>1, <2>1, StreamFrames DEF StreamTyped
  <2> QED
    BY <2>1, <2>2, StreamCut
<1>3. CASE Disconnect
  <2>1. /\ live # 0 /\ live' = 0 /\ made' = made /\ Close(live)
        /\ UNCHANGED <<kind, nodeVars, readerVars, ousted>>
    BY <1>3 DEF Disconnect
  <2>2. made' \in 0 .. MaxConns /\ live' \in {0, made'}
    BY <1>1, <2>1 DEF StreamTyped
  <2> QED
    BY <2>1, <2>2, StreamCut
<1> QED
  BY <1>2, <1>3

\* The readers of f's key hear it; a tunnel hears the next chunk, an error that
\* ends its response, or nothing; a call that is answered loses its entry.
LEMMA StreamDelivered ==
    ASSUME StreamInv, live # 0, NEW f \in Frames, NEW to \in SUBSET table[live],
           UNCHANGED <<kind, wireVars, readerVars, ousted>>,
           queue' = Put(to, f), lost' = lost \cup Overrun(to),
           table' = [table EXCEPT ![live] = @ \ {s \in to : kind[s] \in Calls}],
           asked' \in SUBSET Readers, sent' \in [Readers -> 0 .. Chunks],
           \A s \in to : kind[s] \in Calls => f = Chunks,
           \A s \in Readers : kind[s] \in Tunnels =>
              \/ s \notin to /\ sent'[s] = sent[s] /\ (s \in asked' <=> s \in asked)
              \/ /\ s \in asked /\ f = sent[s] + 1 /\ f <= Chunks /\ sent'[s] = f
                 /\ s \in table[live] => s \in to
              \/ s \in asked /\ s \notin asked' /\ f = Fault
    PROVE  StreamInv'
<1>1. StreamTyped /\ ReaderTyped /\ \A s \in Readers : Fine(s)
  BY DEF StreamInv
<1>2. live \in Conn /\ to \in SUBSET Readers
  BY <1>1, StreamFrames DEF StreamTyped, Conn
<1>3. /\ table' \in [Conn -> SUBSET Readers]
      /\ \A c \in Conn :
            table'[c] = {s \in table[c] : ~ (c = live /\ s \in to /\ kind[s] \in Calls)}
  BY <1>1, <1>2 DEF StreamTyped
<1>4. kind' = kind
  OBVIOUS
<1>5. /\ queue' \in [Readers -> Seq(Frames)] /\ \A s \in Readers : Len(queue'[s]) <= Buffer
      /\ lost \subseteq lost' /\ lost' \subseteq Readers
      /\ \A s \in Readers :
            /\ \/ s \in to /\ queue'[s] = Append(queue[s], f)
               \/ s \in to /\ s \in lost' /\ queue'[s] = queue[s]
               \/ s \notin to /\ queue'[s] = queue[s]
            /\ EndIn(s, queue[s]) => EndIn(s, queue[s])'
            /\ s \in to /\ Ends(s, f) => EndIn(s, queue[s])' \/ s \in lost'
  BY <1>2, <1>4, StreamPut, Zenon
<1>6. /\ live' = live /\ made' = made /\ phase' = phase /\ conn' = conn
      /\ first' = first /\ got' = got /\ how' = how /\ ousted' = ousted
  BY DEF wireVars, readerVars
<1>7. ASSUME NEW s \in Readers PROVE Fine(s)'
  <2>1. ReaderFine(s) /\ WakeFine(s) /\ LineFine(s)
    BY <1>1 DEF Fine
  <2>2. phase[s] = "idle" => s \notin table[live]
    BY <1>2, <2>1 DEF ReaderFine, Open
  <2>3. \A c \in Conn : s \in table'[c] => s \in table[c]
    BY <1>3
  <2>4. ReaderFine(s)'
    <3>1. phase[s] = "idle" =>
              queue'[s] = queue[s] /\ (kind[s] \in Tunnels => sent'[s] = 0 /\ s \notin asked')
      BY <1>5, <2>1, <2>2 DEF ReaderFine
    <3> QED
      BY <1>4, <1>6, <2>1, <2>3, <3>1 DEF ReaderFine, Open
  <2>5. WakeFine(s)'
    <3>1. SUFFICES ASSUME Open(s), kind[s] # "session"
                   PROVE  \/ live # 0 /\ conn[s] = live /\ s \in table'[live]
                          \/ EndIn(s, queue[s])' \/ s \in lost' \cup ousted'
      BY <1>4, <1>6 DEF WakeFine, Open
    <3>2. CASE s \in to /\ kind[s] \in Calls
      <4>1. Ends(s, f)
        BY <3>2 DEF Ends
      <4> QED
        BY <1>5, <3>2, <4>1
    <3>3. CASE ~ (s \in to /\ kind[s] \in Calls)
      <4>1. s \in table[live] => s \in table'[live]
        BY <1>2, <1>3, <3>3
      <4> QED
        BY <1>5, <1>6, <2>1, <3>1, <4>1 DEF WakeFine
    <3> QED
      BY <3>2, <3>3
  <2>6. LineFine(s)'
    <3>1. CASE kind[s] \notin Tunnels \/ s \in lost'
      BY <1>4, <3>1 DEF LineFine
    <3>2. CASE kind[s] \in Tunnels /\ s \notin lost'
      <4>1. Fed(s)' => s \in table[live] /\ s \in asked'
        BY <1>2, <1>6, <2>3 DEF Fed
      <4>2. queue'[s] = (IF s \in to THEN Append(queue[s], f) ELSE queue[s])
        BY <1>5, <3>2
      <4>3. queue[s] \in Seq(Frames)
        BY <1>1 DEF ReaderTyped
      <4>4. ASSUME NEW n \in Nat, LineAt(s, n) PROVE LineAt(s, n)'
        <5>1. Continues(queue[s], n) /\ (Fed(s) => AllSent(s, n))
          BY <4>4 DEF LineAt
        <5>2. CASE s \notin to /\ sent'[s] = sent[s] /\ (s \in asked' <=> s \in asked)
          <6>1. Fed(s)' => Fed(s)
            BY <4>1, <5>2 DEF Fed
          <6>2. queue'[s] = queue[s] /\ sent'[s] = sent[s]
            BY <4>2, <5>2
          <6> QED
            BY <5>1, <6>1, <6>2 DEF LineAt, Continues, AllSent
        <5>3. CASE /\ s \in asked /\ f = sent[s] + 1 /\ f <= Chunks /\ sent'[s] = f
                   /\ s \in table[live] => s \in to
          <6>1. CASE s \in to
            <7>1. AllSent(s, n)
              BY <5>1, <5>3, <6>1 DEF Fed
            <7>2. /\ queue'[s] = Append(queue[s], f) /\ Len(queue'[s]) = Len(queue[s]) + 1
                  /\ \A i \in 1 .. Len(queue[s]) : queue'[s][i] = queue[s][i]
                  /\ queue'[s][Len(queue[s]) + 1] = f /\ Len(queue[s]) \in Nat
              BY <4>2, <4>3, <6>1, StreamAppend
            <7>3. f = n + Len(queue[s]) + 1
              BY <5>3, <7>1, <7>2 DEF AllSent
            <7>4. Continues(queue'[s], n)
              BY <4>3, <5>1, <7>1, <7>2, <7>3, StreamAppendContinues DEF AllSent
            <7>5. AllSent(s, n)'
              <8>1. sent'[s] = n + Len(queue'[s])
                <9>1. sent'[s] = n + Len(queue[s]) + 1
                  BY <5>3, <7>3
                <9>2. Len(queue'[s]) = Len(queue[s]) + 1 /\ Len(queue[s]) \in Nat
                  BY <7>2
                <9> QED
                  BY <9>1, <9>2
              <8>2. \A i \in 1 .. Len(queue'[s]) : queue'[s][i] <= Chunks
                <9>1. \A i \in 1 .. Len(queue'[s]) :
                          i \in 1 .. Len(queue[s]) \/ i = Len(queue[s]) + 1
                  BY <7>2
                <9>2. \A i \in 1 .. Len(queue[s]) : queue[s][i] <= Chunks
                  BY <7>1 DEF AllSent
                <9> QED
                  BY <5>3, <7>2, <9>1, <9>2
              <8> QED
                BY <8>1, <8>2 DEF AllSent
            <7> QED
              BY <7>4, <7>5 DEF LineAt, Continues
          <6>2. CASE s \notin to
            <7>1. ~ Fed(s)' /\ queue'[s] = queue[s]
              BY <4>1, <4>2, <5>3, <6>2
            <7> QED
              BY <5>1, <7>1 DEF LineAt, Continues
          <6> QED
            BY <6>1, <6>2
        <5>4. CASE s \in asked /\ s \notin asked' /\ f = Fault
          <6>1. ~ Fed(s)'
            BY <4>1, <5>4
          <6>2. Continues(Append(queue[s], f), n)
            BY <4>3, <5>1, <5>4, StreamFrames, StreamAppendContinues
          <6>3. Continues(queue'[s], n)
            BY <4>2, <5>1, <6>2
          <6> QED
            BY <6>1, <6>3 DEF LineAt, Continues
        <5> QED
          BY <3>2, <5>2, <5>3, <5>4
      <4>5. s \notin lost /\ 0 \in Nat /\ 1 \in Nat /\ \A n \in 0 .. Chunks : n \in Nat
        BY <1>5, <3>2, StreamFrames
      <4> QED
        BY <1>4, <1>6, <2>1, <3>2, <4>4, <4>5 DEF LineFine
    <3> QED
      BY <3>1, <3>2
  <2> QED
    BY <2>4, <2>5, <2>6 DEF Fine
<1>8. StreamTyped'
  BY <1>1, <1>3, <1>4, <1>5, <1>6 DEF StreamTyped
<1>9. ReaderTyped' /\ kind' \in Mixes
  BY <1>1, <1>4, <1>5, <1>6 DEF ReaderTyped, StreamInv
<1> QED
  BY <1>7, <1>8, <1>9 DEF StreamInv

LEMMA StreamNode ==
    ASSUME StreamInv, NEW r \in Readers, NodeSends(r) \/ NodeAnswers(r) \/ NodeFails(r)
    PROVE  StreamInv'
<1> DEFINE to == {s \in table[live] : SameKey(r, s)}
<1>1. StreamTyped
  BY DEF StreamInv
<1>2. /\ live # 0 => table[live] \subseteq Readers
      /\ asked \in SUBSET Readers /\ sent \in [Readers -> 0 .. Chunks]
  BY <1>1, StreamFrames DEF StreamTyped, Conn
<1>3. to \in SUBSET table[live]
  OBVIOUS
<1>4. \A s \in to : kind[s] = kind[r]
  BY DEF SameKey
<1>5. \A s \in Readers : kind[s] \in Tunnels /\ SameKey(r, s) => s = r
  BY DEF SameKey, Tunnels, Shared
<1>6. SameKey(r, r)
  BY DEF SameKey
<1>7. CASE NodeSends(r)
  <2>1. /\ live # 0 /\ (kind[r] \in Tunnels => r \in asked) /\ kind[r] \notin Calls
        /\ sent[r] < Chunks
        /\ sent' = [s \in Readers |-> IF SameKey(r, s) THEN sent[r] + 1 ELSE sent[s]]
        /\ Deliver(r, sent[r] + 1)
        /\ asked' = asked /\ UNCHANGED <<kind, wireVars, readerVars, ousted>>
    BY <1>7 DEF NodeSends
  <2> DEFINE f == sent[r] + 1
  <2>2. f \in 1 .. Chunks /\ f \in Frames /\ f <= Chunks
    BY <1>2, <2>1, StreamFrames
  <2>3. sent' \in [Readers -> 0 .. Chunks]
    BY <1>2, <2>1, <2>2, StreamFrames
  <2>4. /\ queue' = Put(to, f) /\ lost' = lost \cup Overrun(to)
        /\ table' = [table EXCEPT ![live] = @ \ {s \in to : kind[s] \in Calls}]
    BY <2>1 DEF Deliver
  <2>5. ASSUME NEW s \in Readers, kind[s] \in Tunnels
        PROVE  \/ s \notin to /\ sent'[s] = sent[s] /\ (s \in asked' <=> s \in asked)
               \/ /\ s \in asked /\ f = sent[s] + 1 /\ f <= Chunks /\ sent'[s] = f
                  /\ s \in table[live] => s \in to
    BY <1>5, <1>6, <2>1, <2>2, <2>5
  <2>6. asked' \in SUBSET Readers /\ \A s \in to : kind[s] \in Calls => f = Chunks
    BY <1>2, <1>4, <2>1
  <2> HIDE DEF f, to
  <2> QED
    BY <1>3, <2>1, <2>2, <2>3, <2>4, <2>5, <2>6, StreamDelivered
<1>8. CASE NodeAnswers(r)
  <2>1. /\ live # 0 /\ kind[r] \in Calls /\ asked' = asked \ {r} /\ sent' = sent
        /\ Deliver(r, Chunks) /\ UNCHANGED <<kind, wireVars, readerVars, ousted>>
    BY <1>8 DEF NodeAnswers
  <2>2. Chunks \in Frames
    BY StreamFrames
  <2>3. /\ queue' = Put(to, Chunks) /\ lost' = lost \cup Overrun(to)
        /\ table' = [table EXCEPT ![live] = @ \ {s \in to : kind[s] \in Calls}]
    BY <2>1 DEF Deliver
  <2>4. ASSUME NEW s \in Readers, kind[s] \in Tunnels
        PROVE  s \notin to /\ sent'[s] = sent[s] /\ (s \in asked' <=> s \in asked)
    <3>1. kind[s] # kind[r]
      BY <2>1, <2>4 DEF Calls, Tunnels
    <3> QED
      BY <1>4, <2>1, <3>1
  <2>5. asked' \in SUBSET Readers /\ sent' \in [Readers -> 0 .. Chunks]
    BY <1>2, <2>1
  <2> HIDE DEF to
  <2> QED
    BY <1>3, <2>1, <2>2, <2>3, <2>4, <2>5, StreamDelivered
<1>9. CASE NodeFails(r)
  <2>1. /\ live # 0 /\ kind[r] \in Tunnels /\ r \in asked /\ asked' = asked \ {r}
        /\ sent' = sent /\ Deliver(r, Fault)
        /\ UNCHANGED <<kind, wireVars, readerVars, ousted>>
    BY <1>9 DEF NodeFails
  <2>2. Fault \in Frames
    BY StreamFrames
  <2>3. /\ queue' = Put(to, Fault) /\ lost' = lost \cup Overrun(to)
        /\ table' = [table EXCEPT ![live] = @ \ {s \in to : kind[s] \in Calls}]
    BY <2>1 DEF Deliver
  <2>4. ASSUME NEW s \in Readers, kind[s] \in Tunnels
        PROVE  \/ s \notin to /\ sent'[s] = sent[s] /\ (s \in asked' <=> s \in asked)
               \/ s \in asked /\ s \notin asked'
    BY <1>5, <2>1, <2>4
  <2>5. asked' \in SUBSET Readers /\ sent' \in [Readers -> 0 .. Chunks]
    BY <1>2, <2>1
  <2>6. \A s \in to : kind[s] \notin Calls
    BY <1>4, <2>1 DEF Calls, Tunnels
  <2> HIDE DEF to
  <2> QED
    BY <1>3, <2>1, <2>2, <2>3, <2>4, <2>5, <2>6, StreamDelivered
<1> QED
  BY <1>7, <1>8, <1>9

(***************************************************************************)
(* The theorems.                                                           *)
(***************************************************************************)

LEMMA StreamStarting ==
    ASSUME StreamInv, NEW r \in Readers, Starting(r)
    PROVE  StreamInv'
<1>1. CASE \E k \in Followers : Starts(r, k) /\ (Reject(r) \/ Follow(r))
  <2>1. PICK k \in Followers : Starts(r, k) /\ (Reject(r) \/ Follow(r))
    BY <1>1
  <2>2. kind[r] \in Followers /\ phase[r] = "idle"
    BY <2>1 DEF Starts
  <2>3. CASE Reject(r)
    BY <2>2, <2>3, StreamRefused
  <2>4. CASE Follow(r)
    <3>1. Start(r, "body") /\ UNCHANGED sent /\ UNCHANGED asked
      BY <2>4 DEF Follow, nodeVars
    <3> QED
      BY <2>2, <3>1, StreamStarts
  <2> QED
    BY <2>1, <2>3, <2>4
<1>2. CASE \E k \in Tunnels \cup Calls : Starts(r, k) /\ (Reject(r) \/ Refuse(r) \/ Ask(r))
  <2>1. PICK k \in Tunnels \cup Calls :
            Starts(r, k) /\ (Reject(r) \/ Refuse(r) \/ Ask(r))
    BY <1>2
  <2>2. phase[r] = "idle"
    BY <2>1 DEF Starts
  <2>3. CASE Reject(r) \/ Refuse(r)
    BY <2>2, <2>3, StreamRefused
  <2>4. CASE Ask(r)
    <3>1. Start(r, "wait") /\ UNCHANGED sent /\ asked' = asked \cup {r}
      BY <2>4 DEF Ask
    <3> QED
      BY <2>2, <3>1, StreamStarts
  <2> QED
    BY <2>1, <2>3, <2>4
<1>3. \/ \E k \in Followers : Starts(r, k) /\ (Reject(r) \/ Follow(r))
      \/ \E k \in Tunnels \cup Calls : Starts(r, k) /\ (Reject(r) \/ Refuse(r) \/ Ask(r))
  BY DEF Starting, FollowSession, FollowSessionJson, FollowToolRun, FollowToolRunJson,
         ProxySession, NodeProxy, UploadChunk, Call, HostExec, QueryTerminals,
         EnvironmentRelay, SystemEnvRelay, IosRelay, RunnerControl, ChildRelay,
         Followers, Tunnels, Calls
<1> QED
  BY <1>1, <1>2, <1>3

LEMMA StreamSteps ==
    ASSUME StreamInv, [StreamsNext]_streamVars
    PROVE  StreamInv'
<1>1. CASE UNCHANGED streamVars
  BY <1>1, StreamStutter
<1>2. CASE Connect \/ Disconnect
  BY <1>2, StreamConnections
<1>3. ASSUME NEW r \in Readers,
             \/ Starting(r) \/ StartToolRunRefused(r)
             \/ NodeSends(r) \/ NodeAnswers(r) \/ NodeFails(r)
             \/ ReaderStep(r) \/ Abandon(r) \/ Leave(r)
      PROVE  StreamInv'
  <2>1. CASE Starting(r)
    BY <2>1, StreamStarting
  <2>2. CASE StartToolRunRefused(r)
    BY <2>2, StreamRunRefused
  <2>3. CASE NodeSends(r) \/ NodeAnswers(r) \/ NodeFails(r)
    BY <2>3, StreamNode
  <2>4. CASE First(r)
    BY <2>4, StreamFirst
  <2>5. CASE Begin(r)
    BY <2>5, StreamBegin
  <2>6. CASE Receive(r)
    BY <2>6, StreamReceive
  <2>7. CASE Timeout(r) \/ Leave(r)
    BY <2>7, StreamTimeoutLeave
  <2>8. CASE Abandon(r)
    BY <2>8, StreamAbandon
  <2> QED
    BY <1>3, <2>1, <2>2, <2>3, <2>4, <2>5, <2>6, <2>7, <2>8 DEF ReaderStep
<1> QED
  BY <1>1, <1>2, <1>3 DEF StreamsNext

LEMMA StreamAlways == StreamsSpec => []StreamInv
<1>1. StreamsInit => StreamInv
  BY StreamStart
<1>2. StreamInv /\ [StreamsNext]_streamVars => StreamInv'
  BY StreamSteps
<1> QED
  BY <1>1, <1>2, PTL DEF StreamsSpec

\* Every variable of the exchanges keeps its type, and no reader's queue outgrows
\* the maxsize it was created with (registry.py: put_nowait and QueueFull).
THEOREM StreamsTypeCorrect == StreamsSpec => []StreamsTypeOK
<1>1. StreamInv => StreamsTypeOK
  <2>1. SUFFICES ASSUME StreamInv PROVE StreamsTypeOK
    OBVIOUS
  <2>2. StreamTyped /\ ReaderTyped /\ kind \in Mixes
    BY <2>1 DEF StreamInv
  <2>3. live \in 0 .. MaxConns
    BY <2>2, StreamFrames DEF StreamTyped
  <2> QED
    BY <2>2, <2>3 DEF StreamTyped, ReaderTyped, StreamsTypeOK, Frames
<1> QED
  BY <1>1, StreamAlways, PTL

\* No handler leaves its entry behind: whoever is in a table of a connection is
\* still reading from that connection, or its client went before the response's
\* iterator ran (tunnel.py:103).
THEOREM EntriesAreRead == StreamsSpec => []RegisteredIsReading
<1>1. StreamInv => RegisteredIsReading
  <2>1. SUFFICES ASSUME StreamInv, NEW c \in Conn, NEW r \in table[c]
                 PROVE  (Open(r) /\ conn[r] = c) \/ how[r] = "abandoned"
    BY DEF RegisteredIsReading
  <2>2. r \in Readers
    BY <2>1 DEF StreamInv, StreamTyped
  <2> QED
    BY <2>1, <2>2 DEF StreamInv, Fine, ReaderFine
<1> QED
  BY <1>1, StreamAlways, PTL

\* A response that ended as complete is complete, unless its queue was full once
\* and a chunk was dropped (registry.py:375).
THEOREM ResponsesWhole == StreamsSpec => []WholeUnlessOverrun
<1>1. StreamInv => WholeUnlessOverrun
  BY DEF StreamInv, Fine, LineFine, WholeUnlessOverrun
<1> QED
  BY <1>1, StreamAlways, PTL

\* The end of a connection reaches everyone who reads from it (registry.py:847).
THEOREM CloseIsHeard == StreamsSpec => []ClosedWakes
<1>1. StreamInv => ClosedWakes
  <2>1. SUFFICES ASSUME StreamInv, NEW r \in Readers, Open(r), kind[r] # "session"
                 PROVE  \/ live # 0 /\ conn[r] = live /\ r \in table[live]
                        \/ \E i \in DOMAIN queue[r] :
                              queue[r][i] = Gone \/ (kind[r] \in Calls /\ queue[r][i] = Chunks)
                        \/ r \in lost \cup ousted
    BY DEF ClosedWakes
  <2>2. WakeFine(r) /\ queue[r] \in Seq(Frames)
    BY <2>1 DEF StreamInv, Fine, ReaderTyped
  <2>3. DOMAIN queue[r] = 1 .. Len(queue[r])
    BY <2>2
  <2> QED
    BY <2>1, <2>2, <2>3 DEF WakeFine, EndIn, Ends
<1> QED
  BY <1>1, StreamAlways, PTL
==============================================================================

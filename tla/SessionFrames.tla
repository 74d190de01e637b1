---------------------------- MODULE SessionFrames ----------------------------
(***************************************************************************)
(* What the stream loops write for the frames of one session: each loop    *)
(* handles one frame at a time, a conversation item or a stage by a few    *)
(* statements on one pooled connection, the result by the finalization of  *)
(* TaskFinalize.  Several loops are at it when the node has reconnected    *)
(* and sends frames again, and they share the pool.                        *)
(*                                                                         *)
(* An item's content goes to ClickHouse under the runtime's frame number,  *)
(* a later insert of the same number replacing it, and a row of the        *)
(* PostgreSQL index either refers to it or, when that insert failed,       *)
(* carries the content itself.  Every error is swallowed where it occurs.  *)
(***************************************************************************)
EXTENDS TaskFinalize

\* The finalizers' Frame is the set of loops here: each carries one result.
CONSTANTS Stages,     \* bring-up stages a session reports first
          Items,      \* frames before its result, the stages and then items
          PoolSize    \* connections of the PostgreSQL pool

ASSUME SessionFramesAssumption ==
    /\ Items \in Nat /\ Stages \in 0 .. Items
    /\ PoolSize \in Nat \ {0}

VARIABLES
    at,       \* the statement each loop is about to run
    next,     \* the runtime's number of the frame each loop takes next
    num,      \* the index number a loop has drawn
    place,    \* where the content of the item a loop handles went
    holds,    \* the loops that hold a pooled connection
    numbers,  \* index numbers drawn from mc_task_events_seq
    rows,     \* mc_task_events
    content   \* task_messages in ClickHouse

itemVars == <<num, place, numbers, rows, content>>
frameVars == <<at, next, holds, itemVars>>
allVars == <<vars, frameVars>>

Free == Cardinality(holds) < PoolSize
To(l, step) == at' = [at EXCEPT ![l] = step]
Release(l) == holds' = holds \ {l}

Between == {"ready", "gone"}
Steps == Between \cup {"content", "number", "row", "stageNumber", "stageRow",
                       "finalize", "history", "grants", "notify"}

\* The session's first loop begins with its first frame; on another the node
\* goes on from any it does not know to have arrived.
SFInit ==
    /\ Init
    /\ at = [l \in Frame |-> "ready"]
    /\ next \in [Frame -> 1 .. Items + 1] /\ \E l \in Frame : next[l] = 1
    /\ num = [l \in Frame |-> 0]
    /\ place = [l \in Frame |-> "none"]
    /\ holds = {}
    /\ numbers = 0
    /\ rows = {} /\ content = {}

(***************************************************************************)
(* Items and stages.                                                       *)
(***************************************************************************)

\* The handler takes a connection and looks the live task up: without one it
\* ends, and the connection is back.
Look(l, step) ==
    /\ at[l] = "ready" /\ next[l] <= Items
    /\ Free
    /\ IF deleted THEN /\ next' = [next EXCEPT ![l] = @ + 1]
                       /\ UNCHANGED <<at, holds>>
                  ELSE /\ To(l, step)
                       /\ holds' = holds \cup {l}
                       /\ UNCHANGED next
    /\ UNCHANGED <<vars, itemVars>>

RecordItem(l) == next[l] > Stages /\ Look(l, "content")
RecordStage(l) == next[l] <= Stages /\ Look(l, "stageNumber")

Rest(n) == {c \in content : c.n # n}

\* An insert whose failure nobody looks at.
InsertMessageUnchecked(l) ==
    /\ at[l] = "content"
    /\ To(l, "number")
    /\ content' \in {content, Rest(next[l]) \cup {[n |-> next[l], by |-> l]}}
    /\ place' = [place EXCEPT ![l] = "ref"]
    /\ UNCHANGED <<vars, next, holds, num, numbers, rows>>

\* insert_task_message: a failure is reported, whether or not the row arrived.
InsertMessage(l) ==
    /\ at[l] = "content"
    /\ To(l, "number")
    /\ LET new == Rest(next[l]) \cup {[n |-> next[l], by |-> l]}
       IN \/ content' = new /\ place' = [place EXCEPT ![l] = "ref"]
          \/ content' \in {content, new} /\ place' = [place EXCEPT ![l] = "item"]
    /\ UNCHANGED <<vars, next, holds, num, numbers, rows>>

\* The next number after the largest in the table.
DrawFromRows == {r.seq : r \in rows} \cup {0}
MaxRowPlusOne(l) ==
    /\ at[l] \in {"number", "stageNumber"}
    /\ To(l, IF at[l] = "number" THEN "row" ELSE "stageRow")
    /\ \E m \in DrawFromRows :
          /\ \A s \in DrawFromRows : s <= m
          /\ num' = [num EXCEPT ![l] = m + 1]
    /\ UNCHANGED <<vars, next, holds, place, numbers, rows, content>>

\* SELECT nextval('mc_task_events_seq').
NextVal(l) ==
    /\ at[l] \in {"number", "stageNumber"}
    /\ To(l, IF at[l] = "number" THEN "row" ELSE "stageRow")
    /\ numbers' = numbers + 1
    /\ num' = [num EXCEPT ![l] = numbers']
    /\ UNCHANGED <<vars, next, holds, place, rows, content>>

\* The frame has been handled: its connection is back and the next one is due.
Handled(l) ==
    /\ To(l, "ready")
    /\ next' = [next EXCEPT ![l] = @ + 1]
    /\ num' = [num EXCEPT ![l] = 0] /\ place' = [place EXCEPT ![l] = "none"]
    /\ Release(l)

InsertRow(l) ==
    /\ at[l] \in {"row", "stageRow"}
    /\ rows' = rows \cup {[seq |-> num[l], n |-> next[l], by |-> l,
                           kind |-> IF at[l] = "stageRow" THEN "stage" ELSE place[l]]}
    /\ Handled(l)
    /\ UNCHANGED <<vars, numbers, content>>

\* A statement raises: the handler logs it and the rest is skipped.
WriteFails(l) ==
    /\ at[l] \in {"number", "row", "stageNumber", "stageRow"}
    /\ Handled(l)
    /\ UNCHANGED <<vars, numbers, rows, content>>

(***************************************************************************)
(* The result.                                                             *)
(***************************************************************************)

TakeResult(l) ==
    /\ at[l] = "ready" /\ next[l] > Items
    /\ Free
    /\ To(l, "finalize")
    /\ holds' = holds \cup {l}
    /\ UNCHANGED <<vars, next, itemVars>>

\* The loser of the transition, or a failed UPDATE, ends the handler.
Finalize(l) ==
    /\ at[l] = "finalize"
    /\ \/ /\ Transition(l)
          /\ IF pc'[l] = "done" THEN To(l, "gone") /\ Release(l)
                                ELSE To(l, "history") /\ UNCHANGED holds
       \/ To(l, "gone") /\ Release(l) /\ UNCHANGED vars
    /\ UNCHANGED <<next, itemVars>>

\* record_status_transition on a connection of its own.
RecordOnOwnConnection(l) ==
    /\ at[l] = "history"
    /\ Free
    /\ To(l, "grants")
    /\ UNCHANGED <<vars, next, holds, itemVars>>

\* record_status_transition on the connection the finalizer holds; a failure
\* is swallowed.
RecordTransition(l) ==
    /\ at[l] = "history"
    /\ To(l, "grants")
    /\ UNCHANGED <<vars, next, holds, itemVars>>

TearDown(l) ==
    /\ at[l] = "grants"
    /\ DisableGrants(l)
    /\ IF pc'[l] = "notify" THEN To(l, "notify") /\ Release(l)
                            ELSE UNCHANGED <<at, holds>>
    /\ UNCHANGED <<next, itemVars>>

\* The notification runs once the connection is back, on one of its own.
NotifyEnd(l) ==
    /\ at[l] = "notify"
    /\ Free
    /\ Notify(l)
    /\ To(l, "gone")
    /\ UNCHANGED <<next, holds, itemVars>>

\* A statement of either raises, and the rest is skipped.
FinalizeFails(l) ==
    /\ at[l] \in {"grants", "notify"}
    /\ StatementFails(l)
    /\ To(l, "gone") /\ Release(l)
    /\ UNCHANGED <<next, itemVars>>

(***************************************************************************)
(* The specification.                                                      *)
(***************************************************************************)

LoopStep(l) ==
    \/ RecordItem(l) \/ RecordStage(l)
    \/ InsertMessage(l) \/ NextVal(l) \/ InsertRow(l) \/ WriteFails(l)
    \/ TakeResult(l) \/ Finalize(l) \/ RecordTransition(l)
    \/ TearDown(l) \/ NotifyEnd(l) \/ FinalizeFails(l)

Gateway == (GatewayFinalizes \/ Resume \/ Delete) /\ UNCHANGED frameVars

SFNext == Gateway \/ \E l \in Frame : LoopStep(l)

\* A statement that was issued returns or raises, and the pool serves whoever
\* waits for a connection.
SFSpec == SFInit /\ [][SFNext]_allVars /\ \A l \in Frame : WF_allVars(LoopStep(l))

(***************************************************************************)
(* Properties; those of TaskFinalize are checked here too.                 *)
(***************************************************************************)

Rows == [seq : Nat, n : 1 .. Items, by : Frame, kind : {"ref", "item", "stage"}]

\* Every variable has its type, and a connection of the pool has one holder.
FramesTypeOK ==
    /\ TypeOK
    /\ at \in [Frame -> Steps]
    /\ next \in [Frame -> 1 .. Items + 1]
    /\ num \in [Frame -> Nat]
    /\ place \in [Frame -> {"none", "ref", "item"}]
    /\ holds \subseteq Frame /\ Cardinality(holds) <= PoolSize
    /\ numbers \in Nat
    /\ rows \subseteq Rows
    /\ content \subseteq [n : 1 .. Items, by : Frame]

\* "a CH failure must be known before the PG row claims the content lives
\* there": an index row that refers to ClickHouse has content there, its own or
\* what another loop stored later for the same frame (task_event_log.py:259).
ReferenceHasContent ==
    \A r \in rows : r.kind = "ref" => \E c \in content : c.n = r.n

\* The paging cursor (seq, id) orders the index: no two rows share a number,
\* and the rows of a loop are numbered in the order of its frames
\* (task_stage.py:134).
CursorOrdersRows ==
    \A r, s \in rows :
        /\ r.seq = s.seq => r = s
        /\ r.by = s.by /\ r.n < s.n => r.seq < s.seq

\* The pool is never exhausted by handlers that wait for one more connection:
\* each handler ends, whatever the others hold (task_status_history.py:67).
HandlersEnd ==
    \A l \in Frame : at[l] \notin Between ~> at[l] \in Between

=============================================================================

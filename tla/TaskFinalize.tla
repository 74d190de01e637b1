----------------------------- MODULE TaskFinalize -----------------------------
(***************************************************************************)
(* The end of a task: each session_result frame runs                       *)
(* finalize_task_for_session, one conditional UPDATE of mc_tasks whose     *)
(* winner then disables the task's grants and notifies, statement by       *)
(* statement.  Replayed frames, the gateway's own finalizer, a resumed     *)
(* task and a failing statement interleave with it: any of the statements  *)
(* may fail, and what it and the skipped ones leave in force is recorded.  *)
(***************************************************************************)
EXTENDS Integers, FiniteSets

CONSTANTS Frame,     \* session_result frames handled, replays included
          Success,   \* those that report success and exit code 0, \subseteq Frame
          MaxResume  \* bound: times the gateway resumes the task

Statement == {"principal", "key", "notify"}

ASSUME TaskFinalizeAssumption ==
    /\ IsFiniteSet(Frame) /\ Success \subseteq Frame
    /\ MaxResume \in Nat

VARIABLES
    status,     \* mc_tasks.status
    deleted,    \* mc_tasks.deleted_at is set
    pc,         \* the next statement of each finalizer
    grants,     \* the grants in force: of {"principal", "key"}
    endings,    \* times the status became terminal
    notified,   \* task.ended rows in mc_notify_outbox
    resumed,    \* times the task was resumed
    skipped     \* the grants that failing statements have left in force

vars == <<status, deleted, pc, grants, endings, notified, resumed, skipped>>

Terminal == {"finished", "error"}
Goto(f, next) == pc' = [pc EXCEPT ![f] = next]

\* new_status, by the result's success and exit code.
Outcome(f) == IF f \in Success THEN "finished" ELSE "error"

\* The UPDATE without "status NOT IN ('finished','error')".
FlipsAlways == ~deleted

\* The condition of the UPDATE: a live task that is not terminal.
Flips == ~deleted /\ status \notin Terminal

\* The conditional transition: the loser returns.
Transition(f) ==
    /\ pc[f] = "update"
    /\ \/ /\ Flips
          /\ status' = Outcome(f)
          /\ endings' = endings + (IF status \in Terminal THEN 0 ELSE 1)
          /\ Goto(f, "principal")
       \/ /\ ~Flips
          /\ Goto(f, "done")
          /\ UNCHANGED <<status, endings>>
    /\ UNCHANGED <<deleted, grants, notified, resumed, skipped>>

\* Only the key is parked.
DisableKeyOnly(f) ==
    \/ pc[f] = "principal" /\ Goto(f, "key") /\ UNCHANGED grants
    \/ pc[f] = "key" /\ Goto(f, "notify") /\ grants' = grants \ {"key"}

\* The winner disables the MCP principal, then parks the task's API key.
Disable(f) ==
    \/ pc[f] = "principal" /\ Goto(f, "key") /\ grants' = grants \ {"principal"}
    \/ pc[f] = "key" /\ Goto(f, "notify") /\ grants' = grants \ {"key"}

DisableGrants(f) ==
    /\ Disable(f)
    /\ UNCHANGED <<status, deleted, endings, notified, resumed, skipped>>

\* The withdrawals a finalizer at statement p has still to make.
Pending(p) == CASE p = "principal" -> {"principal", "key"}
                [] p = "key" -> {"key"}
                [] p = "notify" -> {}

\* _notify_task_ended, after the connection is released.
Notify(f) ==
    /\ pc[f] = "notify"
    /\ notified' = notified + 1
    /\ Goto(f, "done")
    /\ UNCHANGED <<status, deleted, grants, endings, resumed, skipped>>

\* A statement raises: the exception is swallowed and the rest is skipped.
StatementFails(f) ==
    /\ pc[f] \in Statement
    /\ Goto(f, "done")
    /\ skipped' = skipped \cup (Pending(pc[f]) \cap grants)
    /\ UNCHANGED <<status, deleted, grants, endings, notified, resumed>>

\* The gateway (external) finalizes the task from its SSE stream by the same
\* conditional UPDATE, and performs its own teardown and notification.
GatewayFinalizes ==
    /\ Flips
    /\ \E s \in Terminal : status' = s
    /\ endings' = endings + 1
    /\ notified' = notified + 1
    /\ grants' = {} /\ skipped' = {}
    /\ UNCHANGED <<deleted, pc, resumed>>

\* The gateway (external) resumes an ended task and restores its grants.
Resume ==
    /\ status \in Terminal /\ ~deleted /\ resumed < MaxResume
    /\ status' = "processing"
    /\ grants' = {"principal", "key"}
    /\ resumed' = resumed + 1
    /\ skipped' = {}
    /\ UNCHANGED <<deleted, pc, endings, notified>>

\* The gateway (external) deletes the task with its grants.
Delete ==
    /\ ~deleted
    /\ deleted' = TRUE
    /\ grants' = {} /\ skipped' = {}
    /\ UNCHANGED <<status, pc, endings, notified, resumed>>

----------------------------------------------------------------------------
Init ==
    /\ status = "processing"
    /\ deleted = FALSE
    /\ pc = [f \in Frame |-> "update"]
    /\ grants = {"principal", "key"}
    /\ endings = 0 /\ notified = 0 /\ resumed = 0 /\ skipped = {}

FinalizeStep(f) == Transition(f) \/ DisableGrants(f) \/ Notify(f) \/ StatementFails(f)

Next ==
    \/ \E f \in Frame : FinalizeStep(f)
    \/ GatewayFinalizes \/ Resume \/ Delete

Spec == Init /\ [][Next]_vars

----------------------------------------------------------------------------
InProgress == {f \in Frame : pc[f] \in Statement}

\* The type of the state.
TypeOK ==
    /\ status \in Terminal \cup {"processing"}
    /\ deleted \in BOOLEAN
    /\ pc \in [Frame -> Statement \cup {"update", "done"}]
    /\ grants \subseteq {"principal", "key"} /\ skipped \subseteq {"principal", "key"}
    /\ endings \in Nat /\ notified \in Nat /\ resumed \in 0 .. MaxResume

\* "a replayed frame or the gateway's SSE path cannot double-send": every
\* ending is notified at most once, by the finalizer that won it.
NotifiedPerEnding == notified + Cardinality(InProgress) <= endings

\* "neither grant can be reused after the task ends": once the finalizers are
\* through, the only grants an ended task has in force are those whose withdrawal
\* failed, or was skipped by the failure of the other's, since it was resumed.
OnlySkippedGrantsLeft ==
    (status \in Terminal \/ deleted) /\ InProgress = {} => grants \subseteq skipped
============================================================================

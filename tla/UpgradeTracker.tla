---------------------------- MODULE UpgradeTracker ----------------------------
(***************************************************************************)
(* The upgrade of one node: the RPC that sends a runtime archive, a node   *)
(* binary, or one after the other, and the tracker that folds acks, events *)
(* and reconnects into the per-step snapshot the console polls.            *)
(*                                                                         *)
(* A run sends at most one frame per step, so a frame is <<run, kind>>.    *)
(* The node is external: it takes frames in order, works detached from the *)
(* stream, reports "done" or "failed", acks the runtime step when it is    *)
(* active and the node step when it is accepted, and ends a node step by   *)
(* replacing its process, which kills whatever else it was doing.          *)
(***************************************************************************)
EXTENDS Integers, Sequences, FiniteSets

CONSTANTS Run,         \* calls of upgrade_node, numbered as they start
          Version,     \* client versions
          Installed,   \* the version the node runs at first
          None,
          MaxInFlight, \* upgrade calls running at the same time
          Buffer       \* frames the downstream queue holds (64 in the code)

Kind == {"runtime", "node"}
Frame == Run \X Kind

ASSUME UpgradeTrackerAssumption ==
    /\ None \notin Run \cup Version \cup Frame
    /\ Run \subseteq Nat /\ Installed \in Version
    /\ MaxInFlight \in Nat \ {0}
    /\ Buffer \in Nat \ {0}

VARIABLES
    snap,     \* UpgradeTracker._jobs[node]: the snapshot of each step
    pc,       \* where each call is
    plan,     \* the steps a call was given targets for
    target,   \* the version a call pushes
    fut,      \* the ack future of the step the call is waiting for
    link,     \* registered connection: down or up; joining and renewing are
              \* the same with a new stream authenticated, not yet registered
    alive,    \* the process at the node's end of the connection still runs
    down, up, \* frames to the node; events and acks to the server
    job,      \* what became of a frame at the node
    version,  \* the version the node runs
    reported, \* versions a registration has reported
    crossed   \* frames whose snapshot the answer to another frame finished

Terminal == {"completed", "failed"}
Status == {"dispatched", "restarting"} \cup Terminal
\* A step under way is at "working": the stages the node reports on its way, and
\* the "dispatched" a snapshot starts at, differ in display only.
Stage == {"working", "restarting", "done", "failed"}
NoSnap == [frame |-> None, status |-> "dispatched", stage |-> "working"]

callVars == <<pc, plan, target, crossed>>
nodeVars == <<job, version>>
vars == <<snap, callVars, fut, link, alive, down, up, nodeVars, reported>>

(***************************************************************************)
(* UpgradeTracker: what each method makes of a step's snapshot s.          *)
(***************************************************************************)

Finished(s) == s.frame = None \/ s.status \in Terminal

\* init: a new snapshot replaces whatever the step had.
InitStep(f) == [frame |-> f, status |-> "dispatched", stage |-> "working"]

\* apply without the server_frame_id comparison.
ApplyAnyFrame(s, f, stage) ==
    IF s.frame = None \/ (s.status \in Terminal /\ stage = "working") THEN s
    ELSE [s EXCEPT !.stage = stage,
                   !.status = CASE stage = "done" -> "completed"
                                [] stage = "failed" -> "failed"
                                [] OTHER -> @]

\* apply: an event of another frame is stale, a progress event never changes a
\* finished step, a terminal event always does.
Apply(s, f, stage) ==
    IF s.frame # f \/ (s.status \in Terminal /\ stage = "working") THEN s
    ELSE [s EXCEPT !.stage = stage,
                   !.status = CASE stage = "done" -> "completed"
                                [] stage = "failed" -> "failed"
                                [] OTHER -> @]

\* finalize_from_ack for whatever snapshot the step has now: a runtime ack
\* completes it, a node ack only says "accepted", an error fails it.
FinalizeFromAck(s, kind, ok) ==
    IF Finished(s) THEN s
    ELSE IF ~ok THEN [s EXCEPT !.status = "failed"]
    ELSE IF kind = "runtime" THEN [s EXCEPT !.status = "completed", !.stage = "done"]
    ELSE [s EXCEPT !.stage = "working"]

\* note_ack_timeout: only the message changes.
NoteAckTimeout(s) == s

\* mark_restarting, for the node step.
MarkRestarting(s) ==
    IF Finished(s) THEN s
    ELSE [s EXCEPT !.status = "restarting", !.stage = "restarting"]

\* finalize_from_reconnect that does not expect a step marked restarting.
FinalizeDispatchedOnly(s, v) ==
    IF Finished(s) \/ s.status = "restarting" \/ v # target[s.frame[1]] THEN s
    ELSE [s EXCEPT !.status = "completed", !.stage = "done"]

\* finalize_from_reconnect: the reported version is the one the step pushed.
FinalizeFromReconnect(s, v) ==
    IF Finished(s) \/ v # target[s.frame[1]] THEN s
    ELSE [s EXCEPT !.status = "completed", !.stage = "done"]

(***************************************************************************)
(* The upgrade call.                                                       *)
(***************************************************************************)

\* The Registry holds a connection of the node.
Connected == link \in {"up", "renewing"}

InFlight == {r \in Run : pc[r] \notin {"idle", "ended"}}
Goto(r, phase) == pc' = [pc EXCEPT ![r] = phase]
FirstStep(P) == IF "runtime" \in P THEN "runtime" ELSE "node"

\* upgrade_node starts with at least one target.
Begin(r) ==
    /\ pc[r] = "idle" /\ Cardinality(InFlight) < MaxInFlight
    /\ \A q \in Run : q < r => pc[q] # "idle"
    /\ \E P \in SUBSET Kind \ {{}}, v \in Version :
          /\ plan' = [plan EXCEPT ![r] = P]
          /\ target' = [target EXCEPT ![r] = v]
          /\ Goto(r, FirstStep(P))
    /\ UNCHANGED <<snap, crossed, fut, link, alive, down, up, nodeVars, reported>>

\* Connection.send: put_nowait finds room.
Room == Len(down) < Buffer

\* runtime_upgrade_node or self_upgrade_node after reading the record: a node
\* that is unknown, unfit or offline is an error; else the snapshot is
\* initialised, then the frame is sent, and a send that fails fails the step.
Dispatch(r) ==
    LET k == pc[r]
    IN /\ k \in Kind /\ fut[r] = "none"
       /\ \/ /\ Goto(r, "ended")
             /\ UNCHANGED <<snap, fut, down>>
          \/ /\ Connected /\ ~Room
             /\ snap' = [snap EXCEPT ![k] =
                            FinalizeFromAck(InitStep(<<r, k>>), k, FALSE)]
             /\ Goto(r, "ended")
             /\ UNCHANGED <<fut, down>>
          \/ /\ Connected /\ Room
             /\ snap' = [snap EXCEPT ![k] = InitStep(<<r, k>>)]
             /\ down' = Append(down, <<r, k>>)
             /\ fut' = [fut EXCEPT ![r] = "pending"]
             /\ UNCHANGED pc
    /\ UNCHANGED <<plan, target, crossed, link, alive, up, nodeVars, reported>>

\* upgrade_node that goes on to the node step whatever the runtime step did.
AfterStepAlways(r) == IF pc[r] = "runtime" /\ "node" \in plan[r] THEN "node" ELSE "ended"

\* The next step of upgrade_node: the node step follows an acked runtime step;
\* any other outcome raises.
AfterStep(r) ==
    IF pc[r] = "runtime" /\ fut[r] = "ok" /\ "node" \in plan[r] THEN "node" ELSE "ended"

\* The call resumes with its future resolved: an ack finalizes the step, a lost
\* connection leaves it open for events and reconnects to finish.  Storing the
\* runtime version may raise, which ends the call before its node step.
Resume(r) ==
    LET k == pc[r]
    IN /\ k \in Kind /\ fut[r] \in {"ok", "error", "lost"}
       /\ snap' = [snap EXCEPT ![k] =
                      IF fut[r] = "lost" THEN NoteAckTimeout(@)
                      ELSE FinalizeFromAck(@, k, fut[r] = "ok")]
       /\ crossed' = IF snap[k].frame # <<r, k>> /\ snap'[k].status # snap[k].status
                       THEN crossed \cup {snap[k].frame} ELSE crossed
       /\ \E next \in {AfterStep(r), "ended"} : Goto(r, next)
       /\ fut' = [fut EXCEPT ![r] = "none"]
       /\ UNCHANGED <<plan, target, link, alive, down, up, nodeVars, reported>>

\* The ack window elapses; the waiter is cancelled.
Timeout(r) ==
    LET k == pc[r]
    IN /\ fut[r] = "pending"
       /\ snap' = [snap EXCEPT ![k] = NoteAckTimeout(@)]
       /\ Goto(r, "ended")
       /\ fut' = [fut EXCEPT ![r] = "none"]
       /\ UNCHANGED <<plan, target, crossed, link, alive, down, up, nodeVars, reported>>

(***************************************************************************)
(* The stream.                                                             *)
(***************************************************************************)

Event(f, stage) == [type |-> "event", frame |-> f, val |-> stage]
Ack(f, val) == [type |-> "ack", frame |-> f, val |-> val]

\* Connection.close: pending waiters fail, what is in flight is gone.
LoseStream ==
    /\ fut' = [r \in Run |-> IF fut[r] = "pending" THEN "lost" ELSE fut[r]]
    /\ down' = << >>
    /\ up' = << >>

\* The current connection goes: _on_node_disconnect marks the node step.
Disconnect ==
    /\ Connected
    /\ link' = IF link = "up" THEN "down" ELSE "joining"
    /\ LoseStream
    /\ snap' = [snap EXCEPT !["node"] = MarkRestarting(@)]
    /\ UNCHANGED <<callVars, alive, nodeVars, reported>>

\* An authenticated stream ends before it is registered.
JoinFails ==
    /\ link \in {"joining", "renewing"}
    /\ link' = IF link = "joining" THEN "down" ELSE "up"
    /\ UNCHANGED <<snap, callVars, fut, alive, down, up, nodeVars, reported>>

\* authenticate_registration on a new stream of the node.
Authenticate ==
    /\ link \in {"down", "up"}
    /\ link' = IF link = "up" THEN "renewing" ELSE "joining"
    /\ snap' = [snap EXCEPT !["node"] = FinalizeFromReconnect(@, version)]
    /\ reported' = reported \cup {version}
    /\ UNCHANGED <<callVars, fut, alive, down, up, nodeVars>>

\* Registry.register of the authenticated stream; the one it supersedes is
\* closed without firing the disconnect hook.
Register ==
    /\ link \in {"joining", "renewing"}
    /\ link' = "up" /\ alive' = TRUE
    /\ LoseStream
    /\ UNCHANGED <<snap, callVars, nodeVars, reported>>

\* handle_upstream: an event goes to the tracker, an ack to its waiter.
Deliver ==
    /\ up # << >>
    /\ up' = Tail(up)
    /\ LET m == Head(up)
           r == m.frame[1]
           k == m.frame[2]
       IN \/ /\ m.type = "event"
             /\ snap' = [snap EXCEPT ![k] = Apply(@, m.frame, m.val)]
             /\ UNCHANGED fut
          \/ /\ m.type = "ack"
             /\ fut' = [fut EXCEPT ![r] = IF @ = "pending" /\ pc[r] = k THEN m.val ELSE @]
             /\ UNCHANGED snap
    /\ UNCHANGED <<callVars, link, alive, down, nodeVars, reported>>

(***************************************************************************)
(* The node (external).                                                    *)
(***************************************************************************)

\* Messages reach the stream the node has, if it has one.
Emit(msgs) == up' = IF Connected /\ alive THEN up \o msgs ELSE up

\* The node takes a frame and starts; a node step is accepted, or refused.
NodeTakes ==
    /\ Connected /\ alive /\ down # << >>
    /\ down' = Tail(down)
    /\ LET f == Head(down)
       IN \/ /\ job' = [job EXCEPT ![f] = "running"]
             /\ Emit(IF f[2] = "node" THEN <<Ack(f, "ok")>> ELSE << >>)
          \/ /\ job' = [job EXCEPT ![f] = "failed"]
             /\ Emit(<<Ack(f, "error")>>)
    /\ UNCHANGED <<snap, callVars, fut, link, alive, version, reported>>

NodeProgresses(f) ==
    /\ job[f] = "running" /\ Len(up) < Buffer
    /\ Emit(<<Event(f, "working")>>)
    /\ UNCHANGED <<snap, callVars, fut, link, alive, down, nodeVars, reported>>

NodeFails(f) ==
    /\ job[f] = "running"
    /\ job' = [job EXCEPT ![f] = "failed"]
    /\ Emit(<<Event(f, "failed")>> \o
            IF f[2] = "runtime" THEN <<Ack(f, "error")>> ELSE << >>)
    /\ UNCHANGED <<snap, callVars, fut, link, alive, down, version, reported>>

\* A runtime step is activated: its event and its ack follow.
NodeActivates(f) ==
    /\ job[f] = "running" /\ f[2] = "runtime"
    /\ job' = [job EXCEPT ![f] = "done"]
    /\ \/ Emit(<<Event(f, "done"), Ack(f, "ok")>>)
       \/ Emit(<<Ack(f, "ok"), Event(f, "working"), Event(f, "done")>>)
    /\ UNCHANGED <<snap, callVars, fut, link, alive, down, version, reported>>

\* A node step replaces the process: its other work dies, and the server
\* learns of its stream's end by itself or from the stream of the new process.
NodeRestarts(f) ==
    /\ job[f] = "running" /\ f[2] = "node"
    /\ job' = [g \in Frame |-> CASE g = f -> "done"
                                 [] job[g] = "running" -> "dead"
                                 [] OTHER -> job[g]]
    /\ version' = target[f[1]]
    /\ alive' = FALSE
    /\ link' = IF Connected THEN "up" ELSE "down"
    /\ UNCHANGED <<snap, callVars, fut, down, up, reported>>

----------------------------------------------------------------------------
Init ==
    /\ snap = [k \in Kind |-> NoSnap]
    /\ pc = [r \in Run |-> "idle"]
    /\ plan = [r \in Run |-> {}]
    /\ target = [r \in Run |-> None]
    /\ fut = [r \in Run |-> "none"]
    /\ link = "down" /\ alive = FALSE
    /\ down = << >> /\ up = << >>
    /\ job = [f \in Frame |-> "none"]
    /\ version = Installed
    /\ reported = {} /\ crossed = {}

CallStep(r) == Dispatch(r) \/ Resume(r) \/ Timeout(r)

NodeStep(f) == NodeProgresses(f) \/ NodeFails(f) \/ NodeActivates(f) \/ NodeRestarts(f)

Next ==
    \/ \E r \in Run : Begin(r) \/ CallStep(r)
    \/ Disconnect \/ JoinFails \/ Authenticate \/ Register \/ Deliver
    \/ NodeTakes \/ \E f \in Frame : NodeStep(f)

Spec == Init /\ [][Next]_vars

\* A node without a stream dials again, and authenticates.
Redial == (link = "down" \/ ~alive) /\ Authenticate
FairSpec == Spec /\ WF_vars(Redial)

----------------------------------------------------------------------------
\* The type of the state.
TypeOK ==
    /\ snap \in [Kind -> [frame : Frame \cup {None}, status : Status, stage : Stage]]
    /\ pc \in [Run -> Kind \cup {"idle", "ended"}]
    /\ plan \in [Run -> SUBSET Kind]
    /\ target \in [Run -> Version \cup {None}]
    /\ fut \in [Run -> {"none", "pending", "ok", "error", "lost"}]
    /\ link \in {"down", "up", "joining", "renewing"} /\ alive \in BOOLEAN
    /\ down \in Seq(Frame) /\ Len(down) <= Buffer
    /\ up \in Seq([type : {"event", "ack"}, frame : Frame,
                   val : Stage \cup {"ok", "error"}])
    /\ job \in [Frame -> {"none", "running", "done", "failed", "dead"}]
    /\ version \in Version /\ reported \subseteq Version
    /\ crossed \subseteq Frame

\* The answer to another call's frame finished the snapshot of the frame f.
AnsweredFor(f, k, outcome) ==
    f \in crossed /\ \E q \in Run \ {f[1]} : job[<<q, k>>] = outcome

\* "stale frame ids cannot clobber the current run": what a snapshot says became
\* of its step is what became of the frame it was created for.  A completed
\* runtime step was activated, a completed node step's version was reported by
\* a registration, and a failed step failed at the node or was never sent.  Acks
\* carry no frame id to the tracker (upgrade_progress.py:138): where the answer to
\* an overlapping call finished the snapshot, it says what became of that call's.
FinishedByOwnRun ==
    \A k \in Kind : LET s == snap[k] IN
        /\ s.status = "completed" =>
              IF k = "runtime" THEN job[s.frame] = "done" \/ AnsweredFor(s.frame, k, "done")
              ELSE target[s.frame[1]] \in reported
        /\ s.status = "failed" =>
              job[s.frame] \in {"failed", "none"} \/ AnsweredFor(s.frame, k, "failed")

\* "a self-upgrade restart would abort an in-flight runtime swap": upgrade_node
\* reaches its node step only after its runtime step was activated.
NodeStepAfterRuntime ==
    \A r \in Run : plan[r] = Kind /\ pc[r] = "node" => job[<<r, "runtime">>] = "done"

\* A node step whose binary was swapped in is completed by the reconnect, or a
\* newer run has taken its place.
SwapIsConfirmed ==
    \A r \in Run :
        (snap["node"].frame = <<r, "node">> /\ job[<<r, "node">>] = "done")
          ~> (snap["node"].status \in Terminal \/ snap["node"].frame # <<r, "node">>)
============================================================================

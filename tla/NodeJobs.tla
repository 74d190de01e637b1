------------------------------ MODULE NodeJobs ------------------------------
(***************************************************************************)
(* Long-running jobs on a node: WDA jobs of an iOS host, builds and host-  *)
(* tool installs.  A call initialises the job's snapshot on the node's     *)
(* Connection, sends one frame and returns with the node's ack; events and *)
(* one result follow on whatever stream the node has then, and callers     *)
(* poll the snapshot.  The three job families share this protocol and      *)
(* differ only in what an event or a result does to the snapshot.          *)
(*                                                                         *)
(* A connection is numbered in the order of registration.  Job ids are the *)
(* caller's UUIDs, so a job is started by one call.                        *)
(***************************************************************************)
EXTENDS Integers, Sequences, FiniteSets

CONSTANTS IosJob, BuildJob, ToolJob,  \* the jobs of each family
          Buffer,                     \* frames the downstream queue holds (64)
          EventCap,                   \* events a snapshot keeps (20 in the code)
          MaxConn, MaxEvents,         \* bounds: registrations, events of a job,
          MaxFlight                   \* frames in flight from the node

Job == IosJob \cup BuildJob \cup ToolJob
Conn == 1 .. MaxConn

ASSUME NodeJobsAssumption ==
    /\ IosJob \cap BuildJob = {} /\ IosJob \cap ToolJob = {}
    /\ BuildJob \cap ToolJob = {}
    /\ Buffer \in Nat \ {0}
    /\ EventCap \in Nat \ {0}
    /\ MaxConn \in Nat \ {0}
    /\ MaxEvents \in Nat
    /\ MaxFlight \in Nat \ {0}

VARIABLES
    made,      \* connections registered so far
    cur,       \* the connection a lookup finds, 0 when the node is offline
    snap,      \* the job snapshots of each connection
    acks,      \* the jobs with an ack waiter on each connection
    down, up,  \* frames on their way to the node, and to the server
    pc,        \* where the call that starts each job is
    via,       \* the connection the call dispatched to
    run,       \* what became of the job on the node
    seq,       \* events of the job the node has sent
    on,        \* the connection that carried the job's result, 0 before
    folded     \* tool jobs whose version was stored in the node's labels

wireVars == <<down, up>>
callVars == <<pc, via, acks>>
nodeVars == <<run, seq, on>>
vars == <<made, cur, snap, wireVars, callVars, nodeVars, folded>>

NoSnap == [status |-> "none", shown |-> 0, events |-> << >>]
\* A call ends accepted, refused by the node (the ack's message is read from a
\* field it has not, so the caller sees that error instead), timed out or failed.
Phase == {"idle", "waiting", "accepted", "rejected", "timeout", "failed"}
Ended == {"ok", "broken"}
Terminal == {"completed", "failed"}

(***************************************************************************)
(* The snapshot operations of Connection.                                  *)
(***************************************************************************)

InitSnapshot(c, j) ==
    snap' = [snap EXCEPT ![c][j] = [NoSnap EXCEPT !.status = "running"]]

\* A list cut to its first EventCap events.
UpdateKeepsOldest(s, j, k) ==
    IF s.status = "none" THEN s
    ELSE [s EXCEPT !.shown = k,
                   !.events = IF j \in IosJob \/ Len(@) = EventCap THEN @
                              ELSE Append(@, k)]

\* update_*_snapshot_event: an existing snapshot shows the event's stage and
\* lists the event, the last EventCap of them.  A WDA event has no retryable
\* field: its update raises after the stage is set and lists nothing.
UpdateEvent(s, j, k) ==
    LET all == Append(s.events, k)
    IN IF s.status = "none" THEN s
       ELSE [s EXCEPT !.shown = k,
                      !.events = IF j \in IosJob THEN @
                                 ELSE IF Len(all) > EventCap THEN Tail(all) ELSE all]

\* A result counted as a success whatever it says.
DeliverAsCompleted(s, verdict) ==
    IF s.status = "none" THEN s ELSE [s EXCEPT !.status = "completed"]

\* deliver_*_result: an existing snapshot takes the verdict.
DeliverResult(s, verdict) ==
    IF s.status = "none" THEN s
    ELSE [s EXCEPT !.status = IF verdict = "ok" THEN "completed" ELSE "failed"]

\* get_*_status: what a poll of the job answers; "none" is NOT_FOUND.
Poll(j) == IF cur = 0 THEN "offline" ELSE snap[cur][j].status

(***************************************************************************)
(* The calls.                                                              *)
(***************************************************************************)

\* Connection.send: put_nowait finds room.
Room(c) == Len(down[c]) < Buffer

\* A start that leaves the snapshot for the ack to create.
StartUnrecorded(j) ==
    /\ pc[j] = "idle"
    /\ cur # 0 /\ Room(cur)
    /\ down' = [down EXCEPT ![cur] = Append(@, <<"start", j>>)]
    /\ acks' = [acks EXCEPT ![cur] = @ \cup {j}]
    /\ pc' = [pc EXCEPT ![j] = "waiting"]
    /\ via' = [via EXCEPT ![j] = cur]
    /\ UNCHANGED <<made, cur, snap, up, nodeVars, folded>>

\* The record is unfit or the node offline; or the snapshot and the waiter are
\* registered and the frame sent, with no await in between.  A full queue
\* withdraws the waiter and leaves the snapshot.
Start(j) ==
    /\ pc[j] = "idle"
    /\ \/ /\ pc' = [pc EXCEPT ![j] = "failed"]
          /\ UNCHANGED <<snap, down, acks, via>>
       \/ /\ cur # 0
          /\ InitSnapshot(cur, j)
          /\ via' = [via EXCEPT ![j] = cur]
          /\ \/ /\ ~Room(cur)
                /\ pc' = [pc EXCEPT ![j] = "failed"]
                /\ UNCHANGED <<down, acks>>
             \/ /\ Room(cur)
                /\ down' = [down EXCEPT ![cur] = Append(@, <<"start", j>>)]
                /\ acks' = [acks EXCEPT ![cur] = @ \cup {j}]
                /\ pc' = [pc EXCEPT ![j] = "waiting"]
    /\ UNCHANGED <<made, cur, up, nodeVars, folded>>

\* The ack does not come in time: "the job may still start".
Timeout(j) ==
    /\ pc[j] = "waiting"
    /\ pc' = [pc EXCEPT ![j] = "timeout"]
    /\ acks' = [acks EXCEPT ![via[j]] = @ \ {j}]
    /\ UNCHANGED <<made, cur, snap, wireVars, via, nodeVars, folded>>

\* Cancellation is one frame on the node's current connection, for a job id
\* that was given to a start.
Cancel(j) ==
    /\ pc[j] # "idle"
    /\ cur # 0 /\ Room(cur)
    /\ down' = [down EXCEPT ![cur] = Append(@, <<"cancel", j>>)]
    /\ UNCHANGED <<made, cur, snap, up, callVars, nodeVars, folded>>

(***************************************************************************)
(* The stream's upstream frames, in the order the node sent them.          *)
(***************************************************************************)

HandleEvent(c, j, k) ==
    /\ snap' = [snap EXCEPT ![c][j] = UpdateEvent(@, j, k)]
    /\ UNCHANGED <<pc, acks, folded>>

\* A successful install's version is folded into the labels; a failure of that
\* write is swallowed.
HandleResult(c, j, verdict) ==
    /\ snap' = [snap EXCEPT ![c][j] = DeliverResult(@, verdict)]
    /\ folded' \in IF j \in ToolJob /\ verdict = "ok"
                   THEN {folded, folded \cup {j}} ELSE {folded}
    /\ UNCHANGED <<pc, acks>>

\* deliver_ack wakes the waiting call, if any.
HandleAck(c, j, verdict) ==
    /\ acks' = [acks EXCEPT ![c] = @ \ {j}]
    /\ pc' = IF j \in acks[c]
             THEN [pc EXCEPT ![j] = IF verdict = "ok" THEN "accepted" ELSE "rejected"]
             ELSE pc
    /\ UNCHANGED <<snap, folded>>

Handle(c) ==
    /\ up[c] # << >>
    /\ LET f == Head(up[c])
       IN \/ f[1] = "ack" /\ HandleAck(c, f[2], f[3])
          \/ f[1] = "event" /\ HandleEvent(c, f[2], f[3])
          \/ f[1] = "result" /\ HandleResult(c, f[2], f[3])
    /\ up' = [up EXCEPT ![c] = Tail(@)]
    /\ UNCHANGED <<made, cur, down, via, nodeVars>>

(***************************************************************************)
(* Connections.                                                            *)
(***************************************************************************)

\* Connection.close: the waiting calls of connection c fail.
Close(c) ==
    /\ acks' = [d \in Conn |-> IF d = c THEN {} ELSE acks[d]]
    /\ pc' = [j \in Job |-> IF c # 0 /\ j \in acks[c] THEN "failed" ELSE pc[j]]

\* The node (re)connects: a new Connection without snapshots replaces the old
\* one; frames not yet read from the old stream are lost.
Connect ==
    /\ made < MaxConn
    /\ made' = made + 1
    /\ cur' = made + 1
    /\ Close(cur)
    /\ down' = [down EXCEPT ![made + 1] = << >>]
    /\ UNCHANGED <<snap, up, via, nodeVars, folded>>

\* Unregistered, reaped or disconnected.
Disconnect ==
    /\ cur # 0
    /\ cur' = 0
    /\ Close(cur)
    /\ UNCHANGED <<made, snap, wireVars, via, nodeVars, folded>>

(***************************************************************************)
(* The node (external): it acks a job, then runs it to exactly one result; *)
(* its jobs outlive its stream, and what it has to say waits for the next. *)
(***************************************************************************)

Emit(f) == Len(up[cur]) < MaxFlight /\ up' = [up EXCEPT ![cur] = Append(@, f)]

NodeTakes ==
    /\ cur # 0 /\ down[cur] # << >>
    /\ down' = [down EXCEPT ![cur] = Tail(@)]
    /\ LET j == Head(down[cur])[2]
       IN \/ /\ Head(down[cur])[1] = "start"
             /\ \/ run' = [run EXCEPT ![j] = "busy"] /\ Emit(<<"ack", j, "ok">>)
                \/ run' = [run EXCEPT ![j] = "refused"] /\ Emit(<<"ack", j, "error">>)
             /\ UNCHANGED on
          \/ /\ Head(down[cur])[1] = "cancel"
             /\ IF run[j] = "busy"
                THEN /\ run' = [run EXCEPT ![j] = "broken"]
                     /\ on' = [on EXCEPT ![j] = cur]
                     /\ Emit(<<"result", j, "broken">>)
                ELSE UNCHANGED <<run, on, up>>
    /\ UNCHANGED <<made, cur, snap, callVars, seq, folded>>

NodeReports(j) ==
    /\ cur # 0 /\ run[j] = "busy" /\ seq[j] < MaxEvents
    /\ seq' = [seq EXCEPT ![j] = @ + 1]
    /\ Emit(<<"event", j, seq[j] + 1>>)
    /\ UNCHANGED <<made, cur, snap, down, callVars, run, on, folded>>

NodeEnds(j) ==
    /\ cur # 0 /\ run[j] = "busy"
    /\ \E verdict \in Ended :
          run' = [run EXCEPT ![j] = verdict] /\ Emit(<<"result", j, verdict>>)
    /\ on' = [on EXCEPT ![j] = cur]
    /\ UNCHANGED <<made, cur, snap, down, callVars, seq, folded>>

-----------------------------------------------------------------------------
Init ==
    /\ made = 0 /\ cur = 0
    /\ snap = [c \in Conn |-> [j \in Job |-> NoSnap]]
    /\ acks = [c \in Conn |-> {}]
    /\ down = [c \in Conn |-> << >>]
    /\ up = [c \in Conn |-> << >>]
    /\ pc = [j \in Job |-> "idle"]
    /\ via = [j \in Job |-> 0]
    /\ run = [j \in Job |-> "none"]
    /\ seq = [j \in Job |-> 0]
    /\ on = [j \in Job |-> 0]
    /\ folded = {}

Next ==
    \/ \E j \in Job : Start(j) \/ Timeout(j) \/ Cancel(j)
                      \/ NodeReports(j) \/ NodeEnds(j)
    \/ \E c \in Conn : Handle(c)
    \/ Connect \/ Disconnect \/ NodeTakes

Spec == Init /\ [][Next]_vars

-----------------------------------------------------------------------------
\* The type of the state; a snapshot lists at most EventCap events.
TypeOK ==
    /\ made \in 0 .. MaxConn /\ cur \in {0, made}
    /\ \A c \in Conn, j \in Job :
          /\ snap[c][j].status \in {"none", "running"} \cup Terminal
          /\ snap[c][j].shown \in 0 .. MaxEvents
          /\ snap[c][j].events \in Seq(1 .. MaxEvents)
          /\ Len(snap[c][j].events) <= EventCap
    /\ acks \in [Conn -> SUBSET Job]
    /\ down \in [Conn -> Seq({"start", "cancel"} \X Job)]
    /\ \A c \in Conn : Len(down[c]) <= Buffer
    /\ \A c \in Conn : \A i \in DOMAIN up[c] :
          up[c][i][1] \in {"ack", "event", "result"} /\ up[c][i][2] \in Job
    /\ pc \in [Job -> Phase]
    /\ via \in [Job -> 0 .. MaxConn]
    /\ run \in [Job -> {"none", "busy", "refused"} \cup Ended]
    /\ seq \in [Job -> 0 .. MaxEvents]
    /\ on \in [Job -> 0 .. MaxConn]
    /\ folded \subseteq ToolJob

\* get_*_status: a poll never reports a verdict the node did not reach, on
\* whichever connection the job was dispatched and polled.
PollIsTruth ==
    \A j \in Job :
        /\ Poll(j) = "completed" => run[j] = "ok"
        /\ Poll(j) = "failed" => run[j] = "broken"

\* The result of job j was sent and the server has handled it.
Judged(j) ==
    /\ on[j] # 0
    /\ \A i \in DOMAIN up[on[j]] :
          ~(up[on[j]][i][1] = "result" /\ up[on[j]][i][2] = j)

\* "Initialize build snapshot ... before send, like the WDA job dispatch, so a
\* fast progress event cannot race the init": a result that comes back on the
\* connection of the dispatch always reaches the snapshot, whatever became of
\* the call meanwhile.
ResultReachesSnapshot ==
    \A j \in Job : Judged(j) /\ on[j] = via[j] =>
        snap[via[j]][j].status \in Terminal

\* "Keep only last 20 events": a build's or install's snapshot lists the newest
\* events up to the stage it shows, with no gap.
NewestEventsListed ==
    \A c \in Conn, j \in BuildJob \cup ToolJob :
        LET s == snap[c][j]
            n == IF s.shown < EventCap THEN s.shown ELSE EventCap
        IN s.events = [i \in 1 .. n |-> s.shown - n + i]
=============================================================================

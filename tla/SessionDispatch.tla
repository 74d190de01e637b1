--------------------------- MODULE SessionDispatch ---------------------------
(***************************************************************************)
(* The session RPCs of NodeService: a request reads the store, takes the   *)
(* node's live Connection, registers an ack waiter, sends one frame and    *)
(* waits for the ack, then writes the session's placement row.  Requests   *)
(* interleave with each other, with the node, with connections that drop   *)
(* and come back, and with the deletion of a node.                         *)
(*                                                                         *)
(* An action is a stretch of code between two awaits or one database       *)
(* statement.  A request sends one frame under a fresh server_frame_id, so *)
(* a frame, its waiter and its revision are named by the request.          *)
(***************************************************************************)
EXTENDS Integers, Sequences, FiniteSets

CONSTANTS Node, Session, Req,
          None,
          Op,          \* the RPCs the requests may be, of AnyOp
          Capable,     \* nodes whose capabilities and modes satisfy the specs
          Deletable,   \* nodes an admin may delete
          Buffer,      \* frames the downstream queue holds (64 in the code)
          MaxSessions  \* max_sessions of every node's capacity, 0 unlimited

AnyOp == {"create", "delete", "config", "input"}

ASSUME SessionDispatchAssumption ==
    /\ None \notin Node \cup Req \cup Session
    /\ None \notin AnyOp
    /\ Op \subseteq AnyOp
    /\ Capable \subseteq Node
    /\ Deletable \subseteq Node
    /\ Buffer \in Nat \ {0}
    /\ MaxSessions \in Nat

VARIABLES
    rows,      \* nodes with an approved row
    purge,     \* how far delete_node has come for each node
    online,    \* nodes with a connection in the Registry
    fresh,     \* online nodes heard of within the heartbeat timeout
    active,    \* Connection._active_session_ids
    acks,      \* Connection._acks: the requests with a waiter
    down,      \* frames on their way to the node
    up,        \* acks on their way to the server
    held,      \* sessions the node runs
    created,   \* <<node, session>> pairs the node ever acknowledged holding
    answer,    \* how the node answered the request's frame
    binding,   \* the ac_node_sessions row of each session
    pc,        \* where each request is
    op, sess,  \* the request's RPC and session
    todo,      \* nodes _select_node has still to examine
    target,    \* the node the request has settled on
    fut        \* the request's ack future

storeVars == <<rows, purge, binding>>
connVars  == <<online, fresh, active>>
wireVars  == <<down, up>>
nodeVars  == <<held, created, answer>>
reqVars   == <<op, sess, todo, target>>
vars == <<storeVars, connVars, wireVars, nodeVars, reqVars, acks, pc, fut>>

Answer == {"ok", "exists", "rejected"}
Future == {"none", "pending", "lost"} \cup Answer
Unbound == [node |-> None, rev |-> None]
Phase == {"idle", "select", "lookup", "ready", "waiting", "find1", "insert1",
          "find2", "insert2", "unbind", "snapshot", "save",
          "done", "error", "conflict"}

Goto(r, phase) == pc' = [pc EXCEPT ![r] = phase]

(***************************************************************************)
(* Connections.                                                            *)
(***************************************************************************)

\* Connection.close that forgets the waiters without failing their futures.
CloseForgets(n) == fut' = fut

\* Connection.close: every waiter still pending fails with ConnectionError.
Close(n) == fut' = [r \in Req |-> IF r \in acks[n] THEN "lost" ELSE fut[r]]

\* The node's connection is gone with everything in flight on it.
Lose(n) ==
    /\ Close(n)
    /\ acks' = [acks EXCEPT ![n] = {}]
    /\ down' = [down EXCEPT ![n] = << >>]
    /\ up' = [up EXCEPT ![n] = << >>]
    /\ active' = [active EXCEPT ![n] = {}]

\* Registry.register: a node with a row connects, superseding its previous
\* connection; note_heartbeat(None) starts it fresh and without sessions.
Connect(n) ==
    /\ n \in rows
    /\ Lose(n)
    /\ online' = online \cup {n}
    /\ fresh' = fresh \cup {n}
    /\ UNCHANGED <<storeVars, nodeVars, reqVars, pc>>

\* Registry.unregister or reap_stale.
Disconnect(n) ==
    /\ n \in online
    /\ Lose(n)
    /\ online' = online \ {n}
    /\ fresh' = fresh \ {n}
    /\ UNCHANGED <<storeVars, nodeVars, reqVars, pc>>

\* NodeConnect heartbeat: note_heartbeat with the node's sessions.
Heartbeat(n) ==
    /\ n \in online
    /\ fresh' = fresh \cup {n}
    /\ active' = [active EXCEPT ![n] = held[n]]
    /\ UNCHANGED <<storeVars, online, wireVars, nodeVars, reqVars, acks, pc, fut>>

\* NODE_HEARTBEAT_TIMEOUT passes without a heartbeat.
Silence(n) ==
    /\ n \in fresh
    /\ fresh' = fresh \ {n}
    /\ UNCHANGED <<storeVars, online, active, wireVars, nodeVars, reqVars,
                   acks, pc, fut>>

(***************************************************************************)
(* The node (external): it handles the frames of its stream in order.      *)
(***************************************************************************)

\* What the node may answer to request r, and the sessions it then holds.
NodeOutcome(n, r) ==
    LET s == sess[r]
    IN CASE op[r] = "create" ->
              IF s \in held[n] THEN {<<"exists", held[n]>>}
              ELSE {<<"ok", held[n] \cup {s}>>, <<"rejected", held[n]>>}
         [] op[r] = "delete" ->
              {<<"ok", held[n] \ {s}>>, <<"rejected", held[n]>>}
         [] op[r] = "config" ->
              {<<IF s \in held[n] THEN "ok" ELSE "rejected", held[n]>>}
         [] OTHER -> {}

\* The node takes the next frame; every command but an input is acked.
NodeHandles(n) ==
    /\ down[n] # << >>
    /\ down' = [down EXCEPT ![n] = Tail(@)]
    /\ LET r == Head(down[n])
       IN \/ /\ op[r] = "input"
             /\ UNCHANGED <<up, nodeVars>>
          \/ \E out \in NodeOutcome(n, r) :
                /\ up' = [up EXCEPT ![n] = Append(@, r)]
                /\ answer' = [answer EXCEPT ![r] = out[1]]
                /\ held' = [held EXCEPT ![n] = out[2]]
                /\ created' = IF op[r] = "create" /\ out[1] # "rejected"
                              THEN created \cup {<<n, sess[r]>>} ELSE created
    /\ UNCHANGED <<storeVars, connVars, reqVars, acks, pc, fut>>

\* deliver_ack matched by the session instead of the frame id.
WaitersBySession(n, r) == {q \in acks[n] : sess[q] = sess[r]}

\* deliver_ack: the waiter the ack's server_frame_id names, if there is one.
Waiters(n, r) == acks[n] \cap {r}

\* Connection.deliver_ack for the next ack of the stream.
DeliverAck(n) ==
    /\ up[n] # << >>
    /\ up' = [up EXCEPT ![n] = Tail(@)]
    /\ LET r == Head(up[n])
           W == Waiters(n, r)
       IN /\ acks' = [acks EXCEPT ![n] = @ \ W]
          /\ fut' = [q \in Req |-> IF q \in W THEN answer[r] ELSE fut[q]]
    /\ UNCHANGED <<storeVars, connVars, down, nodeVars, reqVars, pc>>

(***************************************************************************)
(* The requests.                                                           *)
(***************************************************************************)

\* The RPC starts.  dispatch_session examines the node it was given or, without
\* one, registry.list(); the others look up the session's placement.
Begin(r) ==
    /\ pc[r] = "idle"
    /\ \E o \in Op, s \in Session :
          /\ op' = [op EXCEPT ![r] = o]
          /\ sess' = [sess EXCEPT ![r] = s]
          /\ \/ /\ o = "create"
                /\ \E N \in {{n} : n \in Node} \cup {online} :
                      todo' = [todo EXCEPT ![r] = N]
                /\ Goto(r, "select")
             \/ /\ o # "create"
                /\ Goto(r, "lookup")
                /\ UNCHANGED todo
    /\ UNCHANGED <<storeVars, connVars, wireVars, nodeVars, acks, target, fut>>

\* _select_node reads the record of the next node; only an approved one is
\* considered further.
ReadRecord(r) ==
    /\ pc[r] = "select"
    /\ \E n \in todo[r] :
          /\ todo' = [todo EXCEPT ![r] = @ \ {n}]
          /\ target' = [target EXCEPT ![r] = IF n \in rows THEN n ELSE None]
          /\ Goto(r, IF n \in rows THEN "ready" ELSE "select")
    /\ UNCHANGED <<storeVars, connVars, wireVars, nodeVars, acks, op, sess, fut>>

\* No node is left to examine.
NoNode(r) ==
    /\ pc[r] = "select" /\ todo[r] = {}
    /\ Goto(r, "error")
    /\ UNCHANGED <<storeVars, connVars, wireVars, nodeVars, reqVars, acks, fut>>

\* get_session_node.
ReadBinding(r) ==
    /\ pc[r] = "lookup"
    /\ LET n == binding[sess[r]].node
       IN /\ target' = [target EXCEPT ![r] = n]
          /\ Goto(r, IF n = None THEN "error" ELSE "ready")
    /\ UNCHANGED <<storeVars, connVars, wireVars, nodeVars, acks, op, sess,
                   todo, fut>>

\* _connection_live and _node_satisfies_spec, by the last heartbeat.
Satisfies(n) ==
    /\ n \in fresh
    /\ n \in Capable
    /\ MaxSessions > 0 => Cardinality(active[n]) < MaxSessions

\* The node is connected and, for a new session, fit to run it.
Usable(r) ==
    /\ target[r] \in online
    /\ op[r] = "create" => Satisfies(target[r])

\* Where a request goes when it cannot reach the node: the next candidate,
\* the unbinding that follows regardless, or an error to the caller.
Unreached(r) ==
    CASE op[r] = "create" -> "select"
      [] op[r] = "delete" -> "unbind"
      [] OTHER -> "error"

\* Where a request goes when the node gave no answer.
Unanswered(r) == IF op[r] = "delete" THEN "unbind" ELSE "error"

\* Connection.send: put_nowait finds room.
Room(n) == Len(down[n]) < Buffer

\* registry.lookup, the checks, await_ack and Connection.send: no await lies
\* between them.  An input registers no waiter and is done once it is queued.
Send(r) ==
    LET n == target[r]
    IN /\ pc[r] = "ready"
       /\ \/ /\ ~Usable(r)
             /\ Goto(r, Unreached(r))
             /\ target' = [target EXCEPT ![r] = None]
             /\ UNCHANGED <<down, acks, fut>>
          \/ /\ Usable(r) /\ ~Room(n)
             /\ Goto(r, Unanswered(r))
             /\ target' = [target EXCEPT ![r] = None]
             /\ UNCHANGED <<down, acks, fut>>
          \/ /\ Usable(r) /\ Room(n)
             /\ down' = [down EXCEPT ![n] = Append(@, r)]
             /\ \/ /\ op[r] = "input"
                   /\ Goto(r, "done")
                   /\ UNCHANGED <<acks, fut>>
                \/ /\ op[r] # "input"
                   /\ acks' = [acks EXCEPT ![n] = @ \cup {r}]
                   /\ fut' = [fut EXCEPT ![r] = "pending"]
                   /\ Goto(r, "waiting")
             /\ UNCHANGED target
    /\ UNCHANGED <<storeVars, connVars, up, nodeVars, op, sess, todo>>

\* The wait has no timeout.
NoTimeout(r) == FALSE /\ UNCHANGED vars

\* wait_for gives up on a pending future; cancel_ack removes the waiter.
Timeout(r) ==
    /\ pc[r] = "waiting" /\ fut[r] = "pending"
    /\ acks' = [acks EXCEPT ![target[r]] = @ \ {r}]
    /\ fut' = [fut EXCEPT ![r] = "none"]
    /\ Goto(r, Unanswered(r))
    /\ UNCHANGED <<storeVars, connVars, wireVars, nodeVars, reqVars>>

\* A rejected session is bound like an accepted one.
AfterAckBindsAlways(r) ==
    CASE fut[r] = "lost" -> Unanswered(r)
      [] op[r] = "delete" -> "unbind"
      [] op[r] = "create" -> "find1"
      [] OTHER -> IF fut[r] = "ok" THEN "snapshot" ELSE "done"

\* What the ack leads to: an accepted or already existing session is bound, a
\* rejected one is reported; a deletion unbinds whatever the node said; an
\* accepted configuration is recorded.
AfterAck(r) ==
    CASE fut[r] = "lost" -> Unanswered(r)
      [] op[r] = "delete" -> "unbind"
      [] op[r] = "create" -> IF fut[r] \in {"ok", "exists"} THEN "find1" ELSE "done"
      [] OTHER -> IF fut[r] = "ok" THEN "snapshot" ELSE "done"

\* The handler resumes with its future resolved.
Resume(r) ==
    /\ pc[r] = "waiting" /\ fut[r] # "pending"
    /\ Goto(r, AfterAck(r))
    /\ fut' = [fut EXCEPT ![r] = "none"]
    /\ UNCHANGED <<storeVars, connVars, wireVars, nodeVars, reqVars, acks>>

(***************************************************************************)
(* The placement row.                                                      *)
(***************************************************************************)

Placement(r) == [node |-> target[r], rev |-> None]

\* bind_session_to_node, the locked read: an existing row is updated in the
\* same transaction, its revisions reset.
FindBinding(r) ==
    /\ pc[r] \in {"find1", "find2"}
    /\ IF binding[sess[r]] # Unbound
       THEN /\ binding' = [binding EXCEPT ![sess[r]] = Placement(r)]
            /\ Goto(r, "done")
       ELSE /\ Goto(r, IF pc[r] = "find1" THEN "insert1" ELSE "insert2")
            /\ UNCHANGED binding
    /\ UNCHANGED <<rows, purge, connVars, wireVars, nodeVars, reqVars, acks, fut>>

\* A first lost insert race is raised instead of retried.
LostInsertRaises(r) == "conflict"

\* IntegrityError: the first one is retried, the second one is raised.
LostInsert(r) == IF pc[r] = "insert1" THEN "find2" ELSE "conflict"

\* bind_session_to_node, the insert.
InsertBinding(r) ==
    /\ pc[r] \in {"insert1", "insert2"}
    /\ IF binding[sess[r]] = Unbound
       THEN /\ binding' = [binding EXCEPT ![sess[r]] = Placement(r)]
            /\ Goto(r, "done")
       ELSE /\ Goto(r, LostInsert(r))
            /\ UNCHANGED binding
    /\ UNCHANGED <<rows, purge, connVars, wireVars, nodeVars, reqVars, acks, fut>>

\* unbind_session, the end of delete_node_session.
Unbind(r) ==
    /\ pc[r] = "unbind"
    /\ binding' = [binding EXCEPT ![sess[r]] = Unbound]
    /\ Goto(r, "done")
    /\ UNCHANGED <<rows, purge, connVars, wireVars, nodeVars, reqVars, acks, fut>>

\* update_session_config_snapshot, the read: SessionNotBound is swallowed.
ReadSnapshot(r) ==
    /\ pc[r] = "snapshot"
    /\ Goto(r, IF binding[sess[r]] = Unbound THEN "done" ELSE "save")
    /\ UNCHANGED <<storeVars, connVars, wireVars, nodeVars, reqVars, acks, fut>>

\* update_session_config_snapshot, the write of the columns it names: nothing
\* when the row has gone meanwhile.
SaveSnapshot(r) ==
    /\ pc[r] = "save"
    /\ binding' = IF binding[sess[r]] = Unbound THEN binding
                  ELSE [binding EXCEPT ![sess[r]].rev = r]
    /\ Goto(r, "done")
    /\ UNCHANGED <<rows, purge, connVars, wireVars, nodeVars, reqVars, acks, fut>>

(***************************************************************************)
(* NodeService.delete_node: the bindings, the row, the connection.         *)
(***************************************************************************)

DeleteBindings(n) ==
    /\ n \in rows /\ purge[n] = "none"
    /\ binding' = [s \in Session |-> IF binding[s].node = n THEN Unbound
                                     ELSE binding[s]]
    /\ purge' = [purge EXCEPT ![n] = "row"]
    /\ UNCHANGED <<rows, connVars, wireVars, nodeVars, reqVars, acks, pc, fut>>

DeleteRow(n) ==
    /\ purge[n] = "row"
    /\ rows' = rows \ {n}
    /\ purge' = [purge EXCEPT ![n] = "drop"]
    /\ UNCHANGED <<binding, connVars, wireVars, nodeVars, reqVars, acks, pc, fut>>

DropDeleted(n) ==
    /\ purge[n] = "drop"
    /\ purge' = [purge EXCEPT ![n] = "done"]
    /\ Lose(n)
    /\ online' = online \ {n}
    /\ fresh' = fresh \ {n}
    /\ UNCHANGED <<rows, binding, nodeVars, reqVars, pc>>

----------------------------------------------------------------------------
Init ==
    /\ rows = Node
    /\ purge = [n \in Node |-> "none"]
    /\ online = {} /\ fresh = {}
    /\ active = [n \in Node |-> {}]
    /\ acks = [n \in Node |-> {}]
    /\ down = [n \in Node |-> << >>]
    /\ up = [n \in Node |-> << >>]
    /\ held = [n \in Node |-> {}]
    /\ created = {}
    /\ answer = [r \in Req |-> "none"]
    /\ binding = [s \in Session |-> Unbound]
    /\ pc = [r \in Req |-> "idle"]
    /\ op = [r \in Req |-> None]
    /\ sess = [r \in Req |-> None]
    /\ todo = [r \in Req |-> {}]
    /\ target = [r \in Req |-> None]
    /\ fut = [r \in Req |-> "none"]

RequestStep(r) ==
    \/ ReadRecord(r) \/ NoNode(r) \/ ReadBinding(r) \/ Send(r)
    \/ Timeout(r) \/ Resume(r)
    \/ FindBinding(r) \/ InsertBinding(r) \/ Unbind(r)
    \/ ReadSnapshot(r) \/ SaveSnapshot(r)

ConnStep(n) ==
    \/ Connect(n) \/ Disconnect(n) \/ Heartbeat(n) \/ Silence(n)
    \/ NodeHandles(n) \/ DeliverAck(n)

DeleteStep(n) == DeleteBindings(n) \/ DeleteRow(n) \/ DropDeleted(n)


Next ==
    \/ \E r \in Req : Begin(r) \/ RequestStep(r)
    \/ \E n \in Node : ConnStep(n)
    \/ \E n \in Deletable : DeleteStep(n)

Spec == Init /\ [][Next]_vars

\* The event loop runs a handler whose await is over, and wait_for always
\* ends; nothing is assumed of the node or its connection.
FairSpec == Spec /\ \A r \in Req : WF_vars(RequestStep(r))

----------------------------------------------------------------------------
\* The type of the state; the downstream queue never exceeds its capacity.
TypeOK ==
    /\ rows \subseteq Node
    /\ purge \in [Node -> {"none", "row", "drop", "done"}]
    /\ online \subseteq Node /\ fresh \subseteq online
    /\ active \in [Node -> SUBSET Session]
    /\ acks \in [Node -> SUBSET Req]
    /\ down \in [Node -> Seq(Req)]
    /\ \A n \in Node : Len(down[n]) <= Buffer
    /\ up \in [Node -> Seq(Req)]
    /\ held \in [Node -> SUBSET Session]
    /\ created \subseteq Node \X Session
    /\ answer \in [Req -> Answer \cup {"none"}]
    /\ binding \in [Session -> [node : Node \cup {None}, rev : Req \cup {None}]]
    /\ pc \in [Req -> Phase]
    /\ op \in [Req -> AnyOp \cup {None}]
    /\ sess \in [Req -> Session \cup {None}]
    /\ todo \in [Req -> SUBSET Node]
    /\ target \in [Req -> Node \cup {None}]
    /\ fut \in [Req -> Future]

\* A caller blocked on an ack waits on a connection that is in the Registry and
\* still knows it: closing fails every waiter, a timeout removes its own, so no
\* caller waits for a connection that is gone and no waiter outlives its call.
WaitersAreCallers ==
    /\ \A n \in Node : acks[n] = {r \in Req : fut[r] = "pending" /\ target[r] = n}
    /\ \A r \in Req : fut[r] = "pending" => target[r] \in online

\* A call is answered with what the node said of its own frame, never with the
\* ack of another command for the same session.
AnswerIsOwn == \A r \in Req : fut[r] \in Answer => fut[r] = answer[r]

\* A placement row names a node that acknowledged holding the session, and its
\* revision is one the node acknowledged: no timeout, rejection or lost
\* connection leaves a placement behind.
PlacementWasAcked ==
    \A s \in Session :
        /\ binding[s].node # None => <<binding[s].node, s>> \in created
        /\ binding[s].rev # None => answer[binding[s].rev] = "ok"

\* A row of the session may have been removed: by a deletion of the session
\* that is done, or of a node that has begun.
Unbinding(s) ==
    \/ \E q \in Req : op[q] = "delete" /\ sess[q] = s /\ pc[q] = "done"
    \/ \E n \in Node : purge[n] # "none"

\* A dispatch the node accepted fails on the primary key of its row only when a
\* deletion took the winner's row away before the retry and a third call put
\* another there: "makes the second writer harmless".
SecondWriterHarmless ==
    \A r \in Req : pc[r] = "conflict" => Unbinding(sess[r])

\* Every call that starts is answered, whatever the node does.
CallsEnd ==
    \A r \in Req : pc[r] # "idle" ~> pc[r] \in {"done", "error", "conflict"}
============================================================================

---------------------------- MODULE NodeStreams ----------------------------
(***************************************************************************)
(* The exchanges multiplexed over one node's connection: followers of a    *)
(* session or of a tool run, reverse-proxy tunnels, forward-proxy requests *)
(* and one-shot calls (host commands, environments, upload chunks, ...).   *)
(* Each registers a queue or a future in a table of the Connection, sends  *)
(* its request, reads what the node's stream loop delivers under its key   *)
(* and removes the key when it ends.                                       *)
(*                                                                         *)
(* A reader is one request served by the server.  The followers of a       *)
(* session or of a run, and the chunks of an upload, share the key their   *)
(* caller chose; every other reader has a fresh UUID.  A response is the   *)
(* frames 1 .. Chunks in order, the last of which is also marked done      *)
(* (result, EXITED); Fault stands for a frame with an error and Gone for   *)
(* the sentinel, or the exception, that close() leaves.                    *)
(***************************************************************************)
EXTENDS Naturals, Sequences

CONSTANTS Readers,    \* the requests served
          Mixes,      \* what each of them may be
          Buffer,     \* frames a reader's queue holds
          Chunks,     \* frames of one response
          MaxConns    \* bound on the node's registrations

Fault == Chunks + 1
Gone == Chunks + 2
Conn == 1 .. MaxConns

Followers == {"session", "toolrun"}
Tunnels == {"tunnel", "proxy"}
Calls == {"call", "upload"}
Kinds == Followers \cup Tunnels \cup Calls
\* The kinds whose key the caller chose.
Shared == {"session", "toolrun", "upload"}

ASSUME NodeStreamsAssumption ==
    /\ Mixes \subseteq [Readers -> Kinds]
    /\ Buffer \in Nat \ {0}
    /\ Chunks \in Nat \ {0}
    /\ MaxConns \in Nat

Phases == {"idle", "wait", "head", "body", "ended"}
Endings == {"none", "whole", "cut", "failed", "left", "abandoned"}

VARIABLES
    kind,      \* what each reader is
    live,      \* the connection a lookup finds, 0 when the node is offline
    made,      \* connections registered so far
    table,     \* the readers registered on each connection
    asked,     \* readers whose request the node may still answer
    sent,      \* frames the node has sent of each reader's response
    phase,     \* where the handler is: waiting for the first frame, holding
               \* it, or streaming
    conn,      \* the connection the handler holds, 0 outside its run
    first,     \* the frame a handler holds while its response starts, or 0
    queue,     \* frames delivered and not yet read
    got,       \* the chunks passed on to the client
    how,       \* how the exchange ended
    lost,      \* readers whose full queue dropped a frame
    ousted     \* readers another one's registration or end removed

nodeVars == <<asked, sent>>
wireVars == <<live, made>>
readerVars == <<phase, conn, first, got, how>>
streamVars == <<kind, wireVars, table, nodeVars, readerVars, queue, lost, ousted>>

SameKey(r, s) == r = s \/ (kind[r] = kind[s] /\ kind[r] \in Shared)
Others(r) == {s \in Readers \ {r} : SameKey(r, s)}
Ended(r) == phase[r] = "ended"
Open(r) == phase[r] \in {"wait", "head", "body"}

StreamsInit ==
    /\ kind \in Mixes
    /\ live = 0 /\ made = 0
    /\ table = [c \in Conn |-> {}]
    /\ asked = {} /\ sent = [r \in Readers |-> 0]
    /\ phase = [r \in Readers |-> "idle"]
    /\ conn = [r \in Readers |-> 0]
    /\ first = [r \in Readers |-> 0]
    /\ queue = [r \in Readers |-> << >>]
    /\ got = [r \in Readers |-> {}]
    /\ how = [r \in Readers |-> "none"]
    /\ lost = {} /\ ousted = {}

(***************************************************************************)
(* The tables of a Connection.                                             *)
(***************************************************************************)

\* bind_sink, open_*, await_*: the reader takes its key, whoever held it.
Register(c, r) ==
    /\ table' = [table EXCEPT ![c] = (@ \ Others(r)) \cup {r}]
    /\ ousted' = ousted \cup (table[c] \cap Others(r))

\* unbind_sink, close_*, cancel_*: the key goes, whoever holds it.
Unregister(c, r) ==
    IF c = 0 THEN UNCHANGED <<table, ousted>>
    ELSE /\ table' = [table EXCEPT ![c] = @ \ ({r} \cup Others(r))]
         /\ ousted' = ousted \cup (table[c] \cap Others(r))

\* The queues after frame f reached those of the readers in to.
Put(to, f) ==
    [r \in Readers |-> IF r \in to /\ Len(queue[r]) < Buffer
                         THEN Append(queue[r], f) ELSE queue[r]]
Overrun(to) == {r \in to : Len(queue[r]) >= Buffer}

\* deliver_*: the reader that holds the key now has the frame, or drops it
\* when its queue is full; a one-shot waiter is removed as it is answered.
Deliver(r, f) ==
    LET to == {s \in table[live] : SameKey(r, s)}
    IN /\ queue' = Put(to, f)
       /\ lost' = lost \cup Overrun(to)
       /\ table' = [table EXCEPT ![live] = @ \ {s \in to : kind[s] \in Calls}]

(***************************************************************************)
(* Connections.                                                            *)
(***************************************************************************)

\* close() that clears the tables and wakes nobody.
CloseQuietly(c) ==
    /\ table' = [table EXCEPT ![c] = {r \in @ : kind[r] = "session"}]
    /\ UNCHANGED <<queue, lost>>

\* close(): pending futures fail, queues with room get the sentinel, and all
\* tables but that of the session sinks, which hear nothing, are cleared.
Close(c) ==
    LET woken == {r \in table[c] : kind[r] # "session"}
    IN /\ queue' = Put(woken, Gone)
       /\ lost' = lost \cup Overrun(woken)
       /\ table' = [table EXCEPT ![c] = @ \ woken]

\* Registry.register: a node that is still connected is superseded.
Connect ==
    /\ made < MaxConns
    /\ made' = made + 1
    /\ live' = made'
    /\ IF live = 0 THEN UNCHANGED <<table, queue, lost>> ELSE Close(live)
    /\ UNCHANGED <<kind, nodeVars, readerVars, ousted>>

Disconnect ==
    /\ live # 0
    /\ live' = 0
    /\ Close(live)
    /\ UNCHANGED <<kind, made, nodeVars, readerVars, ousted>>

(***************************************************************************)
(* Starting an exchange.  The lookup, the registration and the send have   *)
(* no suspension point between them.                                       *)
(***************************************************************************)

Start(r, p) ==
    /\ live # 0
    /\ Register(live, r)
    /\ phase' = [phase EXCEPT ![r] = p]
    /\ conn' = [conn EXCEPT ![r] = live]
    /\ UNCHANGED <<kind, wireVars, first, got, how, queue, lost>>

\* The request is refused before anything is registered: no body, no token,
\* an unplaced session, an offline node.
Reject(r) ==
    /\ phase' = [phase EXCEPT ![r] = "ended"]
    /\ how' = [how EXCEPT ![r] = "failed"]
    /\ UNCHANGED <<kind, wireVars, table, nodeVars, conn, first, got, queue,
                   lost, ousted>>

\* The downstream queue is full: the entry just made is removed, by its key.
Refuse(r) ==
    /\ live # 0
    /\ Unregister(live, r)
    /\ phase' = [phase EXCEPT ![r] = "ended"]
    /\ how' = [how EXCEPT ![r] = "failed"]
    /\ UNCHANGED <<kind, wireVars, nodeVars, conn, first, got, queue, lost>>

\* A follower sends nothing: it listens from now on.
Follow(r) == Start(r, "body") /\ UNCHANGED nodeVars

Ask(r) == Start(r, "wait") /\ asked' = asked \cup {r} /\ UNCHANGED sent

Starts(r, k) == kind[r] = k /\ phase[r] = "idle"

FollowSession(r) == Starts(r, "session") /\ (Reject(r) \/ Follow(r))
FollowSessionJson(r) == Starts(r, "session") /\ (Reject(r) \/ Follow(r))
FollowToolRun(r) == Starts(r, "toolrun") /\ (Reject(r) \/ Follow(r))
FollowToolRunJson(r) == Starts(r, "toolrun") /\ (Reject(r) \/ Follow(r))
ProxySession(r) == Starts(r, "tunnel") /\ (Reject(r) \/ Refuse(r) \/ Ask(r))
NodeProxy(r) == Starts(r, "proxy") /\ (Reject(r) \/ Refuse(r) \/ Ask(r))
UploadChunk(r) == Starts(r, "upload") /\ (Reject(r) \/ Refuse(r) \/ Ask(r))

\* Calls that one frame answers and that store nothing: host commands, the
\* terminal list, shared and system environments, iOS devices and their
\* runners, and the children a manager launches or stops (where a rejection
\* only means that there is nobody to ask).
Call(r) == Starts(r, "call") /\ (Reject(r) \/ Refuse(r) \/ Ask(r))
HostExec(r) == Call(r)
QueryTerminals(r) == Call(r)
EnvironmentRelay(r) == Call(r)
SystemEnvRelay(r) == Call(r)
IosRelay(r) == Call(r)
RunnerControl(r) == Call(r)
ChildRelay(r) == Call(r)

\* start_tool_run whose send is refused closes the run's queue, which a
\* follower opened; one that is sent changes nothing here.
StartToolRunRefused(r) ==
    /\ live # 0
    /\ kind[r] = "toolrun" /\ r \in table[live]
    /\ table' = [table EXCEPT ![live] = @ \ {r}]
    /\ ousted' = ousted \cup {r}
    /\ UNCHANGED <<kind, wireVars, nodeVars, readerVars, queue, lost>>

(***************************************************************************)
(* The node.  It may answer late, on a later connection, or never.         *)
(***************************************************************************)

\* The next frame of a response, of a run or of a session.
NodeSends(r) ==
    /\ live # 0
    /\ kind[r] \in Tunnels => r \in asked
    /\ kind[r] \notin Calls
    /\ sent[r] < Chunks
    /\ sent' = [s \in Readers |-> IF SameKey(r, s) THEN sent[r] + 1 ELSE sent[s]]
    /\ Deliver(r, sent[r] + 1)
    /\ UNCHANGED <<kind, wireVars, asked, readerVars, ousted>>

NodeAnswers(r) ==
    /\ live # 0
    /\ kind[r] \in Calls /\ r \in asked
    /\ asked' = asked \ {r}
    /\ Deliver(r, Chunks)
    /\ UNCHANGED <<kind, wireVars, sent, readerVars, ousted>>

\* A tunnel's target failed: the response ends with an error frame.
NodeFails(r) ==
    /\ live # 0
    /\ kind[r] \in Tunnels /\ r \in asked
    /\ sent[r] < Chunks
    /\ asked' = asked \ {r}
    /\ Deliver(r, Fault)
    /\ UNCHANGED <<kind, wireVars, sent, readerVars, ousted>>

(***************************************************************************)
(* Reading.                                                                *)
(***************************************************************************)

\* Where a handler's cleanup looks for its entry: a tool run's follower asks
\* the registry again, the others kept the connection.
CleansUpAt(r) == IF kind[r] = "toolrun" THEN live ELSE conn[r]

\* The end of a handler: its entry is removed by its key.
Finish(r, h) ==
    /\ Unregister(CleansUpAt(r), r)
    /\ phase' = [phase EXCEPT ![r] = "ended"]
    /\ how' = [how EXCEPT ![r] = h]
    /\ conn' = [conn EXCEPT ![r] = 0]
    /\ queue' = [queue EXCEPT ![r] = << >>]

\* An end that leaves the entry in the table.
FinishLeaking(r, h) ==
    /\ phase' = [phase EXCEPT ![r] = "ended"]
    /\ how' = [how EXCEPT ![r] = h]
    /\ conn' = [conn EXCEPT ![r] = 0]
    /\ queue' = [queue EXCEPT ![r] = << >>]
    /\ UNCHANGED <<table, ousted>>

\* The first frame of a tunnel or the answer of a call, which may be an ack
\* that is not ok.
First(r) ==
    /\ phase[r] = "wait" /\ queue[r] # << >>
    /\ LET f == Head(queue[r])
       IN \/ /\ f \in {Fault, Gone}
             /\ Finish(r, "failed")
             /\ UNCHANGED <<first, got>>
          \/ /\ f <= Chunks /\ kind[r] \in Calls
             /\ \E h \in {"whole", "failed"} : Finish(r, h)
             /\ got' = [got EXCEPT ![r] = {f}]
             /\ UNCHANGED first
          \/ /\ f <= Chunks /\ kind[r] \in Tunnels
             /\ phase' = [phase EXCEPT ![r] = "head"]
             /\ first' = [first EXCEPT ![r] = f]
             /\ queue' = [queue EXCEPT ![r] = Tail(@)]
             /\ UNCHANGED <<table, ousted, conn, got, how>>
    /\ UNCHANGED <<kind, wireVars, nodeVars, lost>>

\* A body iterator that passes the first frame's headers on and not its body.
BeginWithoutBody(r) ==
    /\ phase[r] = "head"
    /\ first' = [first EXCEPT ![r] = 0]
    /\ IF first[r] = Chunks
         THEN Finish(r, "whole")
         ELSE /\ phase' = [phase EXCEPT ![r] = "body"]
              /\ UNCHANGED <<table, ousted, conn, how, queue>>
    /\ UNCHANGED <<kind, wireVars, nodeVars, got, lost>>

\* The response's body iterator starts with the first frame's body.
Begin(r) ==
    /\ phase[r] = "head"
    /\ got' = [got EXCEPT ![r] = {first[r]}]
    /\ first' = [first EXCEPT ![r] = 0]
    /\ IF first[r] = Chunks
         THEN Finish(r, "whole")
         ELSE /\ phase' = [phase EXCEPT ![r] = "body"]
              /\ UNCHANGED <<table, ousted, conn, how, queue>>
    /\ UNCHANGED <<kind, wireVars, nodeVars, lost>>

\* The client goes before the iterator starts: its cleanup never runs.
Abandon(r) ==
    /\ phase[r] = "head"
    /\ phase' = [phase EXCEPT ![r] = "ended"]
    /\ how' = [how EXCEPT ![r] = "abandoned"]
    /\ conn' = [conn EXCEPT ![r] = 0] /\ first' = [first EXCEPT ![r] = 0]
    /\ queue' = [queue EXCEPT ![r] = << >>]
    /\ UNCHANGED <<kind, wireVars, table, nodeVars, got, lost, ousted>>

\* A frame of a stream: the last ends it, and so does the sentinel, without a
\* word to the client.  A forward proxy raises on an error frame; a tunnel
\* only looks at its body and done mark, so such a frame ends it or not.
Receive(r) ==
    /\ phase[r] = "body" /\ queue[r] # << >>
    /\ LET f == Head(queue[r])
           read == queue' = [queue EXCEPT ![r] = Tail(@)]
           goesOn == read /\ UNCHANGED <<table, ousted, phase, conn, how>>
       IN \/ /\ f <= Chunks
             /\ got' = [got EXCEPT ![r] = @ \cup {f}]
             /\ IF f = Chunks THEN Finish(r, "whole") ELSE goesOn
          \/ f = Gone /\ Finish(r, "cut") /\ UNCHANGED got
          \/ /\ f = Fault /\ UNCHANGED got
             /\ \/ kind[r] = "proxy" /\ Finish(r, "failed")
                \/ kind[r] = "tunnel" /\ (Finish(r, "cut") \/ goesOn)
    /\ UNCHANGED <<kind, wireVars, nodeVars, first, lost>>

\* An answer, or the next chunk of a body, has not come in time: a client that
\* already reads a body sees it end.  A follower has no timeout.
TimedOut(r) ==
    /\ phase[r] \in {"wait", "body"} /\ kind[r] \notin Followers
    /\ queue[r] = << >>

\* A handler that waits for the first frame without a limit.
TimeoutOfBodies(r) ==
    /\ phase[r] = "body" /\ TimedOut(r)
    /\ Finish(r, "cut")
    /\ UNCHANGED <<kind, wireVars, nodeVars, first, got, lost>>

\* A timeout that leaves the entry in the table.
TimeoutLeaking(r) ==
    /\ TimedOut(r)
    /\ FinishLeaking(r, IF phase[r] = "wait" THEN "failed" ELSE "cut")
    /\ UNCHANGED <<kind, wireVars, nodeVars, first, got, lost>>

Timeout(r) ==
    /\ TimedOut(r)
    /\ Finish(r, IF phase[r] = "wait" THEN "failed" ELSE "cut")
    /\ UNCHANGED <<kind, wireVars, nodeVars, first, got, lost>>

\* The client of a stream goes.
Leave(r) ==
    /\ phase[r] = "body"
    /\ Finish(r, "left")
    /\ UNCHANGED <<kind, wireVars, nodeVars, first, got, lost>>

(***************************************************************************)
(* The specification.                                                      *)
(***************************************************************************)

Starting(r) ==
    \/ FollowSession(r) \/ FollowSessionJson(r)
    \/ FollowToolRun(r) \/ FollowToolRunJson(r)
    \/ ProxySession(r) \/ NodeProxy(r)
    \/ UploadChunk(r) \/ HostExec(r) \/ QueryTerminals(r)
    \/ EnvironmentRelay(r) \/ SystemEnvRelay(r) \/ IosRelay(r)
    \/ RunnerControl(r) \/ ChildRelay(r)

\* What the event loop does for a reader without anyone's help.
ReaderStep(r) == First(r) \/ Begin(r) \/ Receive(r) \/ Timeout(r)

StreamsNext ==
    \/ Connect \/ Disconnect
    \/ \E r \in Readers :
          \/ Starting(r) \/ StartToolRunRefused(r)
          \/ NodeSends(r) \/ NodeAnswers(r) \/ NodeFails(r)
          \/ ReaderStep(r) \/ Abandon(r) \/ Leave(r)

\* The event loop runs whatever is ready and its timers expire; the node, the
\* clients and the network may stop.
StreamsSpec == StreamsInit /\ [][StreamsNext]_streamVars /\ \A r \in Readers : WF_streamVars(ReaderStep(r))

(***************************************************************************)
(* Properties.                                                             *)
(***************************************************************************)

\* Every variable has its type, and no queue outgrows its bound.
StreamsTypeOK ==
    /\ kind \in Mixes
    /\ live \in 0 .. MaxConns /\ made \in 0 .. MaxConns
    /\ table \in [Conn -> SUBSET Readers]
    /\ asked \subseteq Readers
    /\ sent \in [Readers -> 0 .. Chunks]
    /\ phase \in [Readers -> Phases]
    /\ conn \in [Readers -> 0 .. MaxConns]
    /\ first \in [Readers -> 0 .. Chunks]
    /\ queue \in [Readers -> Seq(1 .. Gone)]
    /\ \A r \in Readers : Len(queue[r]) <= Buffer
    /\ got \in [Readers -> SUBSET (1 .. Chunks)]
    /\ how \in [Readers -> Endings]
    /\ lost \subseteq Readers /\ ousted \subseteq Readers

\* No handler leaves its entry behind: a registered reader is still reading on
\* the connection that has it, on every path through refusals, timeouts,
\* errors, disconnects and takeovers.  The exception is a client that went
\* before the response's body iterator ran (tunnel.py:103).
RegisteredIsReading ==
    \A c \in Conn : \A r \in table[c] :
        (Open(r) /\ conn[r] = c) \/ how[r] = "abandoned"

\* A response that ended as complete has every chunk, unless its queue was full
\* once and a chunk was dropped (registry.py:375).
WholeUnlessOverrun ==
    \A r \in Readers :
        how[r] = "whole" /\ kind[r] \in Tunnels => got[r] = 1 .. Chunks \/ r \in lost

\* The end of a connection reaches everyone who reads from it: an exchange still
\* open is registered on the live connection, or an end is in its queue, or the
\* sentinel met a full queue, or another reader took its key (registry.py:847).
\* Followers of a session are left out: close() does not touch the sinks.
ClosedWakes ==
    \A r \in Readers :
        Open(r) /\ kind[r] # "session" =>
            \/ live # 0 /\ conn[r] = live /\ r \in table[live]
            \/ \E i \in DOMAIN queue[r] :
                  queue[r][i] = Gone \/ (kind[r] \in Calls /\ queue[r][i] = Chunks)
            \/ r \in lost \cup ousted

\* A request that has been sent ends: the answer, an error, a timeout or a body
\* that finishes or stalls, whatever the node and the network do.
ExchangesEnd ==
    \A r \in Readers :
        Open(r) /\ kind[r] \notin Followers ~> Ended(r)

=============================================================================

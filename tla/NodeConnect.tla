----------------------------- MODULE NodeConnect -----------------------------
(***************************************************************************)
(* The life of a NodeConnect stream: hello, TOTP authentication against    *)
(* the node ledger, registration in the in-memory Registry, the bounded    *)
(* downstream queue and its pump, and every way a connection ends (node    *)
(* EOF, pump failure, supersession by a reconnect, revoke, delete, reap).  *)
(*                                                                         *)
(* The server is one asyncio loop: code between two awaits runs without    *)
(* interruption, so an action is one such stretch and the awaits are where *)
(* handlers interleave.  A stream handler creates at most one Connection,  *)
(* so a Connection is named by its stream.                                 *)
(***************************************************************************)
EXTENDS Integers, FiniteSets

CONSTANTS Node,             \* node ids
          Stream,           \* NodeConnect handler invocations
          None,             \* "no connection" in Registry._conns
          DownstreamBuffer, \* capacity of Connection._downstream (64 in the code)
          StepWindow,       \* TOTP steps of accepted skew (2 in the code)
          MaxStep           \* bound: the last TOTP step the clock reaches

ASSUME NodeConnectAssumption ==
    /\ None \notin Stream \cup Node
    /\ DownstreamBuffer \in Nat \ {0}
    /\ StepWindow \in Nat
    /\ MaxStep \in Nat

VARIABLES
    ledger,     \* status column of the node's row, "absent" without a row
    lastSeen,   \* nodes whose row has a last_seen_at
    seen,       \* ReplayCache._seen: claimed <<node, code>>, a code is its step
    clock,      \* the current TOTP step
    admin,      \* what an admin request still has to do for the node
    conns,      \* Registry._conns
    pc,         \* where each stream handler is
    nodeOf,     \* the node id the register frame names, None before it
    serverStep, \* the step of the server_time in the hello frame
    rec,        \* the row's status as read for authentication
    life,       \* the stream's Connection: not created, open or _closed
    frames,     \* frames waiting in Connection._downstream
    sentinel,   \* connections whose queue ends with the None sentinel
    fresh       \* open connections last heard of within the liveness timeout

ledgerVars == <<ledger, lastSeen, admin>>
replayVars == <<seen, clock>>
streamVars == <<nodeOf, serverStep, rec>>
connVars   == <<conns, life, frames, sentinel, fresh>>
vars == <<ledgerVars, replayVars, streamVars, connVars, pc>>

Status == {"absent", "pending", "approved", "revoked"}
Phase == {"idle", "hello", "fetched", "insert", "update", "reread", "ack",
          "configure", "serving", "stopping", "ended"}
Step == 0 .. MaxStep

\* One claim outlives the widest validating window plus a 30 s margin.
Ttl == 2 * StepWindow + 2

(***************************************************************************)
(* Registry, Connection and ReplayCache operations, each one synchronous.  *)
(***************************************************************************)

\* Connection.close of every connection in S: idempotent; the sentinel is
\* put_nowait, so a full queue drops it.
Close(S) ==
    /\ life' = [s \in Stream |-> IF s \in S THEN "closed" ELSE life[s]]
    /\ fresh' = fresh \ S
    /\ sentinel' = sentinel \cup {s \in S : life[s] = "open"
                                         /\ frames[s] < DownstreamBuffer}

\* Registry._fire_disconnect -> NodeService._on_node_disconnect: the replay
\* claims of the nodes in N are dropped.
FireDisconnect(N) == seen' = {k \in seen : k[1] \notin N}

\* Registry.register that leaves the connection it replaces open.
RegisterKeepsOld(s) ==
    /\ conns' = [conns EXCEPT ![nodeOf[s]] = s]
    /\ life' = [life EXCEPT ![s] = "open"]
    /\ fresh' = fresh \cup {s}
    /\ UNCHANGED <<seen, frames, sentinel>>

\* Registry.register followed by note_heartbeat(None): a new Connection for
\* the stream, the previous one of the node closed, no disconnect fired.
Register(s) ==
    LET n == nodeOf[s]
        old == {conns[n]} \ {None}
        closed == [t \in Stream |-> IF t \in old THEN "closed" ELSE life[t]]
    IN /\ conns' = [conns EXCEPT ![n] = s]
       /\ life' = [closed EXCEPT ![s] = "open"]
       /\ sentinel' = sentinel \cup {t \in old : life[t] = "open"
                                              /\ frames[t] < DownstreamBuffer}
       /\ fresh' = (fresh \ old) \cup {s}
       /\ UNCHANGED <<seen, frames>>

\* Registry.unregister without the identity check: the teardown of a stale
\* stream removes whatever connection the node has now.
UnregisterAny(s) ==
    /\ conns' = [conns EXCEPT ![nodeOf[s]] = None]
    /\ FireDisconnect({nodeOf[s]})
    /\ Close({s})
    /\ UNCHANGED frames

\* Registry.unregister that fires the hook for a superseded stream too.
UnregisterFiresAlways(s) ==
    /\ conns' = [conns EXCEPT ![nodeOf[s]] = IF @ = s THEN None ELSE @]
    /\ FireDisconnect({nodeOf[s]})
    /\ Close({s})
    /\ UNCHANGED frames

\* Registry.unregister: only the current connection is removed and only its
\* removal fires the hook; the connection passed in is closed either way.
Unregister(s) ==
    LET current == conns[nodeOf[s]] = s
    IN /\ conns' = [conns EXCEPT ![nodeOf[s]] = IF current THEN None ELSE @]
       /\ FireDisconnect(IF current THEN {nodeOf[s]} ELSE {})
       /\ Close({s})
       /\ UNCHANGED frames

\* Connections dropped together for the nodes in N: disconnect and reap_stale.
Drop(N) ==
    LET online == {n \in N : conns[n] # None}
    IN /\ conns' = [n \in Node |-> IF n \in N THEN None ELSE conns[n]]
       /\ FireDisconnect(online)
       /\ Close({conns[n] : n \in online})
       /\ UNCHANGED frames

\* Connection.send: refused on a closed connection or a full buffer.
CanSend(s) == life[s] = "open" /\ frames[s] < DownstreamBuffer
Enqueue(s) == frames' = [frames EXCEPT ![s] = IF CanSend(s) THEN @ + 1 ELSE @]

(***************************************************************************)
(* The stream handler, node_connect_asgi, one action per stretch between   *)
(* awaits.                                                                 *)
(***************************************************************************)

Goto(s, phase) == pc' = [pc EXCEPT ![s] = phase]

\* The handler returns and its locals are gone.
End(s) ==
    /\ Goto(s, "ended")
    /\ nodeOf' = [nodeOf EXCEPT ![s] = None]
    /\ serverStep' = [serverStep EXCEPT ![s] = 0]
    /\ rec' = [rec EXCEPT ![s] = "absent"]

\* The handler starts and sends the hello frame with the server time.
Hello(s) ==
    /\ pc[s] = "idle"
    /\ serverStep' = [serverStep EXCEPT ![s] = clock]
    /\ Goto(s, "hello")
    /\ UNCHANGED <<ledgerVars, replayVars, connVars, nodeOf, rec>>

\* No register frame comes: EOF, another frame first, or an empty id or code.
NoRegister(s) ==
    /\ pc[s] = "hello"
    /\ End(s)
    /\ UNCHANGED <<ledgerVars, replayVars, connVars>>

\* The register frame of node n arrives and its row is read.
FetchRecord(s, n) ==
    /\ pc[s] = "hello"
    /\ nodeOf' = [nodeOf EXCEPT ![s] = n]
    /\ rec' = [rec EXCEPT ![s] = ledger[n]]
    /\ Goto(s, "fetched")
    /\ UNCHANGED <<ledgerVars, replayVars, connVars, serverStep>>

\* ReplayCache.claim at the hello's server time: expired claims are pruned,
\* then a code already claimed is refused.  A node derives its code from the
\* hello's server time, so the code is serverStep[s].
Claimed(s) == {k \in seen : serverStep[s] - k[2] <= Ttl}
ClaimKey(s) == <<nodeOf[s], serverStep[s]>>

\* The row admits the node and its code is valid and unclaimed; upsert_node
\* then looks whether the row is still there.
Authenticate(s) ==
    /\ pc[s] = "fetched"
    /\ rec[s] \notin {"absent", "revoked"}
    /\ ClaimKey(s) \notin Claimed(s)
    /\ seen' = Claimed(s) \cup {ClaimKey(s)}
    /\ Goto(s, IF ledger[nodeOf[s]] = "absent" THEN "insert" ELSE "update")
    /\ UNCHANGED <<ledgerVars, connVars, streamVars, clock>>

\* PERMISSION_DENIED: unknown or revoked node, replayed code (the cache was
\* pruned), or a wrong code (the cache was not consulted).
Deny(s) ==
    /\ pc[s] = "fetched"
    /\ \/ seen' = seen
       \/ /\ rec[s] \notin {"absent", "revoked"}
          /\ ClaimKey(s) \in Claimed(s)
          /\ seen' = Claimed(s)
    /\ End(s)
    /\ UNCHANGED <<ledgerVars, connVars, clock>>

\* upsert_node creates the row with the status read before authentication, or
\* refreshes columns other than the status.  A create meets a primary key
\* conflict when the row is back; an update of a deleted row changes nothing.
UpsertWrite(s) ==
    LET n == nodeOf[s]
        conflict == pc[s] = "insert" /\ ledger[n] # "absent"
        created == pc[s] = "insert" /\ ledger[n] = "absent"
    IN /\ pc[s] \in {"insert", "update"}
       /\ ledger' = IF created THEN [ledger EXCEPT ![n] = rec[s]] ELSE ledger
       /\ lastSeen' = IF conflict \/ ledger'[n] = "absent"
                      THEN lastSeen ELSE lastSeen \cup {n}
       /\ IF conflict THEN End(s) ELSE Goto(s, "reread") /\ UNCHANGED streamVars
       /\ UNCHANGED <<admin, replayVars, connVars>>

\* The closing get_node of upsert_node: a row deleted meanwhile ends the stream
\* with an error, a revoked one with PERMISSION_DENIED.
UpsertReread(s) ==
    LET status == ledger[nodeOf[s]]
    IN /\ pc[s] = "reread"
       /\ IF status \in {"absent", "revoked"}
          THEN End(s)
          ELSE /\ rec' = [rec EXCEPT ![s] = "absent"]
               /\ Goto(s, "ack")
               /\ UNCHANGED <<nodeOf, serverStep>>
       /\ UNCHANGED <<ledgerVars, replayVars, connVars>>

\* An error of the configuration push escapes the handler too.
SetupFailsLate(s) ==
    /\ pc[s] \in {"insert", "update", "reread", "ack", "configure"}
    /\ End(s)
    /\ UNCHANGED <<ledgerVars, replayVars, connVars>>

\* A query of upsert_node raises, or the registered frame cannot be sent: the
\* handler ends after the claim and before the registration.
SetupFails(s) ==
    /\ pc[s] \in {"insert", "update", "reread", "ack"}
    /\ End(s)
    /\ UNCHANGED <<ledgerVars, replayVars, connVars>>

\* The registered frame is sent and the connection enters the registry.
RegisterConnection(s) ==
    /\ pc[s] = "ack"
    /\ Register(s)
    /\ Goto(s, "configure")
    /\ UNCHANGED <<ledgerVars, streamVars, clock>>

\* Before the pump starts: the public-ip lookup and proxy configurations, the
\* reopen frame of each host terminal being reattached and the iOS discovery
\* request are enqueued; a frame that cannot be built or sent is skipped.
Configure(s) ==
    /\ pc[s] = "configure"
    /\ \E k \in 0 .. DownstreamBuffer :
           /\ k >= frames[s]
           /\ k > frames[s] => life[s] = "open"
           /\ frames' = [frames EXCEPT ![s] = k]
    /\ Goto(s, "serving")
    /\ UNCHANGED <<ledgerVars, replayVars, streamVars, conns, life, sentinel, fresh>>

\* A pump that skips the sentinel and waits for the next frame.
PumpIgnoresSentinel(s) ==
    /\ pc[s] = "serving"
    /\ \/ /\ frames[s] > 0
          /\ frames' = [frames EXCEPT ![s] = @ - 1]
          /\ UNCHANGED sentinel
       \/ /\ frames[s] = 0
          /\ s \in sentinel
          /\ sentinel' = sentinel \ {s}
          /\ UNCHANGED frames
    /\ UNCHANGED <<ledgerVars, replayVars, streamVars, conns, life, fresh, pc>>

\* downstream_pump takes one item: a frame goes out, the sentinel stops it.
Pump(s) ==
    /\ pc[s] = "serving"
    /\ \/ /\ frames[s] > 0
          /\ frames' = [frames EXCEPT ![s] = @ - 1]
          /\ UNCHANGED <<sentinel, pc>>
       \/ /\ frames[s] = 0
          /\ s \in sentinel
          /\ sentinel' = sentinel \ {s}
          /\ Goto(s, "stopping")
          /\ UNCHANGED frames
    /\ UNCHANGED <<ledgerVars, replayVars, streamVars, conns, life, fresh>>

\* The pump's write fails, or upstream_loop ends (EOF, end-of-stream envelope,
\* disconnect, undecodable frame): stop is set.
StreamBreaks(s) ==
    /\ pc[s] = "serving"
    /\ Goto(s, "stopping")
    /\ UNCHANGED <<ledgerVars, replayVars, connVars, streamVars>>

\* upstream_loop handles a heartbeat: the row is touched, liveness renewed.
Heartbeat(s) ==
    /\ pc[s] = "serving"
    /\ lastSeen' = IF ledger[nodeOf[s]] = "absent"
                   THEN lastSeen ELSE lastSeen \cup {nodeOf[s]}
    /\ fresh' = IF life[s] = "open" THEN fresh \cup {s} ELSE fresh
    /\ UNCHANGED <<ledger, admin, replayVars, streamVars, conns, life, frames,
                   sentinel, pc>>

\* The finally block once stop is set.
Teardown(s) ==
    /\ pc[s] = "stopping"
    /\ Unregister(s)
    /\ End(s)
    /\ UNCHANGED <<ledgerVars, clock>>

(***************************************************************************)
(* The other users of the registry.                                        *)
(***************************************************************************)

\* Any command frame the service sends to a connected node.
SendFrame(n) ==
    /\ conns[n] # None
    /\ CanSend(conns[n])
    /\ Enqueue(conns[n])
    /\ UNCHANGED <<ledgerVars, replayVars, streamVars, conns, life, sentinel,
                   fresh, pc>>

\* The liveness timeout passes without a heartbeat on the connection.
Lapse(s) ==
    /\ life[s] = "open"
    /\ s \in fresh
    /\ fresh' = fresh \ {s}
    /\ UNCHANGED <<ledgerVars, replayVars, streamVars, conns, life, frames,
                   sentinel, pc>>

\* A reaper that walks the ledger's rows instead of the registry.
StaleRows == {n \in Node : ledger[n] # "absent" /\ conns[n] # None
                           /\ conns[n] \notin fresh}

\* Registry.reap_stale: every registered connection past the timeout goes.
Stale == {n \in Node : conns[n] # None /\ conns[n] \notin fresh}
Reap ==
    /\ Stale # {}
    /\ Drop(Stale)
    /\ UNCHANGED <<ledgerVars, streamVars, clock, pc>>

\* onboard_node mints a pending row.
Onboard(n) ==
    /\ admin[n] = "none"
    /\ ledger[n] = "absent"
    /\ ledger' = [ledger EXCEPT ![n] = "pending"]
    /\ UNCHANGED <<lastSeen, admin, replayVars, streamVars, connVars, pc>>

\* approve_node on a row that passes the capability gate.
Approve(n) ==
    /\ admin[n] = "none"
    /\ ledger[n] # "absent"
    /\ ledger' = [ledger EXCEPT ![n] = "approved"]
    /\ UNCHANGED <<lastSeen, admin, replayVars, streamVars, connVars, pc>>

\* revoke_node, and revoke_onboard_node on a node that connected before: the
\* status is committed, the disconnect still to come.
Revoke(n) ==
    /\ admin[n] = "none"
    /\ ledger[n] # "absent"
    /\ ledger' = [ledger EXCEPT ![n] = "revoked"]
    /\ admin' = [admin EXCEPT ![n] = "drop"]
    /\ UNCHANGED <<lastSeen, replayVars, streamVars, connVars, pc>>

\* delete_node: the row is gone, the disconnect still to come.
DeleteRow(n) ==
    /\ admin[n] = "none"
    /\ ledger[n] # "absent"
    /\ ledger' = [ledger EXCEPT ![n] = "absent"]
    /\ lastSeen' = lastSeen \ {n}
    /\ admin' = [admin EXCEPT ![n] = "drop"]
    /\ UNCHANGED <<replayVars, streamVars, connVars, pc>>

\* registry.disconnect, the last effect of revoke_node and delete_node.
Disconnect(n) ==
    /\ admin[n] = "drop"
    /\ Drop({n})
    /\ admin' = [admin EXCEPT ![n] = "none"]
    /\ UNCHANGED <<ledger, lastSeen, streamVars, clock, pc>>

\* revoke_onboard_node finds a node that never connected and asks its manager
\* to stop the child ...
PurgeCheck(n) ==
    /\ admin[n] = "none"
    /\ ledger[n] # "absent"
    /\ n \notin lastSeen
    /\ conns[n] = None
    /\ admin' = [admin EXCEPT ![n] = "purge"]
    /\ UNCHANGED <<ledger, lastSeen, replayVars, streamVars, connVars, pc>>

\* ... and then deletes the row, with no disconnect.
PurgeDelete(n) ==
    /\ admin[n] = "purge"
    /\ ledger' = [ledger EXCEPT ![n] = "absent"]
    /\ lastSeen' = lastSeen \ {n}
    /\ admin' = [admin EXCEPT ![n] = "none"]
    /\ UNCHANGED <<replayVars, streamVars, connVars, pc>>

\* The next TOTP step begins.
Tick ==
    /\ clock < MaxStep
    /\ clock' = clock + 1
    /\ UNCHANGED <<ledgerVars, seen, streamVars, connVars, pc>>

-----------------------------------------------------------------------------

Init ==
    /\ ledger = [n \in Node |-> "absent"]
    /\ lastSeen = {}
    /\ seen = {}
    /\ clock = 0
    /\ admin = [n \in Node |-> "none"]
    /\ conns = [n \in Node |-> None]
    /\ pc = [s \in Stream |-> "idle"]
    /\ nodeOf = [s \in Stream |-> None]
    /\ serverStep = [s \in Stream |-> 0]
    /\ rec = [s \in Stream |-> "absent"]
    /\ life = [s \in Stream |-> "none"]
    /\ frames = [s \in Stream |-> 0]
    /\ sentinel = {}
    /\ fresh = {}

Handler(s) ==
    \/ Hello(s)
    \/ NoRegister(s)
    \/ \E n \in Node : FetchRecord(s, n)
    \/ Authenticate(s)
    \/ Deny(s)
    \/ UpsertWrite(s)
    \/ UpsertReread(s)
    \/ SetupFails(s)
    \/ RegisterConnection(s)
    \/ Configure(s)
    \/ Pump(s)
    \/ StreamBreaks(s)
    \/ Heartbeat(s)
    \/ Teardown(s)

Admin(n) ==
    \/ Onboard(n)
    \/ Approve(n)
    \/ Revoke(n)
    \/ DeleteRow(n)
    \/ Disconnect(n)
    \/ PurgeCheck(n)
    \/ PurgeDelete(n)

Next ==
    \/ \E s \in Stream : Handler(s) \/ Lapse(s)
    \/ \E n \in Node : Admin(n) \/ SendFrame(n)
    \/ Reap
    \/ Tick

Spec == Init /\ [][Next]_vars

\* What the event loop itself carries on with: the handler's own stretches and
\* the pump, whose writes complete.  A node need not speak, close or beat, and
\* no administrator need act.
Progress(s) ==
    \/ UpsertWrite(s) \/ UpsertReread(s) \/ RegisterConnection(s)
    \/ Configure(s) \/ Pump(s) \/ Teardown(s)

FairSpec ==
    /\ Spec
    /\ \A s \in Stream : WF_vars(Progress(s))
    /\ \A n \in Node : WF_vars(Disconnect(n))
    /\ WF_vars(Reap)

-----------------------------------------------------------------------------
(***************************************************************************)
(* Properties.                                                             *)
(***************************************************************************)

\* The type of the state; the downstream queue never exceeds its capacity.
TypeOK ==
    /\ ledger \in [Node -> Status]
    /\ lastSeen \subseteq Node
    /\ seen \subseteq Node \X Step
    /\ clock \in Step
    /\ admin \in [Node -> {"none", "drop", "purge"}]
    /\ conns \in [Node -> Stream \cup {None}]
    /\ pc \in [Stream -> Phase]
    /\ nodeOf \in [Stream -> Node \cup {None}]
    /\ serverStep \in [Stream -> Step]
    /\ rec \in [Stream -> Status]
    /\ life \in [Stream -> {"none", "open", "closed"}]
    /\ frames \in [Stream -> 0 .. DownstreamBuffer]
    /\ sentinel \subseteq Stream
    /\ fresh \subseteq Stream

\* Registry: "A node may only have one live connection at a time".  The open
\* connections are exactly the registered ones, whatever the order of
\* reconnects, teardowns of superseded streams, revocations and reaps: no
\* lookup returns a closed connection and no stream serves an open connection
\* that lookups cannot find.
OpenIsRegistered ==
    \A s \in Stream :
        life[s] = "open" <=> \E n \in Node : conns[n] = s /\ nodeOf[s] = n

\* A connection that is registered has a handler that will unregister it: a
\* handler never ends (or fails before serving) with its connection online.
RegisteredIsHandled ==
    \A n \in Node : conns[n] # None =>
        pc[conns[n]] \in {"configure", "serving", "stopping"}

\* The inductive strengthening of the two: where a handler's phase puts its
\* connection, and that the registry and the open connections name each other.
PhaseInv ==
    \A s \in Stream :
        /\ pc[s] \in {"idle", "hello", "fetched", "insert", "update", "reread",
                      "ack"} => life[s] = "none"
        /\ pc[s] \notin {"idle", "hello", "ended"} => nodeOf[s] \in Node
        /\ pc[s] \in {"configure", "serving", "stopping"} => life[s] # "none"
        /\ pc[s] = "ended" => life[s] # "open"

MapInv ==
    /\ \A s \in Stream : life[s] = "open" =>
           nodeOf[s] \in Node /\ conns[nodeOf[s]] = s
    /\ \A n \in Node : conns[n] # None =>
           life[conns[n]] = "open" /\ nodeOf[conns[n]] = n

IInv == TypeOK /\ PhaseInv /\ MapInv

\* The registry implements the directory it promises: open connections are the
\* online ones, closed connections are retired.
Directory == INSTANCE NodeDirectory
    WITH Conn <- Stream, online <- conns,
         retired <- {s \in Stream : life[s] = "closed"}
RefinesDirectory == Directory!Spec

\* ReplayCache / Registry.register: a node's claims are dropped only when its
\* registered connection goes away (or when they expire), never when a fresh
\* stream supersedes it or the superseded stream is torn down.
ClaimsDropOnDisconnect ==
    [][\A k \in seen \ seen' :
           \/ conns[k[1]] # None /\ conns'[k[1]] = None
           \/ \E s \in Stream : serverStep[s] - k[2] > Ttl]_vars

\* A closed connection whose sentinel was queued ends its stream: the pump
\* drains what was queued before it, stops, and the handler tears down.
SentinelEndsStream ==
    \A s \in Stream : s \in sentinel ~> pc[s] = "ended"

\* wiring's reaper: a registered node that stays silent is dropped.
SilentIsDropped ==
    \A s \in Stream : (life[s] = "open" /\ s \notin fresh)
                        ~> (life[s] = "closed" \/ s \in fresh)

\* revoke_node: "Drop any live connection so the node stops receiving work
\* immediately" - once the request is through, a revoked node is not online.
RevokedIsOffline ==
    \A n \in Node : ledger[n] = "revoked" /\ admin[n] = "none" => conns[n] = None
=============================================================================

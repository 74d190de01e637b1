--------------------------- MODULE HostTerminals ---------------------------
(***************************************************************************)
(* One host terminal of one node, by its stable terminal id: the shell the *)
(* node owns, the bridges (PersistentTerminal with its session, recv queue *)
(* and pump) that the server keeps for it one after the other, the node    *)
(* streams it is rebound to, and the browsers that watch it.               *)
(*                                                                         *)
(* NodeHostTerminalRegistry never awaits while it holds its lock, so each  *)
(* of its locked regions is part of one action.  Bridges and connections   *)
(* are numbered in the order of creation.                                  *)
(***************************************************************************)
EXTENDS Integers, Sequences, FiniteSets

CONSTANTS Browser,    \* browser websockets
          None,       \* no browser
          OutCap,     \* capacity of a recv queue (TERMINAL_OUTPUT_BUFFER, 128)
          ReplayCap,  \* chunks kept for replay (_REPLAY_LIMIT, 256 KiB)
          Buffer,     \* capacity of a connection's downstream queue
          MaxConn,    \* bound: connections of the node
          MaxTerm,    \* bound: bridges opened for the id
          MaxOut      \* bound: chunks one shell prints

ASSUME HostTerminalsAssumption ==
    /\ None \notin Browser
    /\ {OutCap, ReplayCap, Buffer} \subseteq Nat \ {0}
    /\ {MaxConn, MaxTerm, MaxOut} \subseteq Nat

VARIABLES
    made,     \* connections registered so far, the newest is conn "made"
    cur,      \* the node's live connection, 0 without one
    greeting, \* connections whose on_node_connected hook has yet to run
    down,     \* terminal frames queued for the node on cur
    up,       \* terminal frames of the node not handled yet on cur
    shell,    \* the node's PTY: its generation, 0 without one
    opened,   \* shells the node has started
    printed,  \* chunks the shell has printed
    relayed,  \* the node streams the shell on its current stream
    host,     \* NodeHostTerminalRegistry._terminals at this id, 0 if absent
    sess,     \* each bridge's session: not created, open or closed
    sconn,    \* NodeTerminalSession._conn
    recv,     \* NodeTerminalSession._recv_queue
    last,     \* NodeTerminalSession._last_sequence
    pump,     \* bridges whose pump task is running
    replay,   \* PersistentTerminal._replay
    sub,      \* PersistentTerminal._subscriber
    bpc,      \* where each browser's bridge coroutine is
    bterm,    \* the bridge it subscribed to
    unsent,   \* history: bridges whose last attach frame could not be queued
    lossy     \* history: bridges that lost a frame or got an older shell's

Term == 1 .. MaxTerm
Conn == 1 .. MaxConn
wireVars == <<down, up>>
shellVars == <<shell, opened, printed, relayed>>
termVars == <<sess, sconn, recv, last, pump, replay>>
browserVars == <<bpc, bterm>>
vars == <<made, cur, greeting, wireVars, shellVars, host, termVars, sub,
          browserVars, unsent, lossy>>

\* A chunk is <<shell, sequence>>; the two marks are no chunk of any shell.
EndMark  == <<0, 0>>      \* the None sentinel
ExitMark == <<0, 1>>      \* a NodeTerminalExit
IsChunk(x) == x[1] # 0
Chunk == (1 .. MaxTerm) \X (1 .. MaxOut)

(***************************************************************************)
(* Connection, session and bridge operations, each one synchronous.        *)
(***************************************************************************)

\* Connection.close wakes the consumer of the connection's terminal queue; a
\* full queue takes no sentinel.
CloseConn ==
    /\ recv' = [t \in Term |->
                  IF sconn[t] = cur /\ sess[t] = "open" /\ Len(recv[t]) < OutCap
                  THEN Append(recv[t], EndMark) ELSE recv[t]]
    /\ down' = << >> /\ up' = << >>

\* Connection.send.
CanSend(c) == c = cur /\ cur # 0 /\ Len(down) < Buffer

\* A release that leaves a full queue as it is.
ReleaseIfRoom(t) ==
    /\ sess' = [sess EXCEPT ![t] = "closed"]
    /\ recv' = [recv EXCEPT ![t] = IF Len(@) < OutCap THEN Append(@, EndMark) ELSE @]

\* NodeTerminalSession._release: the sentinel is worth more than stale output.
Release(t) ==
    /\ sess' = [sess EXCEPT ![t] = "closed"]
    /\ recv' = [recv EXCEPT ![t] = IF Len(@) < OutCap THEN Append(@, EndMark)
                                   ELSE <<EndMark>>]

\* PersistentTerminal.close: the browser is let go, the node told, the session
\* released.
Close(t) ==
    IF sess[t] = "closed" THEN UNCHANGED <<sess, recv, down, sub>>
    ELSE /\ sub' = [sub EXCEPT ![t] = None]
         /\ down' = IF CanSend(sconn[t]) THEN Append(down, <<"close">>) ELSE down
         /\ Release(t)

\* A removal of the key's bridge, whichever it is.
RemoveAny(t) == host' = 0

\* NodeHostTerminalRegistry._remove_finished: only the bridge that finished.
RemoveFinished(t) == host' = IF host = t THEN 0 ELSE host

----------------------------------------------------------------------------
(***************************************************************************)
(* The pump: everything queued is handled without an await, up to the      *)
(* sentinel or the exit.                                                   *)
(***************************************************************************)

Marks(t) == {i \in DOMAIN recv[t] : ~IsChunk(recv[t][i])}
Taken(t) ==
    IF Marks(t) = {} THEN recv[t]
    ELSE SubSeq(recv[t], 1, (CHOOSE i \in Marks(t) : \A j \in Marks(t) : i <= j) - 1)

\* The sequence a session resumes from is the newest the pump has decoded.
LastOf(t, chunks) == IF chunks = << >> THEN last[t] ELSE chunks[Len(chunks)][2]

Newest(s) == SubSeq(s, IF Len(s) > ReplayCap THEN Len(s) - ReplayCap + 1 ELSE 1, Len(s))

\* PersistentTerminal._pump over NodeTerminalSession.iter_output.  A bridge that
\* is finished is given up with its replay buffer.  A browser whose queue has no
\* room for the chunks (how full it is, the model leaves open) is let go.
Pump(t) ==
    /\ t \in pump /\ recv[t] # << >>
    /\ LET chunks == Taken(t)
           marked == Marks(t) # {}
           exits == marked /\ recv[t][Len(chunks) + 1] = ExitMark
           closed == sess[t] = "closed" \/ exits
       IN /\ last' = [last EXCEPT ![t] = LastOf(t, chunks)]
          /\ replay' = [replay EXCEPT ![t] = IF marked /\ closed THEN << >>
                                            ELSE Newest(@ \o chunks)]
          /\ recv' = [recv EXCEPT ![t] = << >>]
          /\ sess' = [sess EXCEPT ![t] = IF exits THEN "closed" ELSE @]
          /\ pump' = IF marked THEN pump \ {t} ELSE pump
          /\ IF marked /\ closed
             THEN sub' = [sub EXCEPT ![t] = None] /\ RemoveFinished(t)
             ELSE /\ \E b \in IF chunks = << >> THEN {sub[t]} ELSE {sub[t], None} :
                         sub' = [sub EXCEPT ![t] = b]
                  /\ UNCHANGED host
    /\ UNCHANGED <<made, cur, greeting, wireVars, shellVars, sconn, browserVars,
                   unsent, lossy>>

----------------------------------------------------------------------------
(***************************************************************************)
(* Streams of the node.                                                    *)
(***************************************************************************)

\* Registry.register, superseding the old connection if it is still there.
\* The node may have restarted, without its shells.
Connect ==
    /\ made < MaxConn
    /\ made' = made + 1 /\ cur' = made + 1
    /\ greeting' = greeting \cup {made + 1}
    /\ IF cur = 0 THEN UNCHANGED <<recv, wireVars>> ELSE CloseConn
    /\ shell' \in {shell, 0}
    /\ relayed' = FALSE
    /\ UNCHANGED <<opened, printed, host, sess, sconn, last, pump, replay, sub,
                   browserVars, unsent, lossy>>

Disconnect ==
    /\ cur # 0
    /\ CloseConn
    /\ cur' = 0
    /\ relayed' = FALSE
    /\ UNCHANGED <<made, greeting, shell, opened, printed, host, sess, sconn, last,
                   pump, replay, sub, browserVars, unsent, lossy>>

\* A takeover of watched bridges only.
ReattachableWatched(t) == sess[t] = "open" /\ t \notin pump /\ sub[t] # None

\* A bridge that a reconnect may take over: its pump ended with its connection.
Reattachable(t) == sess[t] = "open" /\ t \notin pump

\* A resume that asks for everything again.
ResumeFromStart(t) == 0

\* The sequence cursor the session keeps of what it has decoded.
ResumeFrom(t) == last[t]

\* NodeTerminalSession.attach: a new queue on connection c, then the frame.
AttachSession(t, c) ==
    /\ sconn' = [sconn EXCEPT ![t] = c]
    /\ recv' = [recv EXCEPT ![t] = << >>]
    /\ down' = IF CanSend(c) THEN Append(down, <<"attach", ResumeFrom(t)>>) ELSE down

\* PersistentTerminal.rebind: a new pump, unless the frame could not be sent.
RebindTerminal(t, c) ==
    /\ AttachSession(t, c)
    /\ pump' = IF CanSend(c) THEN pump \cup {t} ELSE pump
    /\ unsent' = IF CanSend(c) THEN unsent \ {t} ELSE unsent \cup {t}

\* fire_node_connected -> rebind_all.
\* The handler calls it two database round trips after the registration, so the
\* pumps of earlier connections have run.  The connection may be gone.
Rebind(c) ==
    /\ c \in greeting
    /\ \A t \in pump : sconn[t] # c => recv[t] = << >>
    /\ greeting' = greeting \ {c}
    /\ IF host # 0 /\ Reattachable(host)
       THEN RebindTerminal(host, c)
       ELSE UNCHANGED <<sconn, recv, down, pump, unsent>>
    /\ UNCHANGED <<made, cur, up, shellVars, host, sess, last, replay, sub,
                   browserVars, lossy>>

\* The stream's frames move, both ways, once the hook is through.
Serving == cur # 0 /\ cur \notin greeting

\* Connection.deliver_terminal_frame: to the queue open on this connection, a
\* full queue drops the frame.
Deliver ==
    /\ Serving /\ up # << >>
    /\ up' = Tail(up)
    /\ LET T == {t \in Term : sess[t] = "open" /\ sconn[t] = cur}
           room == {t \in T : Len(recv[t]) < OutCap}
       IN /\ recv' = [t \in Term |-> IF t \in room THEN Append(recv[t], Head(up))
                                     ELSE recv[t]]
          /\ lossy' = lossy \cup (T \ room)
    /\ UNCHANGED <<made, cur, greeting, down, shellVars, host, sess, sconn, last, pump,
                   replay, sub, browserVars, unsent>>

----------------------------------------------------------------------------
(***************************************************************************)
(* Browsers, and the ways a bridge is closed on purpose.                   *)
(***************************************************************************)

\* get_or_create finds a bridge that is not closed.
Bridged == host # 0 /\ sess[host] = "open"

NextTerm == Cardinality({t \in Term : sess[t] # "none"}) + 1

\* PersistentTerminal.subscribe: the new browser takes the older one's place and
\* is given what fits of the replay buffer.  When the "connected" message that
\* follows cannot be sent, _bridge_persistent ends and the subscription stays.
Subscribe(b, t) ==
    /\ sub' = [sub EXCEPT ![t] = b]
    /\ bterm' = [bterm EXCEPT ![b] = t]
    /\ \E to \in {"open", "done"} : bpc' = [bpc EXCEPT ![b] = to]

\* node_terminal: get_or_create and subscribe, without an await in between.
Attach(b) ==
    /\ bpc[b] = "idle" /\ Bridged
    /\ Subscribe(b, host)
    /\ UNCHANGED <<made, cur, greeting, wireVars, shellVars, host, termVars,
                   unsent, lossy>>

\* NodeTerminalManager.open: a session on the live connection, its queue there
\* before the open frame goes out.
OpenSession(t) ==
    /\ CanSend(cur)
    /\ sess' = [sess EXCEPT ![t] = "open"]
    /\ sconn' = [sconn EXCEPT ![t] = cur]
    /\ down' = Append(down, <<"open">>)

\* get_or_create makes a bridge with its pump.
Open(b) ==
    /\ bpc[b] = "idle" /\ ~Bridged
    /\ NextTerm \in Term
    /\ LET t == NextTerm IN
          /\ OpenSession(t)
          /\ pump' = pump \cup {t}
          /\ host' = t
          /\ Subscribe(b, t)
    /\ UNCHANGED <<made, cur, greeting, up, shellVars, recv, last, replay,
                   unsent, lossy>>

\* The node is offline or its queue full: nothing is kept of the bridge.
OpenFails(b) ==
    /\ bpc[b] = "idle" /\ ~Bridged /\ ~CanSend(cur)
    /\ bpc' = [bpc EXCEPT ![b] = "done"]
    /\ UNCHANGED <<made, cur, greeting, wireVars, shellVars, host, termVars, sub,
                   bterm, unsent, lossy>>

\* output() reads the sentinel, or the browser goes away, falls silent or sends
\* input to a dead connection.
Leave(b) ==
    /\ bpc[b] = "open"
    /\ bpc' = [bpc EXCEPT ![b] = "ending"]
    /\ UNCHANGED <<made, cur, greeting, wireVars, shellVars, host, termVars, sub,
                   bterm, unsent, lossy>>

\* input_frames: an explicit "close" kills the shell.
CloseFrame(b) ==
    /\ bpc[b] = "open"
    /\ Close(bterm[b])
    /\ bpc' = [bpc EXCEPT ![b] = "ending"]
    /\ UNCHANGED <<made, cur, greeting, up, shellVars, host, sconn, last, pump, replay,
                   bterm, unsent, lossy>>

\* The bridge's finally: unsubscribe, unless another browser has taken over.
EndBridge(b) ==
    /\ bpc[b] = "ending"
    /\ bpc' = [bpc EXCEPT ![b] = "done"]
    /\ sub' = [sub EXCEPT ![bterm[b]] = IF @ = b THEN None ELSE @]
    /\ bterm' = [bterm EXCEPT ![b] = 0]
    /\ UNCHANGED <<made, cur, greeting, wireVars, shellVars, host, termVars,
                   unsent, lossy>>

\* NodeHostTerminalRegistry.delete pops the bridge and closes it.
Delete ==
    /\ host # 0
    /\ host' = 0
    /\ Close(host)
    /\ UNCHANGED <<made, cur, greeting, up, shellVars, sconn, last, pump, replay,
                   browserVars, unsent, lossy>>

\* _reap_loop: closed bridges, and those nobody has watched for long enough.
Reap ==
    /\ host # 0 /\ (sess[host] = "closed" \/ sub[host] = None)
    /\ host' = 0
    /\ Close(host)
    /\ UNCHANGED <<made, cur, greeting, up, shellVars, sconn, last, pump, replay,
                   browserVars, unsent, lossy>>

\* close_node_terminal without a bridge: NodeTerminalManager.close.
CloseUnbridged ==
    /\ host = 0 /\ CanSend(cur)
    /\ down' = Append(down, <<"close">>)
    /\ UNCHANGED <<made, cur, greeting, up, shellVars, host, termVars, sub,
                   browserVars, unsent, lossy>>

----------------------------------------------------------------------------
(***************************************************************************)
(* The node (external).  It relays its shell on the stream it was opened   *)
(* or attached on.                                                         *)
(***************************************************************************)

NodeKeeps == UNCHANGED <<made, cur, greeting, host, termVars, sub, browserVars,
                         unsent, lossy>>

\* A shell starts, in place of the one with its id, or fails to.
NodeOpens ==
    /\ Serving /\ down # << >> /\ Head(down)[1] = "open"
    /\ down' = Tail(down)
    /\ \/ /\ opened' = opened + 1 /\ shell' = opened + 1
          /\ printed' = 0 /\ relayed' = TRUE
          /\ UNCHANGED up
       \/ /\ up' = Append(up, ExitMark)
          /\ UNCHANGED shellVars
    /\ NodeKeeps

\* The chunks behind the resume point are sent again, or there is no shell.
NodeAttaches ==
    /\ Serving /\ down # << >> /\ Head(down)[1] = "attach"
    /\ down' = Tail(down)
    /\ IF shell # 0
       THEN /\ up' = up \o [i \in 1 .. (printed - Head(down)[2]) |->
                              <<shell, Head(down)[2] + i>>]
            /\ relayed' = TRUE
       ELSE /\ up' = Append(up, ExitMark)
            /\ UNCHANGED relayed
    /\ UNCHANGED <<shell, opened, printed>>
    /\ NodeKeeps

NodeCloses ==
    /\ Serving /\ down # << >> /\ Head(down)[1] = "close"
    /\ down' = Tail(down)
    /\ shell' = 0 /\ relayed' = FALSE
    /\ up' \in IF shell # 0 /\ relayed THEN {up, Append(up, ExitMark)} ELSE {up}
    /\ UNCHANGED <<opened, printed>>
    /\ NodeKeeps

ShellPrints ==
    /\ shell # 0 /\ printed < MaxOut
    /\ printed' = printed + 1
    /\ up' = IF relayed THEN Append(up, <<shell, printed + 1>>) ELSE up
    /\ UNCHANGED <<down, shell, opened, relayed>>
    /\ NodeKeeps

ShellExits ==
    /\ shell # 0
    /\ shell' = 0 /\ relayed' = FALSE
    /\ up' = IF relayed THEN Append(up, ExitMark) ELSE up
    /\ UNCHANGED <<down, opened, printed>>
    /\ NodeKeeps

----------------------------------------------------------------------------
Init ==
    /\ made = 0 /\ cur = 0 /\ greeting = {}
    /\ down = << >> /\ up = << >>
    /\ shell = 0 /\ opened = 0 /\ printed = 0 /\ relayed = FALSE
    /\ host = 0
    /\ sess = [t \in Term |-> "none"]
    /\ sconn = [t \in Term |-> 0]
    /\ recv = [t \in Term |-> << >>]
    /\ last = [t \in Term |-> 0]
    /\ pump = {}
    /\ replay = [t \in Term |-> << >>]
    /\ sub = [t \in Term |-> None]
    /\ bpc = [b \in Browser |-> "idle"]
    /\ bterm = [b \in Browser |-> 0]
    /\ unsent = {} /\ lossy = {}

BrowserStep(b) ==
    \/ Attach(b) \/ Open(b) \/ OpenFails(b)
    \/ Leave(b) \/ CloseFrame(b) \/ EndBridge(b)

Node == NodeOpens \/ NodeAttaches \/ NodeCloses \/ ShellPrints \/ ShellExits

Next ==
    \/ \E b \in Browser : BrowserStep(b)
    \/ \E t \in Term : Pump(t)
    \/ Connect \/ Disconnect \/ Deliver
    \/ \E c \in Conn : Rebind(c)
    \/ Delete \/ Reap \/ CloseUnbridged
    \/ Node

Spec == Init /\ [][Next]_vars

----------------------------------------------------------------------------
\* The type of the state; no queue and no replay buffer exceeds its capacity.
TypeOK ==
    /\ made \in 0 .. MaxConn /\ cur \in {0, made} /\ greeting \subseteq 1 .. made
    /\ down \in Seq({<<"open">>, <<"close">>} \cup {"attach"} \X (0 .. MaxOut))
    /\ Len(down) <= Buffer
    /\ up \in Seq(Chunk \cup {ExitMark})
    /\ shell \in {0, opened} /\ opened \in 0 .. MaxTerm
    /\ printed \in 0 .. MaxOut /\ relayed \in BOOLEAN
    /\ host \in {0} \cup Term
    /\ sess \in [Term -> {"none", "open", "closed"}]
    /\ sconn \in [Term -> {0} \cup Conn]
    /\ recv \in [Term -> Seq(Chunk \cup {EndMark, ExitMark})]
    /\ \A t \in Term : Len(recv[t]) <= OutCap
    /\ last \in [Term -> 0 .. MaxOut]
    /\ pump \subseteq Term
    /\ replay \in [Term -> Seq(Chunk)]
    /\ \A t \in Term : Len(replay[t]) <= ReplayCap
    /\ sub \in [Term -> Browser \cup {None}]
    /\ bpc \in [Browser -> {"idle", "open", "ending", "done"}]
    /\ bterm \in [Browser -> {0} \cup Term]
    /\ unsent \subseteq Term /\ lossy \subseteq Term

\* A bridge whose shell may still run is the one the registry holds: it can be
\* found, deleted, reaped and rebound, and there is no second one, whatever
\* the order in which an earlier bridge of the same id finishes.
LiveIsRegistered == \A t \in Term : sess[t] = "open" => host = t

\* NodeTerminalAttach: a reconnect neither loses nor repeats output.  As long as
\* no recv queue overflowed, what a bridge kept of a shell has no gap.
ReplayIsContiguous ==
    \A t \in Term \ lossy : \A i \in 1 .. Len(replay[t]) - 1 :
        LET x == replay[t][i]
            y == replay[t][i + 1]
        IN x[1] = y[1] => y[2] = x[2] + 1

\* rebind_all: "Rebind every live host terminal".  Once the hook of the live
\* connection has run, an open bridge is pumping that connection, unless its
\* attach frame could not be queued, or its pump still waits on the connection
\* before, whose sentinel was dropped.
ReattachFindsAll ==
    cur # 0 /\ cur \notin greeting =>
        \A t \in Term \ unsent : sess[t] = "open" =>
            t \in pump /\ (sconn[t] = cur \/ EndMark \notin {recv[t][i] : i \in DOMAIN recv[t]})

\* delete: "terminal.close(); await terminal.wait_closed()" returns, however
\* full the queue was: a pump that is still to end has a mark to end by.
ClosedPumpWakes ==
    \A t \in pump : sess[t] = "closed" => Marks(t) # {}
============================================================================

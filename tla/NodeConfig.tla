----------------------------- MODULE NodeConfig -----------------------------
(***************************************************************************)
(* The configuration the server keeps for a node and pushes to it: the     *)
(* public-ip lookup services, one row for all nodes, and the node's own    *)
(* egress-proxy binding.  An update commits the row under a lock with the  *)
(* next revision, reads it again and pushes it to the connected node; a    *)
(* node that connects is registered and then sent what the rows hold.      *)
(* A step that fails is part of the model: the reading back of a committed *)
(* row, the reading of a snapshot, which the handler swallows, and the     *)
(* resolution of a binding for a snapshot, which falls back to direct.     *)
(*                                                                         *)
(* The node is external: it applies a configuration whose revision is      *)
(* above the one it runs and drops any other (the revision gate store.py   *)
(* writes its revisions for).  Updates are named by the call that makes    *)
(* them, so a content is the update that asked for it.                     *)
(***************************************************************************)
EXTENDS Naturals, Sequences, FiniteSets

CONSTANTS Updates,    \* the update calls
          Seed,       \* the content before any of them: no services, direct
          Buffer,     \* frames the downstream queue holds
          MaxConns    \* bound on registrations

ASSUME NodeConfigAssumption ==
    /\ IsFiniteSet(Updates) /\ Seed \notin Updates
    /\ Buffer \in Nat \ {0}
    /\ MaxConns \in Nat

Families == {"lookup", "proxy"}
Contents == Updates \cup {Seed}
Unread == [rev |-> 0, val |-> Seed]

VARIABLES
    of,         \* the family each update is about
    stored,     \* the contents each row has had; their number is the revision
    pc,         \* where each update is
    note,       \* the revision and content each update will push
    mixed,      \* proxy revisions paired with another update's content
    degraded,   \* proxy revisions a snapshot paired with direct
    live,       \* whether a lookup finds a connection
    made,       \* connections registered so far
    greet,      \* what the connection's handler does next
    held,       \* the row it has read
    queue,      \* frames on their way to the node
    missed,     \* revisions this connection's queue refused, or that an
                \* update or the handler could not read for it
    applied     \* what the node runs

updateVars == <<of, pc, note, mixed, degraded>>
connVars == <<live, made, greet, held, queue, missed>>
vars == <<updateVars, stored, connVars, applied>>

Phases == {"idle", "resolved", "committed", "read", "ended"}
Greetings == {"none", "readLookup", "sendLookup", "readProxy", "resolveProxy",
              "sendProxy", "done"}

\* A lookup row that does not exist is read as revision 0; a node's row is
\* created with revision 1 (upsert_node).
Init ==
    /\ of \in [Updates -> Families]
    /\ stored = [f \in Families |-> IF f = "proxy" THEN <<Seed>> ELSE << >>]
    /\ pc = [u \in Updates |-> "idle"]
    /\ note = [u \in Updates |-> Unread]
    /\ mixed = {} /\ degraded = {}
    /\ live = FALSE /\ made = 0 /\ greet = "none"
    /\ held = Unread
    /\ queue = << >> /\ missed = {}
    /\ applied = [f \in Families |-> Unread]

Revision(f) == Len(stored[f])
Content(f) == IF stored[f] = << >> THEN Seed ELSE stored[f][Revision(f)]
Row(f) == [rev |-> Revision(f), val |-> Content(f)]

Miss(f, n) == missed' = missed \cup {[of |-> f, rev |-> n]}

\* Connection.send: a full queue refuses the frame, and the caller only logs it.
Send(f, c) ==
    IF Len(queue) < Buffer
      THEN queue' = Append(queue, [of |-> f, rev |-> c.rev, val |-> c.val])
           /\ UNCHANGED missed
      ELSE Miss(f, c.rev) /\ UNCHANGED queue

(***************************************************************************)
(* Updates.                                                                *)
(***************************************************************************)

\* The request is validated, a binding's fields are resolved from the pool.
Resolve(u) ==
    /\ pc[u] = "idle"
    /\ \E p \in {"resolved", "ended"} : pc' = [pc EXCEPT ![u] = p]
    /\ UNCHANGED <<of, note, mixed, degraded, stored, connVars, applied>>

\* The locked transaction: the content and the next revision; or none, when the
\* node's row is gone or another call has just created the lookup row.
Commit(u) ==
    /\ pc[u] = "resolved"
    /\ \/ /\ pc' = [pc EXCEPT ![u] = "committed"]
          /\ stored' = [stored EXCEPT ![of[u]] = Append(@, u)]
       \/ /\ pc' = [pc EXCEPT ![u] = "ended"]
          /\ UNCHANGED stored
    /\ UNCHANGED <<of, note, mixed, degraded, connVars, applied>>

\* Both families push what was asked for under the revision read back.
ReadRevision(u) ==
    /\ pc[u] = "committed"
    /\ pc' = [pc EXCEPT ![u] = "read"]
    /\ note' = [note EXCEPT ![u] = [Row(of[u]) EXCEPT !.val = u]]
    /\ UNCHANGED <<of, mixed, degraded, stored, connVars, applied>>

\* The row is read back after the transaction.  A lookup update goes on with
\* the row; a binding takes its revision and keeps the content it asked for.
ReadBack(u) ==
    /\ pc[u] = "committed"
    /\ pc' = [pc EXCEPT ![u] = "read"]
    /\ note' = [note EXCEPT ![u] =
                  IF of[u] = "lookup" THEN Row("lookup")
                                      ELSE [Row("proxy") EXCEPT !.val = u]]
    /\ mixed' = IF of[u] = "proxy" /\ Content("proxy") # u
                  THEN mixed \cup {Revision("proxy")} ELSE mixed
    /\ UNCHANGED <<of, degraded, stored, connVars, applied>>

\* The row cannot be read back, or the call is cancelled there: the update has
\* committed, and nothing is pushed.
ReadBackFails(u) ==
    /\ pc[u] = "committed"
    /\ pc' = [pc EXCEPT ![u] = "ended"]
    /\ IF live THEN Miss(of[u], Revision(of[u])) ELSE UNCHANGED missed
    /\ UNCHANGED <<of, note, mixed, degraded, stored, live, made, greet, held, queue, applied>>

\* An update that leaves the push to the next reconnect.
PushNothing(u) ==
    /\ pc[u] = "read"
    /\ pc' = [pc EXCEPT ![u] = "ended"]
    /\ note' = [note EXCEPT ![u] = Unread]
    /\ UNCHANGED <<of, mixed, degraded, stored, connVars, applied>>

Push(u) ==
    /\ pc[u] = "read"
    /\ pc' = [pc EXCEPT ![u] = "ended"]
    /\ IF live THEN Send(of[u], note[u]) ELSE UNCHANGED <<queue, missed>>
    /\ note' = [note EXCEPT ![u] = Unread]
    /\ UNCHANGED <<of, mixed, degraded, stored, live, made, greet, held, applied>>

(***************************************************************************)
(* The connection's handler.                                               *)
(***************************************************************************)

Connected(next) ==
    /\ made < MaxConns
    /\ made' = made + 1
    /\ live' = TRUE
    /\ greet' = next
    /\ held' = Unread /\ queue' = << >> /\ missed' = {}
    /\ UNCHANGED <<updateVars, stored, applied>>

\* A handler that sends the snapshots to new nodes only.
ConnectOnce == Connected(IF made = 0 THEN "readLookup" ELSE "done")

\* The node is registered, superseding its previous connection if it has one,
\* before any row is read.
Connect == Connected("readLookup")

\* The frames in the queue and on the wire are gone with the connection, and
\* what its handler still sends is refused.
Disconnect ==
    /\ live
    /\ live' = FALSE /\ greet' = "none"
    /\ held' = Unread /\ queue' = << >> /\ missed' = {}
    /\ UNCHANGED <<updateVars, stored, made, applied>>

GreetRead(from, to, f) ==
    /\ greet = from
    /\ greet' = to
    /\ held' = Row(f)
    /\ UNCHANGED <<updateVars, stored, live, made, queue, missed, applied>>

GreetSend(from, to, f) ==
    /\ greet = from
    /\ greet' = to
    /\ Send(f, held)
    /\ held' = Unread
    /\ UNCHANGED <<updateVars, stored, live, made, applied>>

\* The row cannot be read: the handler logs it and goes on with the next.
GreetReadFails(from, next, f) ==
    /\ greet = from
    /\ greet' = next
    /\ Miss(f, Revision(f))
    /\ UNCHANGED <<updateVars, stored, live, made, held, queue, applied>>

LookupConfigFrame ==
    \/ GreetRead("readLookup", "sendLookup", "lookup")
    \/ GreetReadFails("readLookup", "readProxy", "lookup")
SendLookupConfig == GreetSend("sendLookup", "readProxy", "lookup")
ProxyConfigFrame ==
    \/ GreetRead("readProxy", "resolveProxy", "proxy")
    \/ GreetReadFails("readProxy", "done", "proxy")

\* _resolve_node_proxy_fields_safe: a binding the pool cannot resolve goes out as
\* direct, under the revision of the row.
ResolveSafe ==
    /\ greet = "resolveProxy"
    /\ greet' = "sendProxy"
    /\ \/ UNCHANGED <<held, degraded>>
       \/ /\ held.val # Seed
          /\ held' = [held EXCEPT !.val = Seed]
          /\ degraded' = degraded \cup {held.rev}
    /\ UNCHANGED <<of, pc, note, mixed, stored, live, made, queue, missed, applied>>

SendProxyConfig == GreetSend("sendProxy", "done", "proxy")

Greet ==
    \/ LookupConfigFrame \/ SendLookupConfig
    \/ ProxyConfigFrame \/ ResolveSafe \/ SendProxyConfig

(***************************************************************************)
(* The node.                                                               *)
(***************************************************************************)

NodeReceives ==
    /\ queue # << >>
    /\ LET c == Head(queue)
       IN applied' = IF c.rev > applied[c.of].rev
                       THEN [applied EXCEPT ![c.of] = [rev |-> c.rev, val |-> c.val]]
                       ELSE applied
    /\ queue' = Tail(queue)
    /\ UNCHANGED <<updateVars, stored, live, made, greet, held, missed>>

Update(u) == Resolve(u) \/ Commit(u) \/ ReadBack(u) \/ ReadBackFails(u) \/ Push(u)

Next ==
    \/ \E u \in Updates : Update(u)
    \/ Connect \/ Disconnect \/ Greet \/ NodeReceives

\* Calls and handlers that have started go on, and a connected node reads.
Spec ==
    /\ Init /\ [][Next]_vars
    /\ WF_vars(Greet) /\ WF_vars(NodeReceives)
    /\ \A u \in Updates : WF_vars(Commit(u) \/ ReadBack(u) \/ ReadBackFails(u) \/ Push(u))

(***************************************************************************)
(* Properties.                                                             *)
(***************************************************************************)

Configuration == [rev : Nat, val : Contents]

\* Every variable has its type, and the downstream queue keeps its bound.
TypeOK ==
    /\ of \in [Updates -> Families]
    /\ stored \in [Families -> Seq(Contents)]
    /\ pc \in [Updates -> Phases]
    /\ note \in [Updates -> Configuration]
    /\ mixed \subseteq Nat /\ degraded \subseteq Nat
    /\ live \in BOOLEAN /\ made \in 0 .. MaxConns /\ greet \in Greetings
    /\ held \in Configuration
    /\ queue \in Seq([of : Families, rev : Nat, val : Contents])
    /\ Len(queue) <= Buffer
    /\ missed \subseteq [of : Families, rev : Nat]
    /\ applied \in [Families -> Configuration]

InFlight(f) == \E u \in Updates : of[u] = f /\ pc[u] \in {"committed", "read"}

\* Once nothing is under way a connected node runs the row: an update that meets
\* a reconnect is either read by the handler or pushed to the new connection.
\* Left out is a row whose very revision this connection was not sent (a full
\* queue, a snapshot or a row read back that failed), and a binding whose revision
\* two overlapping updates pushed with different contents (service.py:840) or a
\* snapshot sent as direct (service.py:796), which the node's gate then keeps.
SettledIsLedger ==
    \A f \in Families :
        live /\ greet = "done" /\ queue = << >> /\ ~InFlight(f) =>
            \/ applied[f] = Row(f)
            \/ [of |-> f, rev |-> Revision(f)] \in missed
            \/ f = "proxy" /\ Revision(f) \in mixed \cup degraded

\* A node runs a content under the revision it was stored with, whatever the
\* order in which overlapping updates commit, read back and push, and whatever
\* fails.  Only a binding can be otherwise: at a mixed revision it is the binding
\* of an earlier one, and at a degraded revision it is direct.
RunsWhatWasStored ==
    \A f \in Families :
        LET a == applied[f]
        IN a.rev > 0 =>
             /\ a.rev <= Revision(f)
             /\ \/ a.val = stored[f][a.rev]
                \/ /\ f = "proxy" /\ a.rev \in mixed
                   /\ \E n \in 1 .. a.rev - 1 : a.val = stored[f][n]
                \/ f = "proxy" /\ a.rev \in degraded /\ a.val = Seed

\* A node that stays connected gets to any revision the rows reach, unless that
\* revision or a later one met a full queue or a read that failed.
CatchesUp ==
    \A f \in Families : \A n \in 1 .. Cardinality(Updates) + 1 :
        (live /\ Revision(f) >= n) ~>
            \/ applied[f].rev >= n \/ ~live
            \/ \E m \in missed : m.of = f /\ m.rev >= n

=============================================================================

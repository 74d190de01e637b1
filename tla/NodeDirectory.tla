---------------------------- MODULE NodeDirectory ----------------------------
(***************************************************************************)
(* What the connection registry promises the rest of the node server: a    *)
(* node id leads to at most one live connection, a reconnect replaces it   *)
(* in one step, and a connection that left is never handed out again.      *)
(***************************************************************************)
CONSTANTS Node, Conn, None

VARIABLES online,   \* the connection a lookup of the node returns, or None
          retired   \* connections that have left for good

vars == <<online, retired>>

Init ==
    /\ online = [n \in Node |-> None]
    /\ retired = {}

\* A node connects on a connection never seen before; the one it had retires.
Join(n, c) ==
    /\ c \notin retired
    /\ \A m \in Node : online[m] # c
    /\ online' = [online EXCEPT ![n] = c]
    /\ retired' = retired \cup ({online[n]} \ {None})

\* The connections of some nodes go away together.
Leave(N) ==
    /\ \A n \in N : online[n] # None
    /\ online' = [n \in Node |-> IF n \in N THEN None ELSE online[n]]
    /\ retired' = retired \cup {online[n] : n \in N}

Next ==
    \/ \E n \in Node, c \in Conn : Join(n, c)
    \/ \E N \in SUBSET Node : Leave(N)

Spec == Init /\ [][Next]_vars
=============================================================================

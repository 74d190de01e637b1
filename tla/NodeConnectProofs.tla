-------------------------- MODULE NodeConnectProofs --------------------------
(***************************************************************************)
(* Proofs about NodeConnect for any number of nodes and streams, any       *)
(* buffer size and any number of TOTP steps.                               *)
(***************************************************************************)
EXTENDS NodeConnect, TLAPS

\* The initial state satisfies the inductive invariant.
LEMMA InitIInv == Init => IInv
<1> SUFFICES ASSUME Init PROVE IInv
  OBVIOUS
<1>1. TypeOK
  BY NodeConnectAssumption DEF Init, TypeOK, Status, Phase, Step
<1>2. PhaseInv /\ MapInv
  BY DEF Init, PhaseInv, MapInv
<1> QED
  BY <1>1, <1>2 DEF IInv

\* A step of a stream handler keeps the types.
LEMMA HandlerTypeOK ==
    ASSUME IInv, NEW s \in Stream, Handler(s)
    PROVE  TypeOK'
<1> USE NodeConnectAssumption DEF IInv, TypeOK, Phase, Status, Step
<1>1. CASE Hello(s)
  BY <1>1 DEF Hello, Goto, ledgerVars, replayVars, connVars
<1>2. CASE NoRegister(s)
  BY <1>2 DEF NoRegister, End, Goto, ledgerVars, replayVars, connVars
<1>3. ASSUME NEW n \in Node, FetchRecord(s, n) PROVE TypeOK'
  BY <1>3 DEF FetchRecord, Goto, ledgerVars, replayVars, connVars
<1>4. CASE Authenticate(s)
  BY <1>4 DEF Authenticate, Claimed, ClaimKey, Goto, PhaseInv, ledgerVars, connVars, streamVars
<1>5. CASE Deny(s)
  BY <1>5 DEF Deny, Claimed, End, Goto, ledgerVars, connVars
<1>6. CASE UpsertWrite(s)
  BY <1>6 DEF UpsertWrite, End, Goto, PhaseInv, replayVars, connVars, streamVars
<1>7. CASE UpsertReread(s)
  BY <1>7 DEF UpsertReread, End, Goto, ledgerVars, replayVars, connVars
<1>8. CASE SetupFails(s)
  BY <1>8 DEF SetupFails, End, Goto, ledgerVars, replayVars, connVars
<1>9. CASE RegisterConnection(s)
  BY <1>9 DEF RegisterConnection, Register, Goto, PhaseInv, ledgerVars, streamVars
<1>10. CASE Configure(s)
  BY <1>10 DEF Configure, Goto, ledgerVars, replayVars, streamVars
<1>11. CASE Pump(s)
  BY <1>11 DEF Pump, Goto, ledgerVars, replayVars, streamVars
<1>12. CASE StreamBreaks(s)
  BY <1>12 DEF StreamBreaks, Goto, ledgerVars, replayVars, connVars, streamVars
<1>13. CASE Heartbeat(s)
  BY <1>13 DEF Heartbeat, PhaseInv, replayVars, streamVars
<1>14. CASE Teardown(s)
  BY <1>14 DEF Teardown, Unregister, FireDisconnect, Close, End, Goto, PhaseInv, ledgerVars
<1> QED
  BY <1>1, <1>2, <1>3, <1>4, <1>5, <1>6, <1>7, <1>8, <1>9, <1>10, <1>11, <1>12,
     <1>13, <1>14 DEF Handler

\* A step of an administrator, the reaper, the clock or a sender keeps the types.
LEMMA OtherTypeOK ==
    ASSUME IInv,
           \/ \E s \in Stream : Lapse(s)
           \/ \E n \in Node : Admin(n) \/ SendFrame(n)
           \/ Reap
           \/ Tick
    PROVE  TypeOK'
<1> USE NodeConnectAssumption DEF IInv, TypeOK, Phase, Status, Step
<1>1. ASSUME NEW s \in Stream, Lapse(s) PROVE TypeOK'
  BY <1>1 DEF Lapse, ledgerVars, replayVars, streamVars
<1>2. ASSUME NEW n \in Node, Admin(n) PROVE TypeOK'
  <2>1. CASE Onboard(n)
    BY <2>1 DEF Onboard, replayVars, streamVars, connVars
  <2>2. CASE Approve(n)
    BY <2>2 DEF Approve, replayVars, streamVars, connVars
  <2>3. CASE Revoke(n)
    BY <2>3 DEF Revoke, replayVars, streamVars, connVars
  <2>4. CASE DeleteRow(n)
    BY <2>4 DEF DeleteRow, replayVars, streamVars, connVars
  <2>5. CASE Disconnect(n)
    BY <2>5 DEF Disconnect, Drop, FireDisconnect, Close, streamVars
  <2>6. CASE PurgeCheck(n)
    BY <2>6 DEF PurgeCheck, replayVars, streamVars, connVars
  <2>7. CASE PurgeDelete(n)
    BY <2>7 DEF PurgeDelete, replayVars, streamVars, connVars
  <2> QED
    BY <1>2, <2>1, <2>2, <2>3, <2>4, <2>5, <2>6, <2>7 DEF Admin
<1>3. ASSUME NEW n \in Node, SendFrame(n) PROVE TypeOK'
  BY <1>3 DEF SendFrame, Enqueue, CanSend, ledgerVars, replayVars, streamVars
<1>4. CASE Reap
  BY <1>4 DEF Reap, Stale, Drop, FireDisconnect, Close, ledgerVars, streamVars
<1>5. CASE Tick
  BY <1>5 DEF Tick, ledgerVars, streamVars, connVars
<1> QED
  BY <1>1, <1>2, <1>3, <1>4, <1>5

\* Dropping the connections of a set of nodes (disconnect, reap_stale) keeps
\* the registry and the open connections in step.
LEMMA DropKeepsMap ==
    ASSUME IInv, NEW N \in SUBSET Node, Drop(N), UNCHANGED <<pc, nodeOf>>
    PROVE  PhaseInv' /\ MapInv'
<1> USE NodeConnectAssumption DEF IInv, TypeOK
<1>1. PhaseInv'
  BY DEF PhaseInv, MapInv, Drop, Close
<1>2. MapInv'
  BY DEF MapInv, Drop, Close
<1> QED
  BY <1>1, <1>2

\* Every step keeps the phase and the registry parts of the invariant.
LEMMA StepKeepsMap ==
    ASSUME IInv, Next
    PROVE  PhaseInv' /\ MapInv'
<1> USE NodeConnectAssumption DEF IInv, TypeOK
<1>1. ASSUME NEW s \in Stream, Handler(s) PROVE PhaseInv' /\ MapInv'
  <2>1. CASE Hello(s)
    BY <2>1 DEF Hello, Goto, PhaseInv, MapInv, connVars
  <2>2. CASE NoRegister(s) \/ Deny(s) \/ SetupFails(s)
    BY <2>2 DEF NoRegister, Deny, SetupFails, End, Goto, PhaseInv, MapInv, connVars
  <2>3. ASSUME NEW n \in Node, FetchRecord(s, n) PROVE PhaseInv' /\ MapInv'
    BY <2>3 DEF FetchRecord, Goto, PhaseInv, MapInv, connVars
  <2>4. CASE Authenticate(s)
    BY <2>4 DEF Authenticate, Goto, PhaseInv, MapInv, connVars, streamVars
  <2>5. CASE UpsertWrite(s)
    BY <2>5 DEF UpsertWrite, End, Goto, PhaseInv, MapInv, connVars, streamVars
  <2>6. CASE UpsertReread(s)
    BY <2>6 DEF UpsertReread, End, Goto, PhaseInv, MapInv, connVars
  <2>7. CASE RegisterConnection(s)
    <3> DEFINE n == nodeOf[s]
               closed == [t \in Stream |-> IF t \in {conns[n]} \ {None}
                                          THEN "closed" ELSE life[t]]
    <3>a. n \in Node /\ life[s] = "none" /\ conns[n] # s
      BY <2>7 DEF RegisterConnection, PhaseInv, MapInv
    <3>b. /\ conns' = [conns EXCEPT ![n] = s]
          /\ life' = [closed EXCEPT ![s] = "open"]
          /\ pc' = [pc EXCEPT ![s] = "configure"]
          /\ nodeOf' = nodeOf
      BY <2>7 DEF RegisterConnection, Register, Goto, streamVars
    <3>1. /\ n \in Node /\ life[s] = "none" /\ conns[n] # s
          /\ conns' = [conns EXCEPT ![n] = s]
          /\ life' = [t \in Stream |-> IF t = s THEN "open"
                                       ELSE IF t = conns[n] THEN "closed" ELSE life[t]]
          /\ pc' = [pc EXCEPT ![s] = "configure"]
          /\ nodeOf' = nodeOf
      BY <3>a, <3>b, ZenonT(60)
    <3>2. PhaseInv'
      BY <3>1 DEF PhaseInv, MapInv
    <3>3. MapInv'
      BY <3>1 DEF MapInv
    <3> QED
      BY <3>2, <3>3
  <2>8. CASE Configure(s) \/ Pump(s) \/ StreamBreaks(s) \/ Heartbeat(s)
    BY <2>8 DEF Configure, Pump, StreamBreaks, Heartbeat, Goto, PhaseInv, MapInv,
                connVars, streamVars
  <2>9. CASE Teardown(s)
    <3>1. /\ nodeOf[s] \in Node
          /\ conns' = [conns EXCEPT ![nodeOf[s]] = IF conns[nodeOf[s]] = s THEN None ELSE @]
          /\ life' = [t \in Stream |-> IF t \in {s} THEN "closed" ELSE life[t]]
          /\ pc' = [pc EXCEPT ![s] = "ended"]
          /\ nodeOf' = [nodeOf EXCEPT ![s] = None]
      BY <2>9 DEF Teardown, Unregister, Close, End, Goto, PhaseInv
    <3>2. PhaseInv'
      BY <2>9, <3>1 DEF PhaseInv, Teardown
    <3>3. MapInv'
      BY <3>1 DEF MapInv
    <3> QED
      BY <3>2, <3>3
  <2> QED
    BY <1>1, <2>1, <2>2, <2>3, <2>4, <2>5, <2>6, <2>7, <2>8, <2>9 DEF Handler
<1>2. ASSUME NEW s \in Stream, Lapse(s) PROVE PhaseInv' /\ MapInv'
  BY <1>2 DEF Lapse, PhaseInv, MapInv, streamVars
<1>3. ASSUME NEW n \in Node, Disconnect(n) PROVE PhaseInv' /\ MapInv'
  BY <1>3, DropKeepsMap, {n} \in SUBSET Node DEF Disconnect, streamVars
<1>4. ASSUME NEW n \in Node, Admin(n), ~Disconnect(n) PROVE PhaseInv' /\ MapInv'
  BY <1>4 DEF Admin, Onboard, Approve, Revoke, DeleteRow, PurgeCheck, PurgeDelete,
              PhaseInv, MapInv, connVars, streamVars
<1>5. ASSUME NEW n \in Node, SendFrame(n) PROVE PhaseInv' /\ MapInv'
  BY <1>5 DEF SendFrame, PhaseInv, MapInv, streamVars
<1>6. CASE Reap
  BY <1>6, DropKeepsMap, Stale \in SUBSET Node DEF Reap, Stale, streamVars
<1>7. CASE Tick
  BY <1>7 DEF Tick, PhaseInv, MapInv, connVars, streamVars
<1> QED
  BY <1>1, <1>2, <1>3, <1>4, <1>5, <1>6, <1>7 DEF Next

\* The invariant is inductive.
LEMMA NextIInv == IInv /\ [Next]_vars => IInv'
<1>1. ASSUME IInv, Next PROVE IInv'
  BY <1>1, HandlerTypeOK, OtherTypeOK, StepKeepsMap DEF Next, IInv
<1>2. ASSUME IInv, UNCHANGED vars PROVE IInv'
  BY <1>2 DEF IInv, TypeOK, PhaseInv, MapInv, vars, ledgerVars, replayVars,
              streamVars, connVars
<1> QED
  BY <1>1, <1>2

\* Type correctness of the stream lifecycle, the registry and the replay cache.
THEOREM TypeCorrect == Spec => []TypeOK
<1>1. IInv => TypeOK
  BY DEF IInv
<1> QED
  BY <1>1, InitIInv, NextIInv, PTL DEF Spec

\* Registry.register, unregister, disconnect and reap_stale, interleaved in any
\* order, keep the open connections and the registered ones the same.
THEOREM OneLiveConnection == Spec => []OpenIsRegistered
<1>1. IInv => OpenIsRegistered
  BY NodeConnectAssumption DEF IInv, TypeOK, MapInv, OpenIsRegistered
<1> QED
  BY <1>1, InitIInv, NextIInv, PTL DEF Spec

\* A registered connection always has a handler whose finally block is still to
\* run, so no node stays online after its stream handler returned.
THEOREM NoAbandonedConnection == Spec => []RegisteredIsHandled
<1>1. IInv => RegisteredIsHandled
  BY NodeConnectAssumption DEF IInv, TypeOK, PhaseInv, MapInv, RegisteredIsHandled, Phase
<1> QED
  BY <1>1, InitIInv, NextIInv, PTL DEF Spec

\* The closed connections, as the directory's retired ones.
Retired == {s \in Stream : life[s] = "closed"}

\* A drop of connections is a Leave of the directory.
LEMMA DropIsLeave ==
    ASSUME IInv, NEW N \in SUBSET Node, Drop(N)
    PROVE  \E M \in SUBSET Node : Directory!Leave(M)
<1> USE NodeConnectAssumption DEF IInv, TypeOK
<1>0. PICK M \in SUBSET Node : M = {n \in N : conns[n] # None}
  OBVIOUS
<1>1. conns' = [n \in Node |-> IF n \in M THEN None ELSE conns[n]]
  BY <1>0 DEF Drop
<1>2. Retired' = Retired \cup {conns[n] : n \in M}
  BY <1>0 DEF Drop, Close, Retired
<1>3. Directory!Leave(M)
  BY <1>0, <1>1, <1>2 DEF Directory!Leave, Retired
<1> QED
  BY <1>3

\* The registry implements the abstract directory: each step of the server is a
\* Join, a Leave or leaves the directory as it was.
THEOREM ImplementsDirectory == Spec => RefinesDirectory
<1> USE NodeConnectAssumption
<1>1. Init => Directory!Init
  BY DEF Init, Directory!Init
<1>2. IInv /\ [Next]_vars => [Directory!Next]_(Directory!vars)
  <2> SUFFICES ASSUME IInv, [Next]_vars
               PROVE  Directory!Next \/ UNCHANGED <<conns, life>>
    BY DEF Directory!vars
  <2> USE DEF IInv, TypeOK
  <2>1. ASSUME NEW s \in Stream, RegisterConnection(s) PROVE Directory!Next
    <3> DEFINE n == nodeOf[s]
               closed == [t \in Stream |-> IF t \in {conns[n]} \ {None}
                                          THEN "closed" ELSE life[t]]
    <3>1. n \in Node /\ life[s] = "none"
      BY <2>1 DEF RegisterConnection, PhaseInv
    <3>2. /\ conns' = [conns EXCEPT ![n] = s]
          /\ life' = [closed EXCEPT ![s] = "open"]
      BY <2>1 DEF RegisterConnection, Register
    <3>3. Retired' = Retired \cup ({conns[n]} \ {None})
      BY <3>1, <3>2 DEF Retired, MapInv
    <3>4. s \notin Retired /\ \A m \in Node : conns[m] # s
      BY <3>1 DEF Retired, MapInv
    <3>5. Directory!Join(n, s)
      BY <3>2, <3>3, <3>4 DEF Directory!Join, Retired
    <3> QED
      BY <3>1, <3>5 DEF Directory!Next
  <2>2. ASSUME NEW s \in Stream, Teardown(s)
        PROVE  Directory!Next \/ UNCHANGED <<conns, life>>
    <3>1. /\ nodeOf[s] \in Node
          /\ pc[s] = "stopping"
          /\ conns' = [conns EXCEPT ![nodeOf[s]] = IF conns[nodeOf[s]] = s THEN None ELSE @]
          /\ life' = [t \in Stream |-> IF t \in {s} THEN "closed" ELSE life[t]]
      BY <2>2 DEF Teardown, Unregister, Close, PhaseInv
    <3>2. CASE conns[nodeOf[s]] = s
      <4>0. PICK M \in SUBSET Node : M = {nodeOf[s]}
        BY <3>1
      <4>1. conns' = [n \in Node |-> IF n \in M THEN None ELSE conns[n]]
        BY <3>1, <3>2, <4>0
      <4>2. Retired' = Retired \cup {conns[n] : n \in M}
        BY <3>1, <3>2, <4>0 DEF Retired
      <4>3. \A n \in M : conns[n] # None
        BY <3>2, <4>0
      <4>5. Directory!Leave(M)
        BY <4>1, <4>2, <4>3 DEF Directory!Leave, Retired
      <4> QED
        BY <4>5 DEF Directory!Next
    <3>3. CASE conns[nodeOf[s]] # s
      <4>1. life[s] = "closed"
        BY <3>1, <3>3 DEF MapInv, PhaseInv
      <4> QED
        BY <3>1, <3>3, <4>1
    <3> QED
      BY <3>2, <3>3
  <2>3. ASSUME NEW n \in Node, Disconnect(n) PROVE Directory!Next
    BY <2>3, DropIsLeave, {n} \in SUBSET Node DEF Disconnect, Directory!Next
  <2>4. CASE Reap
    BY <2>4, DropIsLeave, Stale \in SUBSET Node DEF Reap, Stale, Directory!Next
  <2>5. ASSUME NEW s \in Stream, Handler(s), ~RegisterConnection(s), ~Teardown(s)
        PROVE  UNCHANGED <<conns, life>>
    BY <2>5 DEF Handler, Hello, NoRegister, FetchRecord, Authenticate, Deny, UpsertWrite,
                UpsertReread, SetupFails, Configure, Pump, StreamBreaks, Heartbeat, connVars
  <2>6. ASSUME NEW n \in Node, Admin(n), ~Disconnect(n)
        PROVE  UNCHANGED <<conns, life>>
    BY <2>6 DEF Admin, Onboard, Approve, Revoke, DeleteRow, PurgeCheck, PurgeDelete, connVars
  <2>7. CASE \/ \E s \in Stream : Lapse(s)
             \/ \E n \in Node : SendFrame(n)
             \/ Tick
             \/ UNCHANGED vars
    BY <2>7 DEF Lapse, SendFrame, Tick, vars, connVars
  <2> QED
    BY <2>1, <2>2, <2>3, <2>4, <2>5, <2>6, <2>7 DEF Next
<1> QED
  BY <1>1, <1>2, InitIInv, NextIInv, PTL DEF Spec, RefinesDirectory, Directory!Spec

\* A claim is dropped only with the registered connection of its node or past
\* its lifetime: neither a superseding registration nor the teardown of a
\* superseded stream releases the claim the fresh stream holds.
THEOREM ClaimsSurviveReconnect == Spec => ClaimsDropOnDisconnect
<1> DEFINE Kept == \A k \in seen \ seen' :
                      \/ conns[k[1]] # None /\ conns'[k[1]] = None
                      \/ \E s \in Stream : serverStep[s] - k[2] > Ttl
<1>1. IInv /\ [Next]_vars => [Kept]_vars
  <2> SUFFICES ASSUME IInv, Next PROVE Kept
    OBVIOUS
  <2> USE NodeConnectAssumption DEF IInv, TypeOK
  <2>1. ASSUME NEW s \in Stream, Authenticate(s) \/ Deny(s) PROVE Kept
    <3>1. seen \ seen' \subseteq {k \in seen : ~(serverStep[s] - k[2] <= Ttl)}
      BY <2>1 DEF Authenticate, Deny, Claimed
    <3>2. \A k \in seen : k[2] \in Int /\ serverStep[s] \in Int
      BY DEF Step
    <3>3. Ttl \in Int
      BY DEF Ttl
    <3> QED
      BY <3>1, <3>2, <3>3
  <2>2. ASSUME NEW s \in Stream, Teardown(s) PROVE Kept
    <3>1. nodeOf[s] \in Node
      BY <2>2 DEF Teardown, PhaseInv
    <3> QED
      BY <2>2, <3>1 DEF Teardown, Unregister, FireDisconnect
  <2>3. ASSUME NEW n \in Node, Disconnect(n) PROVE Kept
    BY <2>3 DEF Disconnect, Drop, FireDisconnect
  <2>4. CASE Reap
    BY <2>4 DEF Reap, Stale, Drop, FireDisconnect
  <2>5. ASSUME NEW s \in Stream, Handler(s), ~Authenticate(s), ~Deny(s), ~Teardown(s)
        PROVE  Kept
    BY <2>5 DEF Handler, Hello, NoRegister, FetchRecord, UpsertWrite, UpsertReread,
                SetupFails, RegisterConnection, Register, Configure, Pump, StreamBreaks,
                Heartbeat, replayVars
  <2>6. ASSUME NEW n \in Node, Admin(n), ~Disconnect(n) PROVE Kept
    BY <2>6 DEF Admin, Onboard, Approve, Revoke, DeleteRow, PurgeCheck, PurgeDelete, replayVars
  <2>7. CASE \/ \E s \in Stream : Lapse(s)
             \/ \E n \in Node : SendFrame(n)
             \/ Tick
    BY <2>7 DEF Lapse, SendFrame, Tick, replayVars
  <2> QED
    BY <2>1, <2>2, <2>3, <2>4, <2>5, <2>6, <2>7 DEF Next
<1> QED
  BY <1>1, InitIInv, NextIInv, PTL DEF Spec, ClaimsDropOnDisconnect
=============================================================================

-------------------------- MODULE HostTerminalsProofs --------------------------
(***************************************************************************)
(* Proofs about HostTerminals, for any number of browsers, bridges,        *)
(* connections and shells and any capacities.                              *)
(*                                                                         *)
(* BridgeInv is the registry's side: an open bridge is the registry's and  *)
(* on a connection the node has had, and a queue on the live connection    *)
(* carries no end mark.  FlowInv is the shell's side: what a bridge has    *)
(* replayed, what waits in its queue and what is still on the stream       *)
(* follow each other without a gap, up to what the shell has printed.      *)
(* OrderInv and StartInv count the shells, for the type invariant.         *)
(***************************************************************************)
EXTENDS HostTerminals, FiniteSetTheorems, SequenceTheorems, TLAPS

\* A chunk of any shell, what a recv queue and the stream hold, and the frames
\* for the node.
Chunks == (Nat \ {0}) \X (1 .. MaxOut)
Item == Chunks \cup {EndMark, ExitMark}
Relayed == Chunks \cup {ExitMark}
Frame == {<<"open">>, <<"close">>} \cup ({"attach"} \X (0 .. MaxOut))

\* TypeOK by its parts, with the shells not yet counted.
NetTyped ==
    /\ made \in 0 .. MaxConn /\ cur \in {0, made} /\ greeting \subseteq 1 .. made
    /\ unsent \subseteq Term /\ lossy \subseteq Term
WireTyped == down \in Seq(Frame) /\ Len(down) <= Buffer /\ up \in Seq(Relayed)
Relays == relayed \in BOOLEAN
ShellTyped ==
    /\ opened \in Nat /\ shell \in {0, opened} /\ printed \in 0 .. MaxOut
    /\ Relays
BridgeTyped ==
    /\ host \in {0} \cup Term
    /\ sess \in [Term -> {"none", "open", "closed"}]
    /\ sconn \in [Term -> 0 .. MaxConn]
    /\ recv \in [Term -> Seq(Item)] /\ \A t \in Term : Len(recv[t]) <= OutCap
    /\ last \in [Term -> 0 .. MaxOut]
    /\ pump \subseteq Term
    /\ replay \in [Term -> Seq(Chunks)] /\ \A t \in Term : Len(replay[t]) <= ReplayCap
BrowserTyped ==
    /\ sub \in [Term -> Browser \cup {None}]
    /\ bpc \in [Browser -> {"idle", "open", "ending", "done"}]
    /\ bterm \in [Browser -> {0} \cup Term]
Typed == NetTyped /\ WireTyped /\ ShellTyped /\ BridgeTyped /\ BrowserTyped

\* Bridges are made in order, one not made yet has nothing, and the registry and
\* the browsers know only of bridges that were made.
NumberedTo(n) ==
    /\ \A t \in Term :
          /\ sess[t] = "none" <=> t > n
          /\ sess[t] = "none" => recv[t] = << >> /\ replay[t] = << >> /\ t \notin pump
    /\ host # 0 => sess[host] # "none"
Numbered == \E n \in 0 .. MaxTerm : NumberedTo(n)
Watched ==
    \A b \in Browser : bpc[b] \in {"open", "ending"} =>
        bterm[b] \in Term /\ sess[bterm[b]] # "none"

\* An open bridge is the registry's, and is on a connection of the node: if on
\* the live one, its queue has no end of another.
Ended(t) == \E i \in 1 .. Len(recv[t]) : recv[t][i] = EndMark
Opened(t) ==
    sess[t] = "open" =>
        /\ host = t /\ sconn[t] \in 1 .. made
        /\ sconn[t] = cur => ~Ended(t)

\* Once the live connection's hook has run it is pumped; a pump that is to end
\* has a mark to end by.
Pumped(t) ==
    cur # 0 /\ cur \notin greeting /\ t \notin unsent /\ sess[t] = "open" =>
        t \in pump /\ (sconn[t] = cur \/ ~Ended(t))
Wakes(t) ==
    t \in pump /\ sess[t] = "closed" => \E i \in 1 .. Len(recv[t]) : ~IsChunk(recv[t][i])

Bridged0(t) == Opened(t) /\ Pumped(t) /\ Wakes(t)
BridgeInv == Typed /\ Numbered /\ Watched /\ \A t \in Term : Bridged0(t)

----------------------------------------------------------------------------
(***************************************************************************)
(* The first mark of a queue.                                              *)
(***************************************************************************)

\* A nonempty set of positions has a first one.
LEMMA Least ==
    ASSUME NEW n \in Nat, NEW T \in SUBSET (1 .. n), T # {}
    PROVE  \E i \in T : \A j \in T : i <= j
<1> DEFINE Below == {1 .. i : i \in T}
           R == StrictSubsetOrdering(1 .. n)
<1>1. IsFiniteSet(1 .. n)
  BY FS_Interval
<1>2. IsWellFoundedOn(R, SUBSET (1 .. n))
  BY <1>1, FS_StrictSubsetOrderingWellFounded, FS_FiniteSubsetsOfFinite
<1>3. Below \subseteq SUBSET (1 .. n) /\ Below # {}
  <2>1. \A i \in T : 1 .. i \subseteq 1 .. n
    OBVIOUS
  <2> QED
    BY <2>1
<1>4. PICK X \in Below : \A Y \in Below : <<Y, X>> \notin R
  <2> HIDE DEF Below, R
  <2> QED
    BY <1>2, <1>3, WFMin
<1>5. PICK i \in T : X = 1 .. i
  BY <1>4
<1>6. ASSUME NEW j \in T, j < i PROVE FALSE
  <2>1. <<1 .. j, 1 .. i>> \notin R
    BY <1>4, <1>5
  <2>2. 1 .. j \subseteq 1 .. i /\ 1 .. j # 1 .. i
    BY <1>6
  <2> QED
    BY <2>1, <2>2 DEF StrictSubsetOrdering
<1> QED
  BY <1>6

\* What the pump takes of a queue: its chunks up to the first mark.
LEMMA TakenChunks ==
    ASSUME Typed, NEW t \in Term
    PROVE  /\ Taken(t) \in Seq(Chunks)
           /\ Len(Taken(t)) <= Len(recv[t])
           /\ \A i \in 1 .. Len(Taken(t)) : Taken(t)[i] = recv[t][i]
           /\ Marks(t) = {} => Taken(t) = recv[t]
           /\ Marks(t) # {} => /\ Len(Taken(t)) + 1 \in 1 .. Len(recv[t])
                               /\ ~IsChunk(recv[t][Len(Taken(t)) + 1])
<1> DEFINE q == recv[t]
<1>1. q \in Seq(Item)
  BY DEF Typed, BridgeTyped
<1>2. \A i \in 1 .. Len(q) : q[i] \in Item /\ (IsChunk(q[i]) <=> q[i] \in Chunks)
  <2>1. \A x \in Item : IsChunk(x) <=> x \in Chunks
    BY DEF Item, IsChunk, Chunks, EndMark, ExitMark
  <2> QED
    BY <1>1, <2>1
<1>3. Marks(t) = {i \in 1 .. Len(q) : ~IsChunk(q[i])}
  BY <1>1 DEF Marks
<1>4. CASE Marks(t) = {}
  <2>1. Taken(t) = q /\ \A i \in 1 .. Len(q) : q[i] \in Chunks
    BY <1>2, <1>3, <1>4 DEF Taken
  <2>2. q \in Seq(Chunks)
    BY <1>1, <2>1
  <2> QED
    BY <1>1, <1>4, <2>1, <2>2
<1>5. CASE Marks(t) # {}
  <2> DEFINE m == CHOOSE i \in Marks(t) : \A j \in Marks(t) : i <= j
  <2>1. \E i \in Marks(t) : \A j \in Marks(t) : i <= j
    <3>1. Len(q) \in Nat /\ Marks(t) \in SUBSET (1 .. Len(q))
      BY <1>1, <1>3
    <3> QED
      BY <1>5, <3>1, Least
  <2>2. m \in Marks(t) /\ \A j \in Marks(t) : m <= j
    BY <2>1
  <2>3. Taken(t) = SubSeq(q, 1, m - 1)
    BY <1>5 DEF Taken
  <2> HIDE DEF m
  <2>4. m \in 1 .. Len(q) /\ ~IsChunk(q[m]) /\ \A i \in 1 .. m - 1 : q[i] \in Chunks
    BY <1>1, <1>2, <1>3, <2>2
  <2>5. /\ Len(Taken(t)) = m - 1
        /\ \A i \in 1 .. m - 1 : Taken(t)[i] = q[i]
    BY <1>1, <2>3, <2>4
  <2>6. Taken(t) \in Seq(Chunks)
    <3>1. Taken(t) \in Seq(Item)
      BY <1>1, <2>3, <2>4
    <3> QED
      BY <2>4, <2>5, <3>1
  <2> QED
    BY <1>1, <1>5, <2>4, <2>5, <2>6
<1> QED
  BY <1>4, <1>5

\* The newest part of a replay buffer.
LEMMA NewestChunks ==
    ASSUME NEW s \in Seq(Chunks)
    PROVE  /\ Newest(s) \in Seq(Chunks) /\ Len(Newest(s)) <= ReplayCap
           /\ Len(Newest(s)) <= Len(s)
           /\ \A i \in 1 .. Len(Newest(s)) : Newest(s)[i] = s[Len(s) - Len(Newest(s)) + i]
           /\ Len(s) > 0 => Len(Newest(s)) > 0
<1>1. ReplayCap \in Nat \ {0}
  BY HostTerminalsAssumption
<1>2. CASE Len(s) > ReplayCap
  BY <1>1, <1>2 DEF Newest
<1>3. CASE Len(s) <= ReplayCap
  <2>1. Len(s) \in Nat /\ ~(Len(s) > ReplayCap)
    BY <1>1, <1>3
  <2>2. Newest(s) = SubSeq(s, 1, Len(s))
    BY <2>1 DEF Newest
  <2>3. SubSeq(s, 1, Len(s)) = s
    OBVIOUS
  <2>4. Newest(s) = s
    BY <2>2, <2>3
  <2>5. \A i \in 1 .. Len(s) : Len(s) - Len(s) + i = i
    BY <2>1
  <2> QED
    BY <1>3, <2>1, <2>4, <2>5
<1> QED
  BY <1>1, <1>2, <1>3

----------------------------------------------------------------------------
(***************************************************************************)
(* Steps that leave the bridges alone.                                     *)
(***************************************************************************)

\* Nothing has been opened initially.
LEMMA InitBridges == Init => BridgeInv
<1> SUFFICES ASSUME Init PROVE BridgeInv
  OBVIOUS
<1>1. {OutCap, ReplayCap, Buffer} \subseteq Nat \ {0} /\ {MaxConn, MaxTerm, MaxOut} \subseteq Nat
  BY HostTerminalsAssumption
<1>2. NetTyped /\ WireTyped /\ ShellTyped
  <2>1. << >> \in Seq(Frame) /\ << >> \in Seq(Relayed) /\ Len(<< >>) = 0
    OBVIOUS
  <2>2. NetTyped
    BY <1>1 DEF Init, NetTyped
  <2>3. WireTyped
    BY <1>1, <2>1 DEF Init, WireTyped
  <2>4. Relays
    BY DEF Init, Relays
  <2>5. ShellTyped
    BY <1>1, <2>4 DEF Init, ShellTyped
  <2> QED
    BY <2>2, <2>3, <2>5
<1>3. BridgeTyped
  BY <1>1 DEF Init, BridgeTyped
<1>4. BrowserTyped
  BY DEF Init, BrowserTyped
<1>5. NumberedTo(0) /\ 0 \in 0 .. MaxTerm
  BY <1>1 DEF Init, NumberedTo, Term
<1>6. Watched /\ \A t \in Term : Bridged0(t)
  BY DEF Init, Watched, Bridged0, Opened, Pumped, Wakes
<1> QED
  BY <1>2, <1>3, <1>4, <1>5, <1>6 DEF BridgeInv, Typed, Numbered

\* A step that leaves the bridges, the registry and the connections alone.
LEMMA Elsewhere ==
    ASSUME BridgeInv, WireTyped', ShellTyped', BrowserTyped', Watched',
           UNCHANGED <<made, cur, greeting, host, termVars, unsent, lossy>>
    PROVE  BridgeInv'
<1>1. UNCHANGED <<made, cur, greeting, host, sess, sconn, recv, last, pump, replay, unsent, lossy>>
  BY DEF termVars
<1>2. NetTyped' /\ BridgeTyped'
  BY <1>1 DEF BridgeInv, Typed, NetTyped, BridgeTyped
<1>3. Numbered'
  <2>1. PICK n \in 0 .. MaxTerm : NumberedTo(n)
    BY DEF BridgeInv, Numbered
  <2>2. NumberedTo(n)'
    BY <1>1, <2>1 DEF NumberedTo
  <2> QED
    BY <2>2 DEF Numbered
<1>4. \A t \in Term : Bridged0(t)'
  BY <1>1 DEF BridgeInv, Bridged0, Opened, Pumped, Wakes, Ended, IsChunk
<1> QED
  BY <1>2, <1>3, <1>4 DEF BridgeInv, Typed

\* The node's frames and shells keep their types.
LEMMA NodeTyped ==
    ASSUME Typed, Node
    PROVE  WireTyped' /\ ShellTyped'
<1> USE DEF WireTyped, ShellTyped
<1>1. /\ WireTyped /\ ShellTyped /\ Buffer \in Nat /\ MaxOut \in Nat
  BY HostTerminalsAssumption DEF Typed
<1>2. up \in Seq(Relayed) /\ \A x \in Relayed : Append(up, x) \in Seq(Relayed)
  <2>1. up \in Seq(Relayed)
    BY <1>1
  <2> QED
    BY <2>1
<1>3. ExitMark \in Relayed
  BY DEF Relayed
<1>4. Relays'
  BY <1>1 DEF Relays, Node, NodeOpens, NodeAttaches, NodeCloses, ShellPrints, ShellExits, shellVars
<1>5. ASSUME down # << >> PROVE Tail(down) \in Seq(Frame) /\ Len(Tail(down)) <= Buffer
  BY <1>1, <1>5
<1>6. \A n, k \in Nat : n # 0 /\ k \in 1 .. MaxOut => <<n, k>> \in Relayed
  BY DEF Relayed, Chunks
<1>7. CASE NodeOpens
  <2>1. down' = Tail(down) /\ down # << >>
    BY <1>7 DEF NodeOpens
  <2>2. up' \in {up, Append(up, ExitMark)}
    BY <1>7 DEF NodeOpens
  <2>3. ShellTyped'
    BY <1>1, <1>7, <1>4 DEF NodeOpens, shellVars
  <2>4. up' \in Seq(Relayed)
    BY <1>2, <1>3, <2>2
  <2> QED
    BY <1>5, <2>1, <2>3, <2>4
<1>8. CASE NodeAttaches
  <2>1. down' = Tail(down) /\ down # << >> /\ Head(down) \in Frame /\ Head(down)[1] = "attach"
    BY <1>1, <1>8 DEF NodeAttaches
  <2>2. Head(down)[2] \in 0 .. MaxOut
    BY <2>1 DEF Frame
  <2> DEFINE k == Head(down)[2]
             sent == [i \in 1 .. (printed - k) |-> <<shell, k + i>>]
  <2>3. ASSUME shell # 0 PROVE sent \in Seq(Relayed)
    <3> HIDE DEF k
    <3>1. k \in 0 .. MaxOut
      BY <2>2 DEF k
    <3>2. \A i \in 1 .. (printed - k) : <<shell, k + i>> \in Relayed
      BY <1>1, <1>6, <2>3, <3>1
    <3> DEFINE n == IF printed >= k THEN printed - k ELSE 0
    <3>3. n \in Nat /\ 1 .. (printed - k) = 1 .. n
      BY <1>1, <3>1
    <3> HIDE DEF n
    <3>4. sent = [i \in 1 .. n |-> <<shell, k + i>>]
      BY <3>3
    <3>5. \A i \in 1 .. n : <<shell, k + i>> \in Relayed
      BY <3>2, <3>3
    <3>6. sent \in [1 .. n -> Relayed]
      BY <3>4, <3>5
    <3> HIDE DEF sent
    <3> QED
      BY <3>3, <3>6, SeqDef
  <2>4. up' \in Seq(Relayed)
    <3> HIDE DEF sent, k
    <3>1. shell # 0 => up' = up \o sent
      BY <1>8 DEF NodeAttaches, sent, k
    <3>2. shell = 0 => up' = Append(up, ExitMark)
      BY <1>8 DEF NodeAttaches
    <3>3. CASE shell # 0
      <4>1. sent \in Seq(Relayed) /\ up' = up \o sent
        BY <2>3, <3>1, <3>3
      <4> QED
        BY <1>2, <4>1
    <3>4. CASE shell = 0
      BY <1>2, <1>3, <3>2, <3>4
    <3> QED
      BY <3>3, <3>4
  <2>5. ShellTyped'
    BY <1>1, <1>8, <1>4 DEF NodeAttaches
  <2> QED
    BY <1>5, <2>1, <2>4, <2>5
<1>9. CASE NodeCloses
  <2>1. down' = Tail(down) /\ down # << >> /\ ShellTyped'
    BY <1>1, <1>9, <1>4 DEF NodeCloses
  <2>2. up' \in {up, Append(up, ExitMark)}
    BY <1>9 DEF NodeCloses
  <2>3. up' \in Seq(Relayed)
    BY <1>2, <1>3, <2>2
  <2> QED
    BY <1>5, <2>1, <2>3
<1>10. CASE ShellPrints
  <2>1. down' = down /\ ShellTyped' /\ up' \in {up, Append(up, <<shell, printed + 1>>)}
    BY <1>1, <1>10, <1>4 DEF ShellPrints
  <2>2. <<shell, printed + 1>> \in Relayed
    BY <1>1, <1>6, <1>10 DEF ShellPrints
  <2>3. up' \in Seq(Relayed)
    BY <1>2, <2>1, <2>2
  <2> QED
    BY <1>1, <2>1, <2>3
<1>11. CASE ShellExits
  <2>1. down' = down /\ ShellTyped' /\ up' \in {up, Append(up, ExitMark)}
    BY <1>1, <1>11, <1>4 DEF ShellExits
  <2>2. up' \in Seq(Relayed)
    BY <1>2, <1>3, <2>1
  <2> QED
    BY <1>1, <2>1, <2>2
<1> QED
  BY <1>7, <1>8, <1>9, <1>10, <1>11 DEF Node

LEMMA NodeBridges == ASSUME BridgeInv, Node PROVE BridgeInv'
<1>1. UNCHANGED <<made, cur, greeting, host, termVars, sub, browserVars, unsent, lossy>>
  BY DEF Node, NodeOpens, NodeAttaches, NodeCloses, ShellPrints, ShellExits, NodeKeeps
<1>2. WireTyped' /\ ShellTyped'
  BY NodeTyped DEF BridgeInv
<1>3. BrowserTyped' /\ Watched'
  BY <1>1 DEF BridgeInv, Typed, BrowserTyped, Watched, browserVars, termVars
<1> QED
  BY <1>1, <1>2, <1>3, Elsewhere

\* Browsers that come and go.
LEMMA BrowserBridges ==
    ASSUME BridgeInv, NEW b \in Browser,
           Attach(b) \/ OpenFails(b) \/ Leave(b) \/ EndBridge(b)
    PROVE  BridgeInv'
<1>1. UNCHANGED <<made, cur, greeting, wireVars, shellVars, host, termVars, unsent, lossy>>
  BY DEF Attach, OpenFails, Leave, EndBridge
<1>2. WireTyped' /\ ShellTyped'
  BY <1>1 DEF BridgeInv, Typed, WireTyped, ShellTyped, Relays, wireVars, shellVars
<1>3. /\ Watched /\ BrowserTyped
      /\ host # 0 => host \in Term /\ sess[host] # "none"
      /\ sess' = sess
  BY <1>1 DEF BridgeInv, Typed, BridgeTyped, Numbered, NumberedTo, termVars
<1>4. BrowserTyped' /\ Watched'
  <2>1. CASE Attach(b)
    BY <1>3, <2>1 DEF Attach, Subscribe, Bridged, BrowserTyped, Watched
  <2>2. CASE OpenFails(b)
    BY <1>3, <2>2 DEF OpenFails, BrowserTyped, Watched
  <2>3. CASE Leave(b)
    BY <1>3, <2>3 DEF Leave, BrowserTyped, Watched
  <2>4. CASE EndBridge(b)
    BY <1>3, <2>4 DEF EndBridge, BrowserTyped, Watched
  <2> QED
    BY <2>1, <2>2, <2>3, <2>4
<1> QED
  BY <1>1, <1>2, <1>4, Elsewhere

LEMMA UnbridgedBridges == ASSUME BridgeInv, CloseUnbridged PROVE BridgeInv'
<1>1. /\ UNCHANGED <<made, cur, greeting, host, termVars, unsent, lossy>>
      /\ UNCHANGED <<up, shellVars, sub, browserVars>>
  BY DEF CloseUnbridged
<1>2. WireTyped'
  <2>1. down' = Append(down, <<"close">>) /\ Len(down) < Buffer
    BY DEF CloseUnbridged, CanSend
  <2>2. <<"close">> \in Frame /\ Buffer \in Nat
    BY HostTerminalsAssumption DEF Frame
  <2> QED
    BY <1>1, <2>1, <2>2 DEF BridgeInv, Typed, WireTyped
<1>3. ShellTyped' /\ BrowserTyped' /\ Watched'
  BY <1>1 DEF BridgeInv, Typed, ShellTyped, Relays, BrowserTyped, Watched, shellVars, browserVars, termVars
<1> QED
  BY <1>1, <1>2, <1>3, Elsewhere

LEMMA StutterBridges == ASSUME BridgeInv, UNCHANGED vars PROVE BridgeInv'
<1>1. /\ UNCHANGED <<made, cur, greeting, host, termVars, unsent, lossy>>
      /\ UNCHANGED <<wireVars, shellVars, sub, browserVars>>
  BY DEF vars
<1>2. WireTyped' /\ ShellTyped' /\ BrowserTyped' /\ Watched'
  BY <1>1 DEF BridgeInv, Typed, WireTyped, ShellTyped, Relays, BrowserTyped, Watched, wireVars,
              shellVars, browserVars, termVars
<1> QED
  BY <1>1, <1>2, Elsewhere

----------------------------------------------------------------------------
(***************************************************************************)
(* Steps that close a bridge or a connection.                              *)
(***************************************************************************)

\* A released session's queue keeps its type and holds an end mark.
LEMMA Released ==
    ASSUME Typed, NEW t \in Term, Release(t)
    PROVE  /\ sess' = [sess EXCEPT ![t] = "closed"]
           /\ recv' \in [Term -> Seq(Item)]
           /\ \A u \in Term : Len(recv'[u]) <= OutCap
           /\ \A u \in Term \ {t} : recv'[u] = recv[u]
           /\ \E i \in 1 .. Len(recv'[t]) : recv'[t][i] = EndMark
<1>1. /\ recv \in [Term -> Seq(Item)] /\ \A u \in Term : Len(recv[u]) <= OutCap
      /\ EndMark \in Item /\ OutCap \in Nat \ {0}
  BY HostTerminalsAssumption DEF Typed, BridgeTyped, Item
<1> DEFINE q == IF Len(recv[t]) < OutCap THEN Append(recv[t], EndMark) ELSE <<EndMark>>
<1>2. recv' = [recv EXCEPT ![t] = q] /\ sess' = [sess EXCEPT ![t] = "closed"]
  BY DEF Release
<1>3. /\ q \in Seq(Item) /\ Len(q) <= OutCap
      /\ Len(q) \in 1 .. Len(q) /\ q[Len(q)] = EndMark
  <2>1. CASE Len(recv[t]) < OutCap
    BY <1>1, <2>1
  <2>2. CASE ~(Len(recv[t]) < OutCap)
    BY <1>1, <2>2
  <2> QED
    BY <2>1, <2>2
<1> HIDE DEF q
<1> QED
  BY <1>1, <1>2, <1>3

\* Close takes at most one bridge out of the registry, its own.
LEMMA ClosingBridges ==
    ASSUME BridgeInv, NEW t \in Term, sess[t] # "none", Close(t),
           UNCHANGED <<made, cur, greeting, up, shellVars, sconn, last, pump, replay,
                       bterm, unsent, lossy>>,
           host' = host \/ (host' = 0 /\ host = t),
           bpc' \in [Browser -> {"idle", "open", "ending", "done"}],
           \A b \in Browser : bpc'[b] \in {"open", "ending"} => bpc[b] \in {"open", "ending"}
    PROVE  BridgeInv'
<1>1. NetTyped' /\ ShellTyped'
  BY DEF BridgeInv, Typed, NetTyped, ShellTyped, Relays, shellVars
<1>2. /\ sess' \in [Term -> {"none", "open", "closed"}]
      /\ recv' \in [Term -> Seq(Item)] /\ \A u \in Term : Len(recv'[u]) <= OutCap
      /\ \A u \in Term \ {t} : sess'[u] = sess[u] /\ recv'[u] = recv[u]
      /\ sess'[t] = "closed"
      /\ t \in pump => \E i \in 1 .. Len(recv'[t]) : ~IsChunk(recv'[t][i])
  <2>1. CASE sess[t] = "closed"
    BY <2>1 DEF Close, BridgeInv, Typed, BridgeTyped, Bridged0, Wakes, IsChunk
  <2>2. CASE sess[t] # "closed"
    <3>1. Release(t)
      BY <2>2 DEF Close
    <3>2. ~IsChunk(EndMark)
      BY DEF IsChunk, EndMark
    <3>3. sess \in [Term -> {"none", "open", "closed"}]
      BY DEF BridgeInv, Typed, BridgeTyped
    <3>4. /\ sess' = [sess EXCEPT ![t] = "closed"]
          /\ recv' \in [Term -> Seq(Item)] /\ \A u \in Term : Len(recv'[u]) <= OutCap
          /\ \A u \in Term \ {t} : recv'[u] = recv[u]
          /\ \E i \in 1 .. Len(recv'[t]) : recv'[t][i] = EndMark
      <4>1. Typed
        BY DEF BridgeInv
      <4> QED
        BY <3>1, <4>1, Released
    <3>5. \E i \in 1 .. Len(recv'[t]) : ~IsChunk(recv'[t][i])
      BY <3>2, <3>4 DEF IsChunk
    <3> QED
      BY <3>3, <3>4, <3>5
  <2> QED
    BY <2>1, <2>2
<1>3. BridgeTyped'
  BY <1>2 DEF BridgeInv, Typed, BridgeTyped
<1>4. WireTyped'
  <2>1. down' \in Seq(Frame) /\ Len(down') <= Buffer
    <3>1. down \in Seq(Frame) /\ Len(down) <= Buffer /\ <<"close">> \in Frame /\ Buffer \in Nat
      BY HostTerminalsAssumption DEF BridgeInv, Typed, WireTyped, Frame
    <3>2. down' = down \/ (down' = Append(down, <<"close">>) /\ Len(down) < Buffer)
      BY DEF Close, CanSend
    <3> QED
      BY <3>1, <3>2
  <2> QED
    BY <2>1 DEF BridgeInv, Typed, WireTyped
<1>5. BrowserTyped' /\ Watched'
  <2>1. sub' = sub \/ sub' = [sub EXCEPT ![t] = None]
    BY DEF Close
  <2>2. BrowserTyped'
    BY <2>1 DEF BridgeInv, Typed, BrowserTyped
  <2>3. \A u \in Term : sess[u] # "none" => sess'[u] # "none"
    BY <1>2
  <2> QED
    BY <2>2, <2>3 DEF BridgeInv, Watched
<1>6. Numbered'
  <2>1. PICK n \in 0 .. MaxTerm : NumberedTo(n)
    BY DEF BridgeInv, Numbered
  <2>2. host \in {0} \cup Term /\ 0 \notin Term
    BY HostTerminalsAssumption DEF BridgeInv, Typed, BridgeTyped, Term
  <2>3. NumberedTo(n)'
    BY <1>2, <2>1, <2>2 DEF NumberedTo
  <2> QED
    BY <2>3 DEF Numbered
<1>7. ASSUME NEW u \in Term PROVE Bridged0(u)'
  <2>1. Bridged0(u)
    BY DEF BridgeInv
  <2>2. CASE u = t
    BY <1>2, <2>2 DEF Bridged0, Opened, Pumped, Wakes, IsChunk
  <2>3. CASE u # t
    BY <1>2, <2>1, <2>3 DEF Bridged0, Opened, Pumped, Wakes, Ended, IsChunk
  <2> QED
    BY <2>2, <2>3
<1> QED
  BY <1>1, <1>3, <1>4, <1>5, <1>6, <1>7 DEF BridgeInv, Typed

LEMMA CloseFrameBridges == ASSUME BridgeInv, NEW b \in Browser, CloseFrame(b) PROVE BridgeInv'
<1>1. bterm[b] \in Term /\ sess[bterm[b]] # "none" /\ bpc[b] = "open"
  BY DEF CloseFrame, BridgeInv, Watched
<1>2. /\ Close(bterm[b])
      /\ UNCHANGED <<made, cur, greeting, up, shellVars, host, sconn, last, pump, replay,
                     bterm, unsent, lossy>>
  BY DEF CloseFrame
<1>3. /\ bpc' \in [Browser -> {"idle", "open", "ending", "done"}]
      /\ \A c \in Browser : bpc'[c] \in {"open", "ending"} => bpc[c] \in {"open", "ending"}
  BY <1>1 DEF CloseFrame, BridgeInv, Typed, BrowserTyped
<1> QED
  BY <1>1, <1>2, <1>3, ClosingBridges

LEMMA RemovalBridges == ASSUME BridgeInv, Delete \/ Reap PROVE BridgeInv'
<1>1. host \in Term /\ sess[host] # "none"
  BY DEF Delete, Reap, BridgeInv, Typed, BridgeTyped, Numbered, NumberedTo
<1>2. /\ Close(host) /\ host' = 0
      /\ UNCHANGED <<made, cur, greeting, up, shellVars, sconn, last, pump, replay,
                     browserVars, unsent, lossy>>
  BY DEF Delete, Reap
<1>3. /\ bpc' \in [Browser -> {"idle", "open", "ending", "done"}]
      /\ bpc' = bpc /\ bterm' = bterm
  BY <1>2 DEF BridgeInv, Typed, BrowserTyped, browserVars
<1> QED
  BY <1>1, <1>2, <1>3, ClosingBridges

\* A connection that closes ends the open queues on it that have room.
LEMMA ClosedConn ==
    ASSUME Typed, CloseConn
    PROVE  /\ recv' \in [Term -> Seq(Item)]
           /\ \A u \in Term : Len(recv'[u]) <= OutCap
           /\ \A u \in Term : sconn[u] # cur \/ sess[u] # "open" => recv'[u] = recv[u]
<1>1. /\ recv \in [Term -> Seq(Item)] /\ \A u \in Term : Len(recv[u]) <= OutCap
      /\ EndMark \in Item /\ OutCap \in Nat \ {0}
  BY HostTerminalsAssumption DEF Typed, BridgeTyped, Item
<1>2. ASSUME NEW u \in Term, Len(recv[u]) < OutCap
      PROVE  Append(recv[u], EndMark) \in Seq(Item) /\ Len(Append(recv[u], EndMark)) <= OutCap
  BY <1>1, <1>2
<1>3. recv' = [t \in Term |-> IF sconn[t] = cur /\ sess[t] = "open" /\ Len(recv[t]) < OutCap
                              THEN Append(recv[t], EndMark) ELSE recv[t]]
  BY DEF CloseConn
<1> QED
  BY <1>1, <1>2, <1>3

\* A step to another connection, or to none, with nothing to be said of it yet.
LEMMA NextConnBridges ==
    ASSUME BridgeInv,
           made' \in {made, made + 1}, made' \in 0 .. MaxConn,
           cur' = 0 \/ (cur' = made' /\ made' = made + 1 /\ cur' \in greeting'),
           greeting' \subseteq 1 .. made',
           CloseConn \/ (cur = 0 /\ UNCHANGED <<recv, wireVars>>), ShellTyped',
           UNCHANGED <<host, sess, sconn, last, pump, replay, sub, browserVars, unsent, lossy>>
    PROVE  BridgeInv'
<1>1. NetTyped'
  BY DEF BridgeInv, Typed, NetTyped
<1>2. /\ recv' \in [Term -> Seq(Item)] /\ \A u \in Term : Len(recv'[u]) <= OutCap
      /\ \A u \in Term : sconn[u] # cur \/ sess[u] # "open" => recv'[u] = recv[u]
  <2>1. CASE CloseConn
    BY <2>1, ClosedConn DEF BridgeInv
  <2>2. CASE recv' = recv
    BY <2>2 DEF BridgeInv, Typed, BridgeTyped
  <2> QED
    BY <2>1, <2>2
<1>3. BridgeTyped'
  BY <1>2 DEF BridgeInv, Typed, BridgeTyped
<1>4. WireTyped'
  <2>1. CASE CloseConn
    <3>1. down' = << >> /\ up' = << >> /\ Buffer \in Nat
      BY <2>1, HostTerminalsAssumption DEF CloseConn
    <3> QED
      BY <3>1 DEF WireTyped
  <2>2. CASE UNCHANGED wireVars
    BY <2>2 DEF BridgeInv, Typed, WireTyped, wireVars
  <2> QED
    BY <2>1, <2>2
<1>5. BrowserTyped' /\ Watched'
  BY DEF BridgeInv, Typed, BrowserTyped, Watched, browserVars
<1>6. Numbered'
  <2>1. PICK n \in 0 .. MaxTerm : NumberedTo(n)
    BY DEF BridgeInv, Numbered
  <2>2. NumberedTo(n)'
    BY <1>2, <2>1 DEF NumberedTo
  <2> QED
    BY <2>2 DEF Numbered
<1>7. ASSUME NEW u \in Term PROVE Bridged0(u)'
  <2>1. Bridged0(u) /\ made \in Nat /\ MaxConn \in Nat
    BY HostTerminalsAssumption DEF BridgeInv, Typed, NetTyped
  <2>2. Opened(u)'
    BY <2>1 DEF Bridged0, Opened
  <2>3. Pumped(u)' /\ Wakes(u)'
    BY <1>2, <2>1 DEF Bridged0, Pumped, Wakes, IsChunk
  <2> QED
    BY <2>2, <2>3 DEF Bridged0
<1> QED
  BY <1>1, <1>3, <1>4, <1>5, <1>6, <1>7 DEF BridgeInv, Typed

LEMMA ConnectionBridges == ASSUME BridgeInv, Connect \/ Disconnect PROVE BridgeInv'
<1>1. /\ made \in 0 .. MaxConn /\ MaxConn \in Nat /\ greeting \subseteq 1 .. made
      /\ ShellTyped
  BY HostTerminalsAssumption DEF BridgeInv, Typed, NetTyped
<1>2. UNCHANGED <<host, sess, sconn, last, pump, replay, sub, browserVars, unsent, lossy>>
  BY DEF Connect, Disconnect
<1>3. ShellTyped'
  <2>1. Relays'
    BY DEF Connect, Disconnect, Relays
  <2> QED
    BY <1>1, <2>1 DEF Connect, Disconnect, ShellTyped
<1>4. CASE Connect
  <2>1. /\ made < MaxConn /\ made' = made + 1 /\ cur' = made + 1
        /\ greeting' = greeting \cup {made + 1}
        /\ CloseConn \/ (cur = 0 /\ UNCHANGED <<recv, wireVars>>)
    BY <1>4 DEF Connect
  <2> QED
    BY <1>1, <1>2, <1>3, <2>1, NextConnBridges
<1>5. CASE Disconnect
  <2>1. CloseConn /\ cur' = 0 /\ made' = made /\ greeting' = greeting
    BY <1>5 DEF Disconnect
  <2> QED
    BY <1>1, <1>2, <1>3, <2>1, NextConnBridges
<1> QED
  BY <1>4, <1>5

----------------------------------------------------------------------------
(***************************************************************************)
(* Steps that open, reattach or feed a bridge.                             *)
(***************************************************************************)

\* Bridges are numbered in the order they are made.
LEMMA NextIsNew ==
    ASSUME Typed, NEW n \in 0 .. MaxTerm, NumberedTo(n)
    PROVE  NextTerm = n + 1
<1>1. MaxTerm \in Nat
  BY HostTerminalsAssumption
<1>2. {t \in Term : sess[t] # "none"} = 1 .. n
  BY <1>1 DEF NumberedTo, Term
<1>3. Cardinality(1 .. n) = n
  BY <1>1, FS_Interval
<1> QED
  BY <1>2, <1>3 DEF NextTerm

LEMMA OpenBridges == ASSUME BridgeInv, NEW b \in Browser, Open(b) PROVE BridgeInv'
<1>1. PICK n \in 0 .. MaxTerm : NumberedTo(n)
  BY DEF BridgeInv, Numbered
<1> DEFINE new == n + 1
<1>2. NextTerm = new
  BY <1>1, NextIsNew DEF BridgeInv
<1> HIDE DEF new
<1>3. /\ new \in Term /\ OpenSession(new) /\ Subscribe(b, new)
      /\ pump' = pump \cup {new} /\ host' = new /\ ~Bridged
      /\ UNCHANGED <<made, cur, greeting, up, shellVars, recv, last, replay, unsent, lossy>>
  BY <1>2 DEF Open
<1>4. /\ sess' = [sess EXCEPT ![new] = "open"] /\ sconn' = [sconn EXCEPT ![new] = cur]
      /\ down' = Append(down, <<"open">>) /\ Len(down) < Buffer /\ cur # 0
  BY <1>3 DEF OpenSession, CanSend
<1>5. /\ NetTyped /\ WireTyped /\ ShellTyped /\ BridgeTyped /\ BrowserTyped
      /\ MaxTerm \in Nat /\ MaxConn \in Nat /\ Buffer \in Nat
  BY HostTerminalsAssumption DEF BridgeInv, Typed
<1>6. NetTyped' /\ ShellTyped'
  BY <1>3, <1>5 DEF NetTyped, ShellTyped, Relays, shellVars
<1>7. WireTyped'
  <2>1. <<"open">> \in Frame
    BY DEF Frame
  <2> QED
    BY <1>3, <1>4, <1>5, <2>1 DEF WireTyped
<1>8. BridgeTyped'
  BY <1>3, <1>4, <1>5 DEF BridgeTyped, NetTyped
<1>9. BrowserTyped' /\ Watched'
  <2>1. /\ sub' = [sub EXCEPT ![new] = b] /\ bterm' = [bterm EXCEPT ![b] = new]
        /\ bpc' \in {[bpc EXCEPT ![b] = "open"], [bpc EXCEPT ![b] = "done"]}
    BY <1>3 DEF Subscribe
  <2>2. BrowserTyped'
    BY <1>3, <1>5, <2>1 DEF BrowserTyped
  <2>3. \A t \in Term : sess'[t] # "none" \/ sess'[t] = sess[t]
    BY <1>4, <1>5 DEF BridgeTyped
  <2>4. sess'[new] # "none" /\ Watched
    BY <1>3, <1>4, <1>5 DEF BridgeTyped, BridgeInv
  <2> QED
    BY <1>3, <1>5, <2>1, <2>2, <2>3, <2>4 DEF BrowserTyped, Watched
<1>10. sess[new] = "none" /\ \A t \in Term : sess[t] # "open"
  <2>1. ASSUME NEW t \in Term, sess[t] = "open" PROVE FALSE
    BY <1>3, <2>1 DEF BridgeInv, Bridged0, Opened, Bridged, Term
  <2>2. sess[new] = "none"
    BY <1>1, <1>3 DEF NumberedTo, new, Term
  <2> QED
    BY <2>1, <2>2
<1>11. Numbered'
  <2>1. n + 1 \in 0 .. MaxTerm
    BY <1>3, <1>5 DEF new, Term
  <2>2. NumberedTo(n + 1)'
    <3>1. \A t \in Term : (sess'[t] = "none" <=> t > n + 1)
      <4> SUFFICES ASSUME NEW t \in Term PROVE sess'[t] = "none" <=> t > n + 1
        OBVIOUS
      <4>1. sess'[t] = IF t = new THEN "open" ELSE sess[t]
        BY <1>3, <1>4, <1>5 DEF BridgeTyped
      <4>2. sess[t] = "none" <=> t > n
        BY <1>1 DEF NumberedTo
      <4>3. t \in Nat
        BY <1>5 DEF Term
      <4> QED
        BY <4>1, <4>2, <4>3 DEF new
    <3>2. \A t \in Term : sess'[t] = "none" => sess[t] = "none" /\ t # new
      BY <1>3, <1>4, <1>5 DEF BridgeTyped
    <3> QED
      BY <1>1, <1>3, <1>4, <1>5, <3>1, <3>2 DEF NumberedTo, BridgeTyped
  <2> QED
    BY <2>1, <2>2 DEF Numbered
<1>12. ASSUME NEW t \in Term PROVE Bridged0(t)'
  <2>1. CASE t = new
    <3>1. /\ sess'[t] = "open" /\ sconn'[t] = cur /\ t \in pump'
          /\ recv'[t] = << >> /\ host' = t /\ cur' = cur /\ cur \in 1 .. made /\ made' = made
      BY <1>1, <1>3, <1>4, <1>5, <1>10, <2>1 DEF NumberedTo, BridgeTyped, NetTyped
    <3> QED
      BY <3>1 DEF Bridged0, Opened, Pumped, Wakes, Ended
  <2>2. CASE t # new
    <3>1. sess'[t] = sess[t] /\ sess[t] # "open" /\ recv' = recv /\ (t \in pump' <=> t \in pump)
      BY <1>3, <1>4, <1>5, <1>10, <2>2 DEF BridgeTyped
    <3> QED
      BY <3>1 DEF BridgeInv, Bridged0, Opened, Pumped, Wakes, IsChunk
  <2> QED
    BY <2>1, <2>2
<1> QED
  BY <1>6, <1>7, <1>8, <1>9, <1>11, <1>12 DEF BridgeInv, Typed

\* The hook of a connection that is gone finds no room to attach.
LEMMA RebindBridges == ASSUME BridgeInv, NEW c \in Conn, Rebind(c) PROVE BridgeInv'
<1>1. /\ c \in greeting /\ greeting' = greeting \ {c}
      /\ \A t \in pump : sconn[t] # c => recv[t] = << >>
      /\ UNCHANGED <<made, cur, up, shellVars, host, sess, last, replay, sub, browserVars, lossy>>
  BY DEF Rebind
<1>2. /\ NetTyped /\ WireTyped /\ ShellTyped /\ BridgeTyped /\ BrowserTyped /\ Watched
      /\ MaxTerm \in Nat /\ MaxConn \in Nat /\ Buffer \in Nat
  BY HostTerminalsAssumption DEF BridgeInv, Typed
<1>3. ShellTyped' /\ BrowserTyped' /\ Watched'
  BY <1>1, <1>2 DEF ShellTyped, Relays, BrowserTyped, Watched, shellVars, browserVars
<1>4. PICK n \in 0 .. MaxTerm : NumberedTo(n)
  BY DEF BridgeInv, Numbered
<1>5. c \in 1 .. made /\ 1 .. made \subseteq 0 .. MaxConn
  BY <1>1, <1>2 DEF NetTyped
<1>6. CASE host # 0 /\ Reattachable(host)
  <2> DEFINE h == host
  <2>1. /\ h \in Term /\ sess[h] = "open" /\ h \notin pump
        /\ sconn' = [sconn EXCEPT ![h] = c] /\ recv' = [recv EXCEPT ![h] = << >>]
        /\ down' = IF CanSend(c) THEN Append(down, <<"attach", last[h]>>) ELSE down
        /\ pump' = IF CanSend(c) THEN pump \cup {h} ELSE pump
        /\ unsent' = IF CanSend(c) THEN unsent \ {h} ELSE unsent \cup {h}
    BY <1>2, <1>6 DEF Rebind, RebindTerminal, AttachSession, Reattachable, BridgeTyped, ResumeFrom
  <2> HIDE DEF h
  <2>2. NetTyped'
    BY <1>1, <1>2, <2>1 DEF NetTyped
  <2>3. WireTyped'
    <3>1. <<"attach", last[h]>> \in Frame
      BY <1>2, <2>1 DEF Frame, BridgeTyped
    <3> QED
      BY <1>1, <1>2, <2>1, <3>1 DEF WireTyped, CanSend
  <2>4. BridgeTyped'
    <3>1. << >> \in Seq(Item) /\ Len(<< >>) = 0 /\ OutCap \in Nat
      BY HostTerminalsAssumption
    <3>2. recv' \in [Term -> Seq(Item)] /\ \A t \in Term : Len(recv'[t]) <= OutCap
      BY <1>2, <2>1, <3>1 DEF BridgeTyped
    <3>3. sconn' \in [Term -> 0 .. MaxConn] /\ pump' \subseteq Term
      BY <1>2, <1>5, <2>1 DEF BridgeTyped
    <3> QED
      BY <1>1, <1>2, <3>2, <3>3 DEF BridgeTyped
  <2>5. Numbered'
    <3>1. NumberedTo(n)'
      BY <1>1, <1>2, <1>4, <2>1 DEF NumberedTo, BridgeTyped
    <3> QED
      BY <3>1 DEF Numbered
  <2>6. ASSUME NEW t \in Term PROVE Bridged0(t)'
    <3>1. Bridged0(t) /\ (sess[t] = "open" => t = h)
      BY <2>1 DEF BridgeInv, Bridged0, Opened, h
    <3>2. CASE t = h
      <4>1. recv'[t] = << >> /\ sconn'[t] = c /\ sess'[t] = "open" /\ host' = t
        BY <1>1, <1>2, <2>1, <3>2 DEF BridgeTyped, h
      <4>2. (c = cur /\ cur # 0) \/ t \in unsent'
        BY <2>1, <3>2 DEF CanSend
      <4>3. t \in pump' \/ t \in unsent'
        BY <2>1, <3>2
      <4> QED
        BY <1>1, <1>5, <4>1, <4>2, <4>3 DEF Bridged0, Opened, Pumped, Wakes, Ended
    <3>3. CASE t # h
      <4>1. /\ recv'[t] = recv[t] /\ sess'[t] = sess[t] /\ sess[t] # "open"
            /\ t \in pump' <=> t \in pump
        BY <1>1, <1>2, <2>1, <3>1, <3>3 DEF BridgeTyped
      <4> QED
        BY <3>1, <4>1 DEF Bridged0, Opened, Pumped, Wakes, IsChunk
    <3> QED
      BY <3>2, <3>3
  <2> QED
    BY <1>3, <2>2, <2>3, <2>4, <2>5, <2>6 DEF BridgeInv, Typed
<1>7. CASE ~(host # 0 /\ Reattachable(host))
  <2>1. UNCHANGED <<sconn, recv, down, pump, unsent>>
    BY <1>7 DEF Rebind
  <2>2. NetTyped' /\ WireTyped' /\ BridgeTyped'
    BY <1>1, <1>2, <2>1 DEF NetTyped, WireTyped, BridgeTyped
  <2>3. Numbered'
    <3>1. NumberedTo(n)'
      BY <1>1, <1>4, <2>1 DEF NumberedTo
    <3> QED
      BY <3>1 DEF Numbered
  <2>4. ASSUME NEW t \in Term PROVE Bridged0(t)'
    <3>1. Bridged0(t)
      BY DEF BridgeInv
    <3>2. Opened(t)' /\ Wakes(t)'
      BY <1>1, <2>1, <3>1 DEF Bridged0, Opened, Wakes, Ended, IsChunk
    <3>3. Pumped(t)'
      <4>1. sess[t] = "open" => t \in pump
        BY <1>7, <3>1 DEF Bridged0, Opened, Reattachable, Term
      <4>2. sess[t] = "open" /\ sconn[t] # c => ~Ended(t)
        BY <1>1, <4>1 DEF Ended
      <4>3. CASE c = cur
        BY <1>1, <2>1, <4>1, <4>2, <4>3 DEF Pumped, Ended
      <4>4. CASE c # cur
        BY <1>1, <2>1, <3>1, <4>4 DEF Bridged0, Pumped, Ended
      <4> QED
        BY <4>3, <4>4
    <3> QED
      BY <3>2, <3>3 DEF Bridged0
  <2> QED
    BY <1>3, <2>2, <2>3, <2>4 DEF BridgeInv, Typed
<1> QED
  BY <1>6, <1>7

\* A frame goes to the end of the queues that have room.
LEMMA Delivered ==
    ASSUME Typed, Deliver, NEW t \in Term
    PROVE  /\ recv'[t] = recv[t] \/ (recv'[t] = Append(recv[t], Head(up)) /\ Len(recv[t]) < OutCap)
           /\ ~(sess[t] = "open" /\ sconn[t] = cur) => recv'[t] = recv[t]
           /\ t \notin lossy' /\ sess[t] = "open" /\ sconn[t] = cur =>
                 recv'[t] = Append(recv[t], Head(up))
           /\ Head(up) \in Relayed /\ Tail(up) \in Seq(Relayed)
<1>1. up \in Seq(Relayed) /\ up # << >>
  BY DEF Typed, WireTyped, Deliver
<1> DEFINE T == {u \in Term : sess[u] = "open" /\ sconn[u] = cur}
           room == {u \in T : Len(recv[u]) < OutCap}
<1>2. /\ recv' = [u \in Term |-> IF u \in room THEN Append(recv[u], Head(up)) ELSE recv[u]]
      /\ lossy' = lossy \cup (T \ room)
  BY DEF Deliver
<1>3. recv'[t] = IF t \in room THEN Append(recv[t], Head(up)) ELSE recv[t]
  BY <1>2
<1> QED
  BY <1>1, <1>2, <1>3

LEMMA DeliverBridges == ASSUME BridgeInv, Deliver PROVE BridgeInv'
<1>1. /\ UNCHANGED <<made, cur, greeting, down, shellVars, host, sess, sconn, last, pump,
                   replay, sub, browserVars, unsent>>
      /\ up' = Tail(up)
  BY DEF Deliver
<1>2. /\ NetTyped /\ WireTyped /\ ShellTyped /\ BridgeTyped /\ BrowserTyped /\ Watched /\ Typed
  BY DEF BridgeInv, Typed
<1>3. ShellTyped' /\ BrowserTyped' /\ Watched'
  BY <1>1, <1>2 DEF ShellTyped, Relays, BrowserTyped, Watched, shellVars, browserVars
<1>4. NetTyped' /\ WireTyped'
  <2>1. Tail(up) \in Seq(Relayed)
    BY <1>2 DEF WireTyped, Deliver
  <2>2. lossy' \subseteq Term
    BY <1>2 DEF NetTyped, Deliver
  <2> QED
    BY <1>1, <1>2, <2>1, <2>2 DEF NetTyped, WireTyped
<1>5. ASSUME NEW t \in Term
      PROVE  /\ recv'[t] \in Seq(Item) /\ Len(recv'[t]) <= OutCap
             /\ Ended(t)' => Ended(t)
             /\ sess[t] # "open" => recv'[t] = recv[t]
  <2>1. /\ recv[t] \in Seq(Item) /\ Len(recv[t]) <= OutCap /\ OutCap \in Nat
    BY <1>2, HostTerminalsAssumption DEF BridgeTyped
  <2>2. Head(up) \in Item /\ Head(up) # EndMark
    <3>1. Head(up) \in Relayed
      BY <1>2, Delivered
    <3> QED
      BY <3>1 DEF Relayed, Item, EndMark, ExitMark, Chunks
  <2>3. recv'[t] = recv[t] \/ (recv'[t] = Append(recv[t], Head(up)) /\ Len(recv[t]) < OutCap)
    BY <1>2, Delivered
  <2>4. sess[t] # "open" => recv'[t] = recv[t]
    BY <1>2, Delivered
  <2> DEFINE x == Head(up)
             q == Append(recv[t], x)
  <2> HIDE DEF x
  <2>5. q \in Seq(Item) /\ Len(q) = Len(recv[t]) + 1 /\ q[Len(q)] = x
        /\ \A i \in 1 .. Len(recv[t]) : q[i] = recv[t][i]
    BY <2>1, <2>2 DEF x
  <2>6. (\E i \in 1 .. Len(q) : q[i] = EndMark) => Ended(t)
    <3> HIDE DEF q
    <3>1. x # EndMark
      BY <2>2 DEF x
    <3>2. Len(recv[t]) \in Nat
      BY <2>1
    <3> QED
      BY <2>5, <3>1, <3>2 DEF Ended
  <2>7. CASE recv'[t] = recv[t]
    BY <2>1, <2>4, <2>7 DEF Ended
  <2>8. CASE recv'[t] = q /\ Len(recv[t]) < OutCap
    <3> HIDE DEF q
    <3> QED
      BY <2>1, <2>4, <2>5, <2>6, <2>8 DEF Ended
  <2> HIDE DEF q
  <2>9. recv'[t] = recv[t] \/ (recv'[t] = q /\ Len(recv[t]) < OutCap)
    BY <2>3 DEF q, x
  <2> QED
    BY <2>7, <2>8, <2>9
<1>6. BridgeTyped'
  <2>1. recv' \in [Term -> Seq(Item)]
    <3>1. recv' = [t \in Term |-> recv'[t]]
      BY DEF Deliver
    <3> QED
      BY <1>5, <3>1
  <2> QED
    BY <1>1, <1>2, <1>5, <2>1 DEF BridgeTyped
<1>7. Numbered'
  <2>1. PICK n \in 0 .. MaxTerm : NumberedTo(n)
    BY DEF BridgeInv, Numbered
  <2>2. NumberedTo(n)'
    BY <1>1, <1>5, <2>1 DEF NumberedTo
  <2> QED
    BY <2>2 DEF Numbered
<1>8. ASSUME NEW t \in Term PROVE Bridged0(t)'
  <2>1. Bridged0(t)
    BY DEF BridgeInv
  <2> QED
    BY <1>1, <1>5, <2>1 DEF Bridged0, Opened, Pumped, Wakes, IsChunk
<1> QED
  BY <1>3, <1>4, <1>6, <1>7, <1>8 DEF BridgeInv, Typed

\* What one run of the pump does to its bridge.
LEMMA Pumping ==
    ASSUME BridgeInv, NEW t \in Term, Pump(t)
    PROVE  /\ UNCHANGED <<made, cur, greeting, wireVars, shellVars, sconn, browserVars,
                          unsent, lossy>>
           /\ t \in pump
           /\ recv' = [recv EXCEPT ![t] = << >>]
           /\ last' = [last EXCEPT ![t] = LastOf(t, Taken(t))]
           /\ \A u \in Term \ {t} : replay'[u] = replay[u] /\ sess'[u] = sess[u]
           /\ replay'[t] = << >> \/ replay'[t] = Newest(replay[t] \o Taken(t))
           /\ sess'[t] \in {sess[t], "closed"}
           /\ sess'[t] # "closed" =>
                 /\ replay'[t] = Newest(replay[t] \o Taken(t))
                 /\ host' = host
                 /\ Marks(t) # {} => pump' = pump \ {t} /\ Ended(t)
                 /\ Marks(t) = {} => pump' = pump
           /\ sess'[t] = "closed" => pump' = pump \ {t} \/ (Marks(t) = {} /\ pump' = pump)
           /\ pump' \subseteq pump
           /\ host' = host \/ (host' = 0 /\ host = t)
<1> DEFINE chunks == Taken(t)
           marked == Marks(t) # {}
           exits == marked /\ recv[t][Len(chunks) + 1] = ExitMark
           closed == sess[t] = "closed" \/ exits
<1>1. /\ UNCHANGED <<made, cur, greeting, wireVars, shellVars, sconn, browserVars, unsent, lossy>>
      /\ t \in pump
      /\ recv' = [recv EXCEPT ![t] = << >>]
      /\ last' = [last EXCEPT ![t] = LastOf(t, chunks)]
      /\ replay' = [replay EXCEPT ![t] = IF marked /\ closed THEN << >> ELSE Newest(@ \o chunks)]
      /\ sess' = [sess EXCEPT ![t] = IF exits THEN "closed" ELSE @]
      /\ pump' = IF marked THEN pump \ {t} ELSE pump
      /\ host' = IF marked /\ closed THEN (IF host = t THEN 0 ELSE host) ELSE host
  BY DEF Pump, RemoveFinished
<1>2. marked /\ ~exits => Ended(t)
  <2>1. recv[t] \in Seq(Item)
    BY DEF BridgeInv, Typed, BridgeTyped
  <2>2. marked => /\ Len(chunks) + 1 \in 1 .. Len(recv[t])
                  /\ ~IsChunk(recv[t][Len(chunks) + 1])
    BY TakenChunks DEF BridgeInv
  <2>3. \A x \in Item : ~IsChunk(x) => x \in {EndMark, ExitMark}
    BY DEF Item, IsChunk, Chunks
  <2> HIDE DEF chunks
  <2> QED
    BY <2>1, <2>2, <2>3 DEF Ended
<1>3. /\ sess \in [Term -> {"none", "open", "closed"}] /\ DOMAIN replay = Term
  BY DEF BridgeInv, Typed, BridgeTyped
<1> HIDE DEF chunks, exits
<1>4. sess'[t] = IF exits THEN "closed" ELSE sess[t]
  BY <1>1, <1>3
<1>5. \A u \in Term \ {t} : replay'[u] = replay[u] /\ sess'[u] = sess[u]
  BY <1>1, <1>3
<1>6. replay'[t] = IF marked /\ closed THEN << >> ELSE Newest(replay[t] \o chunks)
  BY <1>1, <1>3
<1>7. sess'[t] # "closed" => ~closed /\ ~exits
  BY <1>3, <1>4
<1>8. sess'[t] # "closed" =>
         /\ replay'[t] = Newest(replay[t] \o chunks)
         /\ host' = host
         /\ Marks(t) # {} => pump' = pump \ {t} /\ Ended(t)
         /\ Marks(t) = {} => pump' = pump
  <2> SUFFICES ASSUME ~closed, ~exits
               PROVE  /\ replay'[t] = Newest(replay[t] \o chunks)
                      /\ host' = host
                      /\ Marks(t) # {} => pump' = pump \ {t} /\ Ended(t)
                      /\ Marks(t) = {} => pump' = pump
    BY <1>7
  <2>1. marked => Ended(t)
    BY <1>2
  <2>2. replay'[t] = Newest(replay[t] \o chunks) /\ host' = host
    BY <1>1, <1>6
  <2> QED
    BY <1>1, <2>1, <2>2
<1> HIDE DEF closed
<1>9. /\ sess'[t] \in {sess[t], "closed"}
      /\ replay'[t] = << >> \/ replay'[t] = Newest(replay[t] \o chunks)
      /\ host' = host \/ (host' = 0 /\ host = t)
      /\ pump' = pump \ {t} \/ (Marks(t) = {} /\ pump' = pump)
  BY <1>1, <1>4, <1>6
<1> QED
  BY <1>1, <1>5, <1>8, <1>9 DEF chunks

LEMMA PumpBridges == ASSUME BridgeInv, NEW t \in Term, Pump(t) PROVE BridgeInv'
<1>1. /\ NetTyped /\ WireTyped /\ ShellTyped /\ BridgeTyped /\ BrowserTyped /\ Watched /\ Typed
  BY DEF BridgeInv, Typed
<1>2. /\ UNCHANGED <<made, cur, greeting, wireVars, shellVars, sconn, browserVars, unsent, lossy>>
      /\ t \in pump
      /\ recv' = [recv EXCEPT ![t] = << >>]
      /\ last' = [last EXCEPT ![t] = LastOf(t, Taken(t))]
      /\ \A u \in Term \ {t} : replay'[u] = replay[u] /\ sess'[u] = sess[u]
      /\ replay'[t] = << >> \/ replay'[t] = Newest(replay[t] \o Taken(t))
      /\ sess'[t] \in {sess[t], "closed"}
      /\ pump' \subseteq pump
      /\ host' = host \/ (host' = 0 /\ host = t)
  BY Pumping
<1>3. /\ sess'[t] # "closed" /\ Marks(t) # {} => pump' = pump \ {t} /\ Ended(t)
      /\ sess'[t] # "closed" => host' = host
      /\ sess'[t] # "closed" /\ Marks(t) = {} => pump' = pump
      /\ sess'[t] = "closed" => pump' = pump \ {t} \/ (Marks(t) = {} /\ pump' = pump)
  BY Pumping
<1>4. NetTyped' /\ WireTyped' /\ ShellTyped'
  BY <1>1, <1>2 DEF NetTyped, WireTyped, ShellTyped, Relays, wireVars, shellVars
<1>5. /\ DOMAIN replay' = Term /\ DOMAIN sess' = Term /\ DOMAIN pump' = DOMAIN pump'
      /\ sess' = [sess EXCEPT ![t] = sess'[t]] /\ replay' = [replay EXCEPT ![t] = replay'[t]]
  BY <1>1 DEF Pump, BridgeTyped
<1>6. Taken(t) \in Seq(Chunks)
  BY <1>1, TakenChunks
<1>7. replay'[t] \in Seq(Chunks) /\ Len(replay'[t]) <= ReplayCap
  <2>1. ReplayCap \in Nat /\ replay[t] \o Taken(t) \in Seq(Chunks)
    BY <1>1, <1>6, HostTerminalsAssumption DEF BridgeTyped
  <2>2. /\ Newest(replay[t] \o Taken(t)) \in Seq(Chunks)
        /\ Len(Newest(replay[t] \o Taken(t))) <= ReplayCap
    BY <2>1, NewestChunks
  <2>3. << >> \in Seq(Chunks) /\ Len(<< >>) <= ReplayCap
    BY <2>1
  <2> QED
    BY <1>2, <2>2, <2>3
<1>8. LastOf(t, Taken(t)) \in 0 .. MaxOut
  <2> DEFINE q == Taken(t)
  <2> SUFFICES LastOf(t, q) \in 0 .. MaxOut
    OBVIOUS
  <2> HIDE DEF q
  <2>1. CASE q = << >>
    BY <1>1, <2>1 DEF LastOf, BridgeTyped
  <2>2. CASE q # << >>
    <3>1. q \in Seq(Chunks)
      BY <1>6 DEF q
    <3>2. q[Len(q)] \in Chunks
      BY <2>2, <3>1
    <3>3. q[Len(q)][2] \in 1 .. MaxOut /\ MaxOut \in Nat
      BY <3>2, HostTerminalsAssumption DEF Chunks
    <3> QED
      BY <2>2, <3>3 DEF LastOf
  <2> QED
    BY <2>1, <2>2
<1>9. BridgeTyped'
  <2>1. sess' \in [Term -> {"none", "open", "closed"}]
    <3>1. sess'[t] \in {"none", "open", "closed"}
      BY <1>1, <1>2 DEF BridgeTyped
    <3> QED
      BY <1>1, <1>5, <3>1 DEF BridgeTyped
  <2>2. replay' \in [Term -> Seq(Chunks)] /\ \A u \in Term : Len(replay'[u]) <= ReplayCap
    BY <1>1, <1>2, <1>5, <1>7 DEF BridgeTyped
  <2>3. recv' \in [Term -> Seq(Item)] /\ \A u \in Term : Len(recv'[u]) <= OutCap
    <3>1. << >> \in Seq(Item) /\ Len(<< >>) = 0 /\ OutCap \in Nat
      BY HostTerminalsAssumption
    <3> QED
      BY <1>1, <1>2, <3>1 DEF BridgeTyped
  <2>4. last' \in [Term -> 0 .. MaxOut]
    BY <1>1, <1>2, <1>8 DEF BridgeTyped
  <2> QED
    BY <1>1, <1>2, <2>1, <2>2, <2>3, <2>4 DEF BridgeTyped
<1>10. BrowserTyped' /\ Watched'
  <2>1. sub' \in [Term -> Browser \cup {None}]
    <3>1. \E b \in {sub[t], None} : sub' = [sub EXCEPT ![t] = b]
      BY DEF Pump
    <3> QED
      BY <1>1, <3>1 DEF BrowserTyped
  <2>2. \A u \in Term : sess[u] # "none" => sess'[u] # "none"
    BY <1>2
  <2> QED
    BY <1>1, <1>2, <2>1, <2>2 DEF BrowserTyped, Watched, browserVars
<1>11. Numbered'
  <2>1. PICK n \in 0 .. MaxTerm : NumberedTo(n)
    BY DEF BridgeInv, Numbered
  <2>2. sess[t] # "none" /\ sess'[t] # "none" /\ (host # 0 => host \in Term)
    BY <1>1, <1>2, <2>1 DEF NumberedTo, BridgeTyped
  <2>3. \A u \in Term : sess'[u] = "none" <=> sess[u] = "none"
    BY <1>2, <2>2
  <2>4. \A u \in Term \ {t} : recv'[u] = recv[u]
    BY <1>1, <1>2 DEF BridgeTyped
  <2>5. \A u \in Term : sess'[u] = "none" <=> u > n
    BY <2>1, <2>3 DEF NumberedTo
  <2>6. \A u \in Term : sess'[u] = "none" => recv'[u] = << >> /\ replay'[u] = << >> /\ u \notin pump'
    BY <1>2, <2>1, <2>2, <2>3, <2>4 DEF NumberedTo
  <2>7. host' # 0 => sess'[host'] # "none"
    BY <1>2, <2>1, <2>2, <2>3 DEF NumberedTo
  <2> QED
    BY <2>5, <2>6, <2>7 DEF Numbered, NumberedTo
<1>12. ASSUME NEW u \in Term PROVE Bridged0(u)'
  <2>1. Bridged0(u) /\ Bridged0(t)
    BY DEF BridgeInv
  <2>2. CASE u = t
    <3>1. recv'[t] = << >>
      BY <1>1, <1>2 DEF BridgeTyped
    <3>2. Opened(t)'
      BY <1>2, <1>3, <2>1, <3>1 DEF Bridged0, Opened, Ended
    <3>3. Pumped(t)'
      <4> SUFFICES ASSUME cur # 0, cur \notin greeting, t \notin unsent, sess'[t] = "open"
                   PROVE  t \in pump' /\ ~Ended(t)'
        BY <1>2 DEF Pumped
      <4>1. ~Ended(t)' /\ sess[t] = "open"
        BY <1>2, <3>1 DEF Ended
      <4>2. ~Ended(t)
        BY <2>1, <4>1 DEF Bridged0, Opened, Pumped
      <4> QED
        BY <1>2, <1>3, <4>1, <4>2
    <3>4. Wakes(t)'
      <4>1. ASSUME t \in pump', sess'[t] = "closed" PROVE FALSE
        <5>1. Marks(t) = {}
          BY <1>3, <4>1
        <5>2. sess[t] = "closed"
          <6>1. sess'[t] = sess[t] \/ Marks(t) # {}
            BY <1>1 DEF Pump, BridgeTyped
          <6> QED
            BY <4>1, <5>1, <6>1
        <5>3. recv[t] \in Seq(Item) /\ Marks(t) = {i \in 1 .. Len(recv[t]) : ~IsChunk(recv[t][i])}
          BY <1>1 DEF BridgeTyped, Marks
        <5> QED
          BY <1>2, <2>1, <5>1, <5>2, <5>3 DEF Bridged0, Wakes
      <4> QED
        BY <4>1 DEF Wakes
    <3> QED
      BY <2>2, <3>2, <3>3, <3>4 DEF Bridged0
  <2>3. CASE u # t
    <3>1. recv'[u] = recv[u] /\ sess'[u] = sess[u] /\ (u \in pump' <=> u \in pump)
      BY <1>1, <1>2, <1>3, <2>3 DEF BridgeTyped
    <3>2. sess[u] = "open" => host = u /\ host' = host
      BY <1>2, <2>1, <2>3 DEF Bridged0, Opened
    <3> QED
      BY <1>2, <2>1, <3>1, <3>2 DEF Bridged0, Opened, Pumped, Wakes, Ended, IsChunk
  <2> QED
    BY <2>2, <2>3
<1> QED
  BY <1>4, <1>9, <1>10, <1>11, <1>12 DEF BridgeInv, Typed

----------------------------------------------------------------------------
LEMMA NextBridges == ASSUME BridgeInv, [Next]_vars PROVE BridgeInv'
<1>1. ASSUME NEW b \in Browser, BrowserStep(b) PROVE BridgeInv'
  BY <1>1, BrowserBridges, OpenBridges, CloseFrameBridges DEF BrowserStep
<1>2. ASSUME NEW t \in Term, Pump(t) PROVE BridgeInv'
  BY <1>2, PumpBridges
<1>3. ASSUME Connect \/ Disconnect PROVE BridgeInv'
  BY <1>3, ConnectionBridges
<1>4. ASSUME Deliver PROVE BridgeInv'
  BY <1>4, DeliverBridges
<1>5. ASSUME NEW c \in Conn, Rebind(c) PROVE BridgeInv'
  BY <1>5, RebindBridges
<1>6. ASSUME Delete \/ Reap PROVE BridgeInv'
  BY <1>6, RemovalBridges
<1>7. ASSUME CloseUnbridged PROVE BridgeInv'
  BY <1>7, UnbridgedBridges
<1>8. ASSUME Node PROVE BridgeInv'
  BY <1>8, NodeBridges
<1>9. ASSUME UNCHANGED vars PROVE BridgeInv'
  BY <1>9, StutterBridges
<1> QED
  BY <1>1, <1>2, <1>3, <1>4, <1>5, <1>6, <1>7, <1>8, <1>9 DEF Next

LEMMA AlwaysBridges == Spec => []BridgeInv
<1>1. Init => BridgeInv
  BY InitBridges
<1>2. BridgeInv /\ [Next]_vars => BridgeInv'
  BY NextBridges
<1> QED
  BY <1>1, <1>2, PTL DEF Spec

\* A bridge whose shell may still run is the registry's, whatever the order in
\* which its predecessors finish and the node's connections come and go: the
\* theorem for LiveIsRegistered.
THEOREM OneLiveBridge == Spec => []LiveIsRegistered
<1>1. BridgeInv => LiveIsRegistered
  BY DEF BridgeInv, Bridged0, Opened, LiveIsRegistered
<1> QED
  BY <1>1, AlwaysBridges, PTL

\* rebind_all reattaches every open bridge, for any number of reconnects, except
\* those that ReattachFindsAll names.
THEOREM EveryBridgeReattached == Spec => []ReattachFindsAll
<1>1. ASSUME BridgeInv PROVE ReattachFindsAll
  <2> SUFFICES ASSUME cur # 0, cur \notin greeting, NEW t \in Term \ unsent, sess[t] = "open"
               PROVE  t \in pump /\ (sconn[t] = cur \/ EndMark \notin {recv[t][i] : i \in DOMAIN recv[t]})
    BY DEF ReattachFindsAll
  <2>1. t \in pump /\ (sconn[t] = cur \/ ~Ended(t)) /\ recv[t] \in Seq(Item)
    BY <1>1 DEF BridgeInv, Bridged0, Pumped, Typed, BridgeTyped
  <2>2. DOMAIN recv[t] = 1 .. Len(recv[t])
    BY <2>1
  <2> QED
    BY <2>1, <2>2 DEF Ended
<1> QED
  BY <1>1, AlwaysBridges, PTL

\* The pump of a closed bridge has a mark to end by, however full its queue was.
THEOREM ClosedPumpsEnd == Spec => []ClosedPumpWakes
<1>1. ASSUME BridgeInv PROVE ClosedPumpWakes
  <2> SUFFICES ASSUME NEW t \in pump, sess[t] = "closed" PROVE Marks(t) # {}
    BY DEF ClosedPumpWakes
  <2>1. t \in Term /\ recv[t] \in Seq(Item) /\ Wakes(t)
    BY <1>1 DEF BridgeInv, Bridged0, Typed, BridgeTyped
  <2>2. DOMAIN recv[t] = 1 .. Len(recv[t])
    BY <2>1
  <2> QED
    BY <2>1, <2>2 DEF Wakes, Marks
<1> QED
  BY <1>1, AlwaysBridges, PTL

----------------------------------------------------------------------------
(***************************************************************************)
(* Sequences of chunks and marks, of which a shell with n chunks is sh.    *)
(***************************************************************************)

\* Chunks of one shell that follow each other have no gap.
Steady(q) ==
    \A i \in 1 .. Len(q) - 1 :
        IsChunk(q[i]) /\ q[i][1] = q[i + 1][1] => q[i + 1][2] = q[i][2] + 1

\* No chunk is of a shell to come, or is yet to be printed.
Known(q, sh, n, op) ==
    \A i \in 1 .. Len(q) : q[i][1] <= op /\ (q[i][1] = sh /\ sh # 0 => q[i][2] <= n)
Fine(q, sh, n, op) == Steady(q) /\ Known(q, sh, n, op)

\* A last chunk of the shell is the last it has printed.
Tip(q, sh, n) == Len(q) > 0 /\ q[Len(q)][1] = sh => q[Len(q)][2] = n

\* A part of a sequence, and its end.
LEMMA WindowFine ==
    ASSUME NEW q \in Seq(Item), NEW p \in Seq(Item), NEW d \in Nat, Len(p) + d <= Len(q),
           \A i \in 1 .. Len(p) : p[i] = q[i + d],
           NEW sh, NEW n, NEW op
    PROVE  /\ Fine(q, sh, n, op) => Fine(p, sh, n, op)
           /\ Len(p) + d = Len(q) /\ Tip(q, sh, n) => Tip(p, sh, n)
<1>1. Len(p) \in Nat /\ Len(q) \in Nat
  OBVIOUS
<1>2. \A i \in 1 .. Len(p) : i + d \in 1 .. Len(q)
  BY <1>1
<1>3. \A i \in 1 .. Len(p) - 1 :
          i + d \in 1 .. Len(q) - 1 /\ p[i] = q[i + d] /\ p[i + 1] = q[i + d + 1]
  <2> SUFFICES ASSUME NEW i \in 1 .. Len(p) - 1
               PROVE  i + d \in 1 .. Len(q) - 1 /\ p[i] = q[i + d] /\ p[i + 1] = q[i + d + 1]
    OBVIOUS
  <2>1. i \in 1 .. Len(p) /\ i + 1 \in 1 .. Len(p) /\ i + 1 + d = i + d + 1
    BY <1>1
  <2>2. i + d \in 1 .. Len(q) - 1
    BY <1>1
  <2> QED
    BY <2>1, <2>2
<1>4. Steady(q) => Steady(p)
  BY <1>3 DEF Steady
<1>5. Known(q, sh, n, op) => Known(p, sh, n, op)
  BY <1>2 DEF Known
<1>6. Len(p) + d = Len(q) /\ Tip(q, sh, n) => Tip(p, sh, n)
  <2> SUFFICES ASSUME Len(p) + d = Len(q), Tip(q, sh, n), Len(p) > 0, p[Len(p)][1] = sh
               PROVE  p[Len(p)][2] = n
    BY DEF Tip
  <2>1. Len(p) \in 1 .. Len(p) /\ Len(q) > 0
    BY <1>1
  <2>2. p[Len(p)] = q[Len(q)]
    BY <2>1
  <2> QED
    BY <2>1, <2>2 DEF Tip
<1> QED
  BY <1>4, <1>5, <1>6 DEF Fine

\* A sequence with one more item.
LEMMA AppendFine ==
    ASSUME NEW q \in Seq(Item), NEW x \in Item, NEW sh, NEW n, NEW op,
           Fine(q, sh, n, op),
           x[1] <= op, x[1] = sh /\ sh # 0 => x[2] <= n,
           Len(q) > 0 /\ IsChunk(q[Len(q)]) /\ q[Len(q)][1] = x[1] => x[2] = q[Len(q)][2] + 1
    PROVE  Fine(Append(q, x), sh, n, op)
<1> DEFINE p == Append(q, x)
<1>1. /\ Len(q) \in Nat /\ Len(p) = Len(q) + 1 /\ p[Len(q) + 1] = x
      /\ \A i \in 1 .. Len(q) : p[i] = q[i]
  OBVIOUS
<1> HIDE DEF p
<1>2. Steady(p)
  <2> SUFFICES ASSUME NEW i \in 1 .. Len(p) - 1, IsChunk(p[i]), p[i][1] = p[i + 1][1]
               PROVE  p[i + 1][2] = p[i][2] + 1
    BY DEF Steady
  <2>1. CASE i = Len(q)
    <3>1. Len(q) > 0 /\ p[i] = q[Len(q)] /\ p[i + 1] = x
      BY <1>1, <2>1
    <3> QED
      BY <3>1
  <2>2. CASE i # Len(q)
    <3>1. i \in 1 .. Len(q) - 1 /\ p[i] = q[i] /\ p[i + 1] = q[i + 1]
      BY <1>1, <2>2
    <3> QED
      BY <3>1 DEF Fine, Steady
  <2> QED
    BY <2>1, <2>2
<1>3. Known(p, sh, n, op)
  <2> SUFFICES ASSUME NEW i \in 1 .. Len(p)
               PROVE  p[i][1] <= op /\ (p[i][1] = sh /\ sh # 0 => p[i][2] <= n)
    BY DEF Known
  <2>1. CASE i = Len(q) + 1
    BY <1>1, <2>1
  <2>2. CASE i # Len(q) + 1
    <3>1. i \in 1 .. Len(q) /\ p[i] = q[i]
      BY <1>1, <2>2
    <3> QED
      BY <3>1 DEF Fine, Known
  <2> QED
    BY <2>1, <2>2
<1> QED
  BY <1>2, <1>3 DEF Fine, p

\* A mark is of no shell.
LEMMA MarkFine ==
    ASSUME NEW q \in Seq(Item), NEW x \in {EndMark, ExitMark},
           NEW sh, NEW n \in Nat, NEW op \in Nat, Fine(q, sh, n, op)
    PROVE  Fine(Append(q, x), sh, n, op) /\ (sh # 0 => Tip(Append(q, x), sh, n))
<1>1. x \in Item /\ x[1] = 0
  BY DEF Item, EndMark, ExitMark
<1>2. Len(q) > 0 /\ IsChunk(q[Len(q)]) => q[Len(q)][1] # x[1]
  BY <1>1 DEF IsChunk
<1>3. Fine(Append(q, x), sh, n, op)
  BY <1>1, <1>2, AppendFine
<1>4. Len(Append(q, x)) = Len(q) + 1 /\ Append(q, x)[Len(q) + 1] = x
  BY <1>1
<1>5. sh # 0 => Tip(Append(q, x), sh, n)
  BY <1>1, <1>4 DEF Tip
<1> QED
  BY <1>3, <1>5

\* The shell prints one more chunk, in sequence q or elsewhere.
LEMMA PrintFine ==
    ASSUME NEW q \in Seq(Item), NEW sh \in Nat, NEW n \in Nat, NEW op \in Nat,
           sh # 0, sh <= op, n < MaxOut, Fine(q, sh, n, op)
    PROVE  /\ Fine(q, sh, n + 1, op)
           /\ Tip(q, sh, n) => /\ Fine(Append(q, <<sh, n + 1>>), sh, n + 1, op)
                               /\ Tip(Append(q, <<sh, n + 1>>), sh, n + 1)
<1> DEFINE x == <<sh, n + 1>>
<1>1. x \in Item /\ x[1] = sh /\ x[2] = n + 1
  BY HostTerminalsAssumption DEF Item, Chunks
<1>2. \A i \in 1 .. Len(q) : q[i] \in Nat \X Nat
  <2>1. \A y \in Item : y \in Nat \X Nat
    BY HostTerminalsAssumption DEF Item, Chunks, EndMark, ExitMark
  <2> QED
    BY <2>1
<1>3. \A i \in 1 .. Len(q) : q[i][2] <= n => q[i][2] <= n + 1
  BY <1>2
<1>4. Fine(q, sh, n + 1, op)
  BY <1>3 DEF Fine, Known
<1> HIDE DEF x
<1>5. ASSUME Tip(q, sh, n) PROVE Fine(Append(q, x), sh, n + 1, op)
  <2>1. Len(q) > 0 /\ q[Len(q)][1] = x[1] => x[2] = q[Len(q)][2] + 1
    BY <1>1, <1>5 DEF Tip
  <2> QED
    BY <1>1, <1>4, <2>1, AppendFine
<1>6. Len(Append(q, x)) = Len(q) + 1 /\ Append(q, x)[Len(q) + 1] = x
  BY <1>1
<1>7. Tip(Append(q, x), sh, n + 1)
  BY <1>1, <1>6 DEF Tip
<1> QED
  BY <1>4, <1>5, <1>7 DEF x

\* The shell is replaced by a new one, or gone.
LEMMA ShellFine ==
    ASSUME NEW q \in Seq(Item), NEW sh, NEW n, NEW op \in Nat, Fine(q, sh, n, op)
    PROVE  /\ Fine(q, op + 1, 0, op + 1) /\ Tip(q, op + 1, 0)
           /\ \A k : Fine(q, 0, k, op)
<1>1. \A i \in 1 .. Len(q) : q[i][1] \in Nat /\ q[i][1] <= op
  <2>1. \A y \in Item : y[1] \in Nat
    BY HostTerminalsAssumption DEF Item, Chunks, EndMark, ExitMark
  <2> QED
    BY <2>1 DEF Fine, Known
<1>2. \A i \in 1 .. Len(q) : q[i][1] <= op + 1 /\ q[i][1] # op + 1
  BY <1>1
<1>3. Len(q) \in Nat
  OBVIOUS
<1> QED
  BY <1>1, <1>2, <1>3 DEF Fine, Known, Tip

\* The chunks that shell sh has printed after chunk k.
Behind(sh, n, k) == [i \in 1 .. (n - k) |-> <<sh, k + i>>]

LEMMA BehindChunks ==
    ASSUME NEW sh \in Nat, sh # 0, NEW n \in 0 .. MaxOut, NEW k \in 0 .. MaxOut
    PROVE  /\ Behind(sh, n, k) \in Seq(Chunks)
           /\ Len(Behind(sh, n, k)) = IF n >= k THEN n - k ELSE 0
           /\ \A i \in 1 .. Len(Behind(sh, n, k)) : Behind(sh, n, k)[i] = <<sh, k + i>>
<1> DEFINE m == IF n >= k THEN n - k ELSE 0
<1>1. m \in Nat /\ 1 .. (n - k) = 1 .. m /\ MaxOut \in Nat
  BY HostTerminalsAssumption
<1>2. \A i \in 1 .. m : <<sh, k + i>> \in Chunks
  BY <1>1 DEF Chunks
<1> HIDE DEF m
<1>3. Behind(sh, n, k) = [i \in 1 .. m |-> <<sh, k + i>>]
  BY <1>1 DEF Behind
<1>4. Behind(sh, n, k) \in [1 .. m -> Chunks]
  BY <1>2, <1>3
<1>5. Behind(sh, n, k) \in Seq(Chunks)
  BY <1>1, <1>4, SeqDef
<1>6. Len(Behind(sh, n, k)) = m
  BY <1>1, <1>3, <1>5
<1> QED
  BY <1>3, <1>5, <1>6 DEF m

LEMMA Joined ==
    ASSUME NEW S, NEW q \in Seq(S), NEW b \in Seq(S)
    PROVE  /\ q \o b \in Seq(S) /\ Len(q \o b) = Len(q) + Len(b)
           /\ Len(q) \in Nat /\ Len(b) \in Nat
           /\ \A i \in 1 .. Len(q) : (q \o b)[i] = q[i]
           /\ \A i \in 1 .. Len(b) : (q \o b)[Len(q) + i] = b[i]
OBVIOUS

\* A bridge that has chunks up to k is sent those behind.
LEMMA BehindFine ==
    ASSUME NEW q \in Seq(Chunks), NEW sh \in Nat, NEW op \in Nat, sh # 0, sh <= op,
           NEW n \in 0 .. MaxOut, NEW k \in 0 .. MaxOut, Fine(q, sh, n, op),
           Len(q) > 0 => q[Len(q)][2] = k
    PROVE  /\ Fine(q \o Behind(sh, n, k), sh, n, op)
           /\ Tip(q \o Behind(sh, n, k), sh, n)
<1> DEFINE b == Behind(sh, n, k)
           p == q \o b
<1>1. /\ b \in Seq(Chunks) /\ Len(b) = IF n >= k THEN n - k ELSE 0
      /\ \A i \in 1 .. Len(b) : b[i] = <<sh, k + i>>
  BY BehindChunks
<1> HIDE DEF b
<1>2. /\ p \in Seq(Chunks) /\ Len(p) = Len(q) + Len(b) /\ Len(q) \in Nat /\ Len(b) \in Nat
      /\ \A i \in 1 .. Len(q) : p[i] = q[i]
      /\ \A i \in 1 .. Len(b) : p[Len(q) + i] = b[i]
  <2>1. b \in Seq(Chunks)
    BY <1>1
  <2> QED
    BY <2>1, Joined
<1> HIDE DEF p
<1>3. \A i \in 1 .. Len(p) : i \in 1 .. Len(q) \/ (i - Len(q) \in 1 .. Len(b) /\ p[i] = <<sh, k + (i - Len(q))>>)
  <2> SUFFICES ASSUME NEW i \in 1 .. Len(p), i \notin 1 .. Len(q)
               PROVE  i - Len(q) \in 1 .. Len(b) /\ p[i] = <<sh, k + (i - Len(q))>>
    OBVIOUS
  <2> DEFINE j == i - Len(q)
  <2>1. j \in 1 .. Len(b) /\ Len(q) + j = i
    BY <1>2
  <2> HIDE DEF j
  <2>2. p[i] = b[j]
    BY <1>2, <2>1
  <2>3. b[j] = <<sh, k + j>>
    BY <1>1, <2>1
  <2> QED
    BY <2>1, <2>2, <2>3 DEF j
<1>4. Steady(p)
  <2> SUFFICES ASSUME NEW i \in 1 .. Len(p) - 1, p[i][1] = p[i + 1][1]
               PROVE  p[i + 1][2] = p[i][2] + 1 \/ ~IsChunk(p[i])
    BY DEF Steady
  <2>1. CASE i < Len(q)
    <3>1. i \in 1 .. Len(q) - 1 /\ i \in 1 .. Len(q) /\ i + 1 \in 1 .. Len(q)
      <4>1. Len(q) \in Nat /\ i \in Nat \ {0}
        BY <1>2
      <4> QED
        BY <2>1, <4>1
    <3>2. p[i] = q[i] /\ p[i + 1] = q[i + 1]
      BY <1>2, <3>1
    <3> QED
      BY <3>1, <3>2 DEF Fine, Steady
  <2>2. CASE i = Len(q)
    <3>1. p[i] = q[Len(q)] /\ Len(q) > 0 /\ i + 1 \in 1 .. Len(p) /\ i + 1 \notin 1 .. Len(q)
      BY <1>2, <2>2
    <3>2. p[i + 1] = <<sh, k + (i + 1) - Len(q)>> /\ k + (i + 1) - Len(q) = k + 1
      BY <1>2, <1>3, <2>2, <3>1
    <3> QED
      BY <3>1, <3>2
  <2>3. CASE i > Len(q)
    <3>1. /\ i \in 1 .. Len(p) /\ i \notin 1 .. Len(q)
          /\ i + 1 \in 1 .. Len(p) /\ i + 1 \notin 1 .. Len(q)
      BY <1>2, <2>3
    <3>2. p[i] = <<sh, k + (i - Len(q))>> /\ p[i + 1] = <<sh, k + (i + 1) - Len(q)>>
      BY <1>3, <3>1
    <3>3. k + (i + 1) - Len(q) = k + i - Len(q) + 1
      BY <1>2
    <3> QED
      BY <3>2, <3>3
  <2> QED
    BY <1>2, <2>1, <2>2, <2>3
<1>5. Known(p, sh, n, op)
  <2> SUFFICES ASSUME NEW i \in 1 .. Len(p)
               PROVE  p[i][1] <= op /\ (p[i][1] = sh /\ sh # 0 => p[i][2] <= n)
    BY DEF Known
  <2>1. CASE i \in 1 .. Len(q)
    <3>1. p[i] = q[i]
      BY <1>2, <2>1
    <3> QED
      BY <2>1, <3>1 DEF Fine, Known
  <2>2. CASE i \notin 1 .. Len(q)
    <3>1. i - Len(q) \in 1 .. Len(b) /\ p[i] = <<sh, k + (i - Len(q))>>
      BY <1>3, <2>2
    <3>2. k + i - Len(q) <= n
      BY <1>1, <1>2, <3>1
    <3> QED
      BY <3>1, <3>2
  <2> QED
    BY <2>1, <2>2
<1>6. Tip(p, sh, n)
  <2> SUFFICES ASSUME Len(p) > 0, p[Len(p)][1] = sh PROVE p[Len(p)][2] = n
    BY DEF Tip
  <2>1. CASE Len(b) = 0
    <3>1. Len(p) = Len(q) /\ p[Len(p)] = q[Len(q)] /\ Len(q) \in 1 .. Len(q)
      BY <1>2, <2>1
    <3>2. q[Len(q)][2] = k /\ q[Len(q)][2] <= n /\ n <= k
      BY <1>1, <2>1, <3>1 DEF Fine, Known
    <3> QED
      BY <3>1, <3>2
  <2>2. CASE Len(b) # 0
    <3>1. Len(p) \in 1 .. Len(p) /\ Len(p) \notin 1 .. Len(q)
      BY <1>2, <2>2
    <3>2. p[Len(p)] = <<sh, k + Len(p) - Len(q)>>
      BY <1>3, <3>1
    <3>3. k + Len(p) - Len(q) = n
      BY <1>1, <1>2, <2>2
    <3> QED
      BY <3>2, <3>3
  <2> QED
    BY <2>1, <2>2
<1> QED
  BY <1>4, <1>5, <1>6 DEF Fine, p, b

\* The beginning of a sequence.
LEMMA PrefixFine ==
    ASSUME NEW q \in Seq(Item), NEW r \in Seq(Item), NEW sh, NEW n, NEW op,
           Fine(q \o r, sh, n, op)
    PROVE  Fine(q, sh, n, op)
<1> DEFINE p == q \o r
<1>1. /\ p \in Seq(Item) /\ Len(q) + 0 <= Len(p)
      /\ \A i \in 1 .. Len(q) : q[i] = p[i + 0]
  BY Joined
<1>2. Fine(p, sh, n, op)
  OBVIOUS
<1> HIDE DEF p
<1> QED
  BY <1>1, <1>2, WindowFine

\* A replay buffer that is cut to its newest part, before what follows it.
LEMMA NewestFine ==
    ASSUME NEW q \in Seq(Chunks), NEW r \in Seq(Item), NEW sh, NEW n, NEW op
    PROVE  /\ Fine(q \o r, sh, n, op) => Fine(Newest(q) \o r, sh, n, op)
           /\ Tip(q \o r, sh, n) => Tip(Newest(q) \o r, sh, n)
<1> DEFINE m == Newest(q)
           p == q \o r
           w == m \o r
           d == Len(q) - Len(m)
<1>1. /\ m \in Seq(Chunks) /\ Len(m) <= Len(q)
      /\ \A i \in 1 .. Len(m) : m[i] = q[d + i]
  BY NewestChunks
<1> HIDE DEF m
<1>2. q \in Seq(Item) /\ m \in Seq(Item)
  <2>1. Chunks \subseteq Item
    BY DEF Item
  <2> QED
    BY <1>1, <2>1
<1>3. /\ p \in Seq(Item) /\ Len(p) = Len(q) + Len(r)
      /\ \A i \in 1 .. Len(q) : p[i] = q[i]
      /\ \A i \in 1 .. Len(r) : p[Len(q) + i] = r[i]
  BY <1>2, Joined
<1>4. /\ w \in Seq(Item) /\ Len(w) = Len(m) + Len(r)
      /\ \A i \in 1 .. Len(m) : w[i] = m[i]
      /\ \A i \in 1 .. Len(r) : w[Len(m) + i] = r[i]
  BY <1>2, Joined
<1>5. Len(m) \in Nat /\ Len(q) \in Nat /\ Len(r) \in Nat
  BY <1>2
<1> HIDE DEF p, w
<1>6. d \in Nat /\ Len(w) + d = Len(p)
  BY <1>1, <1>3, <1>4, <1>5
<1>7. \A i \in 1 .. Len(w) : w[i] = p[i + d]
  <2> SUFFICES ASSUME NEW i \in 1 .. Len(w) PROVE w[i] = p[i + d]
    OBVIOUS
  <2>1. CASE i <= Len(m)
    <3>1. i \in 1 .. Len(m) /\ d + i \in 1 .. Len(q) /\ d + i = i + d
      BY <1>1, <1>5, <2>1
    <3> QED
      BY <1>1, <1>3, <1>4, <3>1
  <2>2. CASE i > Len(m)
    <3>1. i - Len(m) \in 1 .. Len(r)
      BY <1>4, <1>5, <2>2
    <3>2. Len(m) + (i - Len(m)) = i /\ Len(q) + (i - Len(m)) = i + d
      BY <1>5
    <3> QED
      BY <1>3, <1>4, <3>1, <3>2
  <2> QED
    BY <1>5, <2>1, <2>2
<1> HIDE DEF d
<1>8. /\ Fine(p, sh, n, op) => Fine(w, sh, n, op)
      /\ Tip(p, sh, n) => Tip(w, sh, n)
  <2>1. p \in Seq(Item) /\ w \in Seq(Item) /\ Len(w) + d <= Len(p)
    BY <1>3, <1>4, <1>5, <1>6
  <2> QED
    BY <1>6, <1>7, <2>1, WindowFine
<1> QED
  BY <1>8 DEF p, w, m

\* Chunks that are moved from a queue's head to the replay buffer before it.
LEMMA MovedFine ==
    ASSUME NEW q \in Seq(Chunks), NEW r \in Seq(Item), NEW c \in Seq(Chunks), Len(c) <= Len(r),
           \A i \in 1 .. Len(c) : c[i] = r[i], NEW sh, NEW n, NEW op, Fine(q \o r, sh, n, op)
    PROVE  Fine(q \o c, sh, n, op)
<1> DEFINE p == q \o r
           w == q \o c
<1>1. q \in Seq(Item) /\ c \in Seq(Item)
  <2>1. Chunks \subseteq Item
    BY DEF Item
  <2> QED
    BY <2>1
<1>2. /\ p \in Seq(Item) /\ Len(p) = Len(q) + Len(r)
      /\ \A i \in 1 .. Len(q) : p[i] = q[i]
      /\ \A i \in 1 .. Len(r) : p[Len(q) + i] = r[i]
  BY <1>1, Joined
<1>3. /\ w \in Seq(Item) /\ Len(w) = Len(q) + Len(c)
      /\ \A i \in 1 .. Len(q) : w[i] = q[i]
      /\ \A i \in 1 .. Len(c) : w[Len(q) + i] = c[i]
  BY <1>1, Joined
<1>4. Len(q) \in Nat /\ Len(c) \in Nat /\ Len(r) \in Nat /\ Fine(p, sh, n, op)
  OBVIOUS
<1> HIDE DEF p, w
<1>5. \A i \in 1 .. Len(w) : w[i] = p[i + 0]
  <2> SUFFICES ASSUME NEW i \in 1 .. Len(w) PROVE w[i] = p[i]
    OBVIOUS
  <2>1. CASE i <= Len(q)
    <3>1. i \in 1 .. Len(q)
      BY <1>4, <2>1
    <3> QED
      BY <1>2, <1>3, <3>1
  <2>2. CASE i > Len(q)
    <3>1. i - Len(q) \in 1 .. Len(c) /\ i - Len(q) \in 1 .. Len(r) /\ Len(q) + (i - Len(q)) = i
      BY <1>3, <1>4, <2>2
    <3>2. w[i] = c[i - Len(q)]
      BY <1>3, <3>1
    <3>3. p[i] = r[i - Len(q)]
      BY <1>2, <3>1
    <3> QED
      BY <3>1, <3>2, <3>3
  <2> QED
    BY <1>4, <2>1, <2>2
<1>6. Len(w) + 0 <= Len(p)
  BY <1>2, <1>3, <1>4
<1>7. Fine(w, sh, n, op)
  BY <1>2, <1>3, <1>4, <1>5, <1>6, WindowFine
<1> QED
  BY <1>7 DEF w

----------------------------------------------------------------------------
(***************************************************************************)
(* What every bridge has been sent.                                        *)
(***************************************************************************)

\* The bridge the stream's frames go to.
Live(t) == sess[t] = "open" /\ sconn[t] = cur

\* What a bridge keeps, has queued and is about to be delivered.
Line(t) == (replay[t] \o recv[t]) \o (IF Live(t) THEN up ELSE << >>)

\* Unless it has lost a frame that line has no gap, and ends where the shell is
\* while the shell is relayed.
Flow(t) ==
    t \notin lossy =>
        /\ Fine(Line(t), shell, printed, opened)
        /\ relayed /\ Live(t) => Tip(Line(t), shell, printed)
Stream ==
    /\ Fine(up, shell, printed, opened)
    /\ relayed => shell # 0 /\ Tip(up, shell, printed)

\* The resume point is the sequence of the last chunk kept.
Resumes(t, k) == Len(replay[t]) > 0 => replay[t][Len(replay[t])][2] = k

\* No frame moves before a connection's hook has run.
HookFirst ==
    /\ cur = 0 => down = << >>
    /\ cur = 0 \/ cur \in greeting => up = << >> /\ ~relayed

\* A shell is asked for by a bridge on the stream, which pumps it while it is open.
AskedBy ==
    \A i \in 1 .. Len(down) : down[i][1] = "open" =>
        \A t \in Term : sess[t] = "open" => t \in pump /\ sconn[t] = cur

\* At most one attach frame is on its way, before any open frame; nothing has
\* come to the bridge it is for, which has kept what precedes its resume point.
AttachFirst ==
    \A k \in 1 .. Len(down) : down[k][1] = "attach" =>
        /\ cur \notin greeting /\ up = << >> /\ ~relayed
        /\ \A i \in 1 .. Len(down) : i # k => down[i][1] # "attach"
        /\ \A i \in 1 .. Len(down) : i < k => down[i][1] # "open"
        /\ \A t \in Term : Live(t) => recv[t] = << >> /\ Resumes(t, down[k][2])

FlowInv ==
    /\ HookFirst /\ AskedBy /\ AttachFirst /\ Stream
    /\ \A t \in Term : Flow(t) /\ Resumes(t, last[t])

LEMMA LineTyped ==
    ASSUME Typed, NEW t \in Term
    PROVE  /\ replay[t] \in Seq(Item) /\ recv[t] \in Seq(Item) /\ up \in Seq(Item)
           /\ replay[t] \o recv[t] \in Seq(Item) /\ Line(t) \in Seq(Item)
           /\ ~Live(t) => Line(t) = replay[t] \o recv[t]
           /\ Live(t) => Line(t) = (replay[t] \o recv[t]) \o up
<1>1. Chunks \subseteq Item /\ Relayed \subseteq Item
  BY DEF Item, Relayed
<1>2. replay[t] \in Seq(Item) /\ recv[t] \in Seq(Item) /\ up \in Seq(Item)
  BY <1>1 DEF Typed, BridgeTyped, WireTyped
<1>3. replay[t] \o recv[t] \in Seq(Item)
  BY <1>2
<1> DEFINE q == replay[t] \o recv[t]
<1>4. q \o up \in Seq(Item) /\ q \o << >> = q
  <2> HIDE DEF q
  <2>1. q \in Seq(Item)
    BY <1>3 DEF q
  <2> QED
    BY <1>2, <2>1
<1> QED
  BY <1>2, <1>3, <1>4 DEF Line

\* The variables that say which line a bridge has.
lineVars == <<cur, sess, sconn, recv, replay>>

LEMMA LineSame ==
    ASSUME UNCHANGED lineVars, NEW t \in Term
    PROVE  /\ Live(t)' <=> Live(t)
           /\ up' = up \/ ~Live(t) => Line(t)' = Line(t)
BY DEF lineVars, Live, Line

LEMMA LineAppend ==
    ASSUME Typed, NEW x \in Item, up' = Append(up, x), UNCHANGED lineVars,
           NEW t \in Term, Live(t)
    PROVE  Line(t)' = Append(Line(t), x)
<1> DEFINE q == replay[t] \o recv[t]
<1>1. q \in Seq(Item) /\ up \in Seq(Item) /\ Line(t) = q \o up
  BY LineTyped
<1>2. Line(t)' = q \o Append(up, x)
  BY DEF Line, Live, lineVars
<1> HIDE DEF q
<1> QED
  BY <1>1, <1>2

----------------------------------------------------------------------------
(***************************************************************************)
(* The flow: nothing flows initially, and steps that move no frame.        *)
(***************************************************************************)

LEMMA InitFlow == Init => FlowInv
<1> SUFFICES ASSUME Init PROVE FlowInv
  OBVIOUS
<1>1. HookFirst
  BY DEF Init, HookFirst
<1>2. down = << >> /\ up = << >> /\ ~relayed
  BY DEF Init
<1>3. AskedBy /\ AttachFirst
  BY <1>2 DEF AskedBy, AttachFirst
<1>4. Stream
  BY <1>2 DEF Stream, Fine, Steady, Known
<1>5. ASSUME NEW t \in Term PROVE Flow(t) /\ Resumes(t, last[t])
  <2>1. Line(t) = << >> /\ replay[t] = << >>
    BY DEF Init, Line
  <2> QED
    BY <1>2, <2>1 DEF Flow, Fine, Steady, Known, Resumes
<1> QED
  BY <1>1, <1>3, <1>4, <1>5 DEF FlowInv

\* Browsers that come and go.
LEMMA QuietFlow ==
    ASSUME FlowInv,
           UNCHANGED <<cur, greeting, down, up, shell, opened, printed, relayed, sess, sconn,
                       recv, last, pump, replay, lossy>>
    PROVE  FlowInv'
<1>1. HookFirst' /\ AskedBy' /\ AttachFirst'
  BY DEF FlowInv, HookFirst, AskedBy, AttachFirst, Live, Resumes
<1>2. Stream'
  BY DEF FlowInv, Stream, Fine, Steady, Known, Tip, IsChunk
<1>3. ASSUME NEW t \in Term PROVE (Flow(t) /\ Resumes(t, last[t]))'
  <2>1. Line(t)' = Line(t) /\ (Live(t)' <=> Live(t))
    BY DEF Line, Live
  <2>2. Flow(t) /\ Resumes(t, last[t])
    BY DEF FlowInv
  <2> QED
    BY <2>1, <2>2 DEF Flow, Resumes, Fine, Steady, Known, Tip, IsChunk
<1> QED
  BY <1>1, <1>2, <1>3 DEF FlowInv

\* The node takes an order; while an attach frame is behind it, nothing comes up.
LEMMA OrderTaken ==
    ASSUME Typed, AskedBy, AttachFirst, down # << >>, down' = Tail(down),
           UNCHANGED <<cur, greeting, sess, sconn, recv, pump, replay>>,
           \/ Head(down)[1] \in {"open", "attach"}
           \/ relayed \/ (up' = up /\ ~relayed')
    PROVE  AskedBy' /\ AttachFirst'
<1>1. down \in Seq(Frame)
  BY DEF Typed, WireTyped
<1> DEFINE w == Tail(down)
<1>2. /\ Len(down) \in Nat /\ 1 \in 1 .. Len(down) /\ Head(down) = down[1]
      /\ Len(w) = Len(down) - 1
      /\ \A i \in 1 .. Len(w) : i + 1 \in 1 .. Len(down) /\ i + 1 # 1 /\ 1 < i + 1 /\ w[i] = down[i + 1]
  BY <1>1
<1> HIDE DEF w
<1>3. down' = w
  BY DEF w
<1>4. AskedBy'
  BY <1>2, <1>3 DEF AskedBy
<1>5. AttachFirst'
  <2> SUFFICES ASSUME NEW k \in 1 .. Len(w), w[k][1] = "attach"
               PROVE  /\ cur \notin greeting /\ up' = << >> /\ ~relayed'
                      /\ \A i \in 1 .. Len(w) : i # k => w[i][1] # "attach"
                      /\ \A i \in 1 .. Len(w) : i < k => w[i][1] # "open"
                      /\ \A t \in Term : Live(t) => recv[t] = << >> /\ Resumes(t, w[k][2])
    BY <1>3 DEF AttachFirst, Live, Resumes
  <2>1. k + 1 \in 1 .. Len(down) /\ down[k + 1] = w[k]
    BY <1>2
  <2>2. /\ cur \notin greeting /\ up = << >> /\ ~relayed
        /\ \A i \in 1 .. Len(down) : i # k + 1 => down[i][1] # "attach"
        /\ \A i \in 1 .. Len(down) : i < k + 1 => down[i][1] # "open"
        /\ \A t \in Term : Live(t) => recv[t] = << >> /\ Resumes(t, w[k][2])
    BY <2>1 DEF AttachFirst
  <2>3. Head(down)[1] \notin {"open", "attach"}
    BY <1>2, <2>2
  <2>4. up' = << >> /\ ~relayed'
    BY <2>2, <2>3
  <2>5. \A i \in 1 .. Len(w) : (i # k <=> i + 1 # k + 1) /\ (i < k <=> i + 1 < k + 1)
    BY <1>2
  <2> QED
    BY <1>2, <2>2, <2>4, <2>5
<1> QED
  BY <1>4, <1>5

----------------------------------------------------------------------------
(***************************************************************************)
(* The flow: the node.                                                     *)
(***************************************************************************)

\* An exit, or the failure to start a shell, goes to the end of every line.
LEMMA ExitFlow ==
    ASSUME Typed, FlowInv, up' = Append(up, ExitMark),
           UNCHANGED <<lineVars, opened, printed, lossy>>,
           shell' \in {shell, 0}, relayed' => shell' # 0, relayed' => relayed
    PROVE  Stream' /\ \A t \in Term : Flow(t)'
<1>1. /\ opened \in Nat /\ printed \in Nat /\ ExitMark \in Item
  BY HostTerminalsAssumption DEF Typed, ShellTyped, Item
<1>2. ASSUME NEW q \in Seq(Item), Fine(q, shell, printed, opened)
      PROVE  /\ Fine(q, shell', printed, opened)
             /\ Fine(Append(q, ExitMark), shell', printed, opened)
             /\ relayed' => Tip(Append(q, ExitMark), shell', printed)
  <2>1. Fine(q, shell', printed, opened)
    BY <1>1, <1>2, ShellFine
  <2> QED
    BY <1>1, <2>1, MarkFine
<1>3. Stream'
  <2>1. up \in Seq(Item) /\ Fine(up, shell, printed, opened)
    BY LineTyped DEF FlowInv, Stream, Typed, WireTyped, Relayed, Item
  <2>2. /\ Fine(up', shell', printed', opened')
        /\ relayed' => shell' # 0 /\ Tip(up', shell', printed')
    BY <1>2, <2>1 DEF lineVars
  <2> QED
    BY <2>2 DEF Stream
<1>4. ASSUME NEW t \in Term, t \notin lossy PROVE Flow(t)'
  <2>1. Line(t) \in Seq(Item) /\ Fine(Line(t), shell, printed, opened)
    BY <1>4, LineTyped DEF FlowInv, Flow
  <2>2. CASE Live(t)
    <3>1. Line(t)' = Append(Line(t), ExitMark)
      BY <1>1, <2>2, LineAppend
    <3>2. /\ Fine(Line(t)', shell', printed', opened')
          /\ relayed' => Tip(Line(t)', shell', printed')
      BY <1>2, <2>1, <3>1
    <3> QED
      BY <3>2 DEF Flow
  <2>3. CASE ~Live(t)
    <3>1. Line(t)' = Line(t) /\ ~Live(t)'
      BY <2>3, LineSame
    <3>2. Fine(Line(t)', shell', printed', opened')
      BY <1>2, <2>1, <3>1
    <3> QED
      BY <3>1, <3>2 DEF Flow
  <2> QED
    BY <2>2, <2>3
<1>5. ASSUME NEW t \in Term, t \in lossy PROVE Flow(t)'
  BY <1>5 DEF Flow
<1> QED
  BY <1>3, <1>4, <1>5

\* The shell goes without a word, or another one starts.
LEMMA ShellFlow ==
    ASSUME Typed, FlowInv, up' = up, UNCHANGED <<lineVars, lossy>>,
           \/ shell' = 0 /\ ~relayed' /\ opened' = opened
           \/ shell' = opened + 1 /\ opened' = opened + 1 /\ printed' = 0
    PROVE  Stream' /\ \A t \in Term : Flow(t)'
<1>1. opened \in Nat
  BY DEF Typed, ShellTyped
<1>2. ASSUME NEW q \in Seq(Item), Fine(q, shell, printed, opened)
      PROVE  /\ Fine(q, shell', printed', opened')
             /\ relayed' => shell' # 0 /\ Tip(q, shell', printed')
  BY <1>1, <1>2, ShellFine
<1>3. Stream'
  <2>1. up \in Seq(Item) /\ Fine(up, shell, printed, opened)
    BY LineTyped DEF FlowInv, Stream, Typed, WireTyped, Relayed, Item
  <2> QED
    BY <1>2, <2>1 DEF Stream
<1>4. ASSUME NEW t \in Term, t \notin lossy PROVE Flow(t)'
  <2>1. Line(t) \in Seq(Item) /\ Fine(Line(t), shell, printed, opened)
    BY <1>4, LineTyped DEF FlowInv, Flow
  <2>2. Line(t)' = Line(t)
    BY LineSame
  <2>3. /\ Fine(Line(t)', shell', printed', opened')
        /\ relayed' => Tip(Line(t)', shell', printed')
    BY <1>2, <2>1, <2>2
  <2> QED
    BY <2>3 DEF Flow
<1>5. ASSUME NEW t \in Term, t \in lossy PROVE Flow(t)'
  BY <1>5 DEF Flow
<1> QED
  BY <1>3, <1>4, <1>5

\* The shell prints, on the stream if it is relayed there.
LEMMA PrintFlow == ASSUME Typed, FlowInv, ShellPrints PROVE Stream' /\ \A t \in Term : Flow(t)'
<1>1. /\ opened \in Nat /\ printed \in Nat /\ shell \in Nat /\ shell # 0 /\ shell <= opened
      /\ printed < MaxOut /\ printed' = printed + 1 /\ <<shell, printed + 1>> \in Item
  BY HostTerminalsAssumption DEF Typed, ShellTyped, ShellPrints, Item, Chunks
<1>2. /\ UNCHANGED <<lineVars, shell, opened, lossy>> /\ (relayed' <=> relayed)
      /\ relayed => up' = Append(up, <<shell, printed + 1>>)
      /\ ~relayed => up' = up
  BY DEF ShellPrints, NodeKeeps, termVars, lineVars
<1> DEFINE x == <<shell, printed + 1>>
<1>3. ASSUME NEW q \in Seq(Item), Fine(q, shell, printed, opened)
      PROVE  /\ Fine(q, shell', printed', opened')
             /\ Tip(q, shell, printed) => /\ Fine(Append(q, x), shell', printed', opened')
                                          /\ Tip(Append(q, x), shell', printed')
  BY <1>1, <1>2, <1>3, PrintFine
<1>4. x \in Item
  BY <1>1
<1> HIDE DEF x
<1>5. Stream'
  <2>1. up \in Seq(Item) /\ Fine(up, shell, printed, opened)
    BY LineTyped DEF FlowInv, Stream, Typed, WireTyped, Relayed, Item
  <2>2. CASE relayed
    <3>1. up' = Append(up, x) /\ shell' # 0
      BY <1>1, <1>2, <2>2 DEF x
    <3>2. Tip(up, shell, printed)
      BY <2>2 DEF FlowInv, Stream
    <3> QED
      BY <1>3, <2>1, <3>1, <3>2 DEF Stream
  <2>3. CASE ~relayed
    BY <1>2, <1>3, <2>1, <2>3 DEF Stream
  <2> QED
    BY <2>2, <2>3
<1>6. ASSUME NEW t \in Term, t \notin lossy PROVE Flow(t)'
  <2>1. Line(t) \in Seq(Item) /\ Fine(Line(t), shell, printed, opened)
    BY <1>6, LineTyped DEF FlowInv, Flow
  <2>2. Live(t)' <=> Live(t)
    BY <1>2, LineSame
  <2>3. CASE relayed /\ Live(t)
    <3>1. Line(t)' = Append(Line(t), x)
      BY <1>2, <1>4, <2>3, LineAppend DEF x
    <3>2. Tip(Line(t), shell, printed)
      BY <1>6, <2>3 DEF FlowInv, Flow
    <3>3. /\ Fine(Line(t)', shell', printed', opened')
          /\ Tip(Line(t)', shell', printed')
      BY <1>3, <2>1, <3>1, <3>2
    <3> QED
      BY <3>3 DEF Flow
  <2>4. CASE ~(relayed /\ Live(t))
    <3>1. Line(t)' = Line(t)
      BY <1>2, <2>4, LineSame
    <3>2. Fine(Line(t)', shell', printed', opened')
      BY <1>3, <2>1, <3>1
    <3> QED
      BY <1>2, <2>2, <2>4, <3>2 DEF Flow
  <2> QED
    BY <2>3, <2>4
<1>7. ASSUME NEW t \in Term, t \in lossy PROVE Flow(t)'
  BY <1>2, <1>7 DEF Flow
<1> QED
  BY <1>5, <1>6, <1>7

\* The node sends what it has behind the resume point: the bridge on the stream
\* goes on where it had come to.
LEMMA AttachFlow ==
    ASSUME Typed, FlowInv, down # << >>, Head(down)[1] = "attach", shell # 0,
           up' = up \o Behind(shell, printed, Head(down)[2]),
           UNCHANGED <<lineVars, shell, opened, printed, lossy>>
    PROVE  Stream' /\ \A t \in Term : Flow(t)'
<1> DEFINE k == Head(down)[2]
           b == Behind(shell, printed, k)
<1>1. /\ opened \in Nat /\ printed \in 0 .. MaxOut /\ shell \in Nat /\ shell <= opened
      /\ MaxOut \in Nat
  BY HostTerminalsAssumption DEF Typed, ShellTyped
<1>2. k \in 0 .. MaxOut /\ Head(down) = down[1] /\ 1 \in 1 .. Len(down)
  <2>1. down \in Seq(Frame)
    BY DEF Typed, WireTyped
  <2>2. Head(down) \in Frame
    BY <2>1
  <2> QED
    BY <2>1, <2>2 DEF Frame
<1>3. up = << >> /\ ~relayed /\ \A t \in Term : Live(t) => recv[t] = << >> /\ Resumes(t, k)
  BY <1>2 DEF FlowInv, AttachFirst
<1>4. b \in Seq(Chunks)
  BY <1>1, <1>2, BehindChunks
<1> HIDE DEF k
<1>5. ASSUME NEW q \in Seq(Chunks), Fine(q, shell, printed, opened), Len(q) > 0 => q[Len(q)][2] = k
      PROVE  Fine(q \o b, shell, printed, opened) /\ Tip(q \o b, shell, printed)
  BY <1>1, <1>2, <1>5, BehindFine
<1> HIDE DEF b
<1>6. up' = b
  <2>1. up' = << >> \o b
    BY <1>3 DEF b, k
  <2> QED
    BY <1>4, <2>1
<1>7. Stream'
  <2> DEFINE e == << >>
  <2>1. Fine(e, shell, printed, opened) /\ e \in Seq(Chunks) /\ ~(Len(e) > 0)
    BY DEF Fine, Steady, Known
  <2>2. e \o b = b
    BY <1>4
  <2> HIDE DEF e
  <2>3. Fine(b, shell, printed, opened) /\ Tip(b, shell, printed)
    BY <1>5, <2>1, <2>2
  <2> QED
    BY <1>6, <2>3 DEF Stream
<1>8. ASSUME NEW t \in Term, t \notin lossy PROVE Flow(t)'
  <2>1. Line(t) \in Seq(Item) /\ Fine(Line(t), shell, printed, opened)
    BY <1>8, LineTyped DEF FlowInv, Flow
  <2>2. Live(t)' <=> Live(t)
    BY LineSame
  <2>3. CASE Live(t)
    <3>1. replay[t] \in Seq(Chunks) /\ recv[t] = << >> /\ Resumes(t, k)
      BY <1>3, <2>3 DEF Typed, BridgeTyped
    <3>2. Line(t) = replay[t]
      <4>1. Line(t) = (replay[t] \o << >>) \o << >>
        BY <1>3, <2>3, <3>1 DEF Line
      <4> QED
        BY <3>1, <4>1
    <3>3. Line(t)' = replay[t] \o b
      <4>1. Line(t)' = (replay[t] \o << >>) \o b
        BY <1>6, <2>2, <2>3, <3>1 DEF Line, lineVars
      <4> QED
        BY <3>1, <4>1
    <3>4. Fine(Line(t)', shell, printed, opened) /\ Tip(Line(t)', shell, printed)
      BY <1>5, <2>1, <3>1, <3>2, <3>3 DEF Resumes
    <3> QED
      BY <3>4 DEF Flow
  <2>4. CASE ~Live(t)
    <3>1. Line(t)' = Line(t)
      BY <2>4, LineSame
    <3> QED
      BY <2>1, <2>2, <2>4, <3>1 DEF Flow
  <2> QED
    BY <2>3, <2>4
<1>9. ASSUME NEW t \in Term, t \in lossy PROVE Flow(t)'
  BY <1>9 DEF Flow
<1> QED
  BY <1>7, <1>8, <1>9

LEMMA NodeFlow == ASSUME Typed, FlowInv, Node PROVE FlowInv'
<1>1. /\ UNCHANGED <<cur, greeting, sess, sconn, recv, last, pump, replay, lossy>>
      /\ UNCHANGED lineVars
  BY DEF Node, NodeOpens, NodeAttaches, NodeCloses, ShellPrints, ShellExits, NodeKeeps, termVars,
         lineVars
<1>2. \A t \in Term : Resumes(t, last[t])'
  BY <1>1 DEF FlowInv, Resumes
<1>3. ASSUME NodeOpens \/ NodeAttaches \/ NodeCloses
      PROVE  cur # 0 /\ cur \notin greeting /\ down # << >> /\ down' = Tail(down)
  BY <1>3 DEF NodeOpens, NodeAttaches, NodeCloses, Serving
<1>4. ASSUME NodeOpens \/ NodeAttaches \/ NodeCloses PROVE HookFirst'
  BY <1>1, <1>3, <1>4 DEF HookFirst
<1>5. ASSUME ShellPrints \/ ShellExits PROVE HookFirst' /\ AskedBy' /\ AttachFirst'
  <2>1. down' = down /\ (~relayed => up' = up /\ ~relayed')
    BY <1>5 DEF ShellPrints, ShellExits
  <2>2. HookFirst'
    BY <1>1, <2>1 DEF FlowInv, HookFirst
  <2>3. AskedBy'
    BY <1>1, <2>1 DEF FlowInv, AskedBy
  <2>4. AttachFirst'
    BY <1>1, <2>1 DEF FlowInv, AttachFirst, Live, Resumes
  <2> QED
    BY <2>2, <2>3, <2>4
<1>6. CASE NodeOpens
  <2>1. AskedBy' /\ AttachFirst'
    <3>1. Head(down)[1] = "open"
      BY <1>6 DEF NodeOpens
    <3> QED
      BY <1>1, <1>3, <1>6, <3>1, OrderTaken DEF FlowInv
  <2>2. Stream' /\ \A t \in Term : Flow(t)'
    <3>1. CASE shell' = opened + 1 /\ opened' = opened + 1 /\ printed' = 0 /\ up' = up
      BY <1>1, <3>1, ShellFlow
    <3>2. CASE up' = Append(up, ExitMark) /\ UNCHANGED shellVars
      <4>1. UNCHANGED <<shell, opened, printed>> /\ (relayed' <=> relayed)
        BY <3>2 DEF shellVars
      <4>2. relayed => shell # 0
        BY DEF FlowInv, Stream
      <4> QED
        BY <1>1, <3>2, <4>1, <4>2, ExitFlow
    <3> QED
      BY <1>6, <3>1, <3>2 DEF NodeOpens
  <2> QED
    BY <1>2, <1>4, <1>6, <2>1, <2>2 DEF FlowInv
<1>7. CASE NodeAttaches
  <2>1. AskedBy' /\ AttachFirst' /\ Head(down)[1] = "attach"
    <3>1. Head(down)[1] = "attach"
      BY <1>7 DEF NodeAttaches
    <3> QED
      BY <1>1, <1>3, <1>7, <3>1, OrderTaken DEF FlowInv
  <2>2. UNCHANGED <<shell, opened, printed>>
    BY <1>7 DEF NodeAttaches
  <2>3. Stream' /\ \A t \in Term : Flow(t)'
    <3>1. CASE shell # 0
      <4>1. up' = up \o Behind(shell, printed, Head(down)[2])
        BY <1>7, <3>1 DEF NodeAttaches, Behind
      <4> QED
        BY <1>1, <1>3, <1>7, <2>1, <2>2, <3>1, <4>1, AttachFlow
    <3>2. CASE shell = 0
      <4>1. up' = Append(up, ExitMark) /\ (relayed' <=> relayed)
        BY <1>7, <3>2 DEF NodeAttaches
      <4>2. relayed => shell # 0
        BY DEF FlowInv, Stream
      <4> QED
        BY <1>1, <2>2, <4>1, <4>2, ExitFlow
    <3> QED
      BY <3>1, <3>2
  <2> QED
    BY <1>2, <1>4, <1>7, <2>1, <2>3 DEF FlowInv
<1>8. ASSUME NodeCloses \/ ShellExits
      PROVE  Stream' /\ \A t \in Term : Flow(t)'
  <2>1. shell' = 0 /\ ~relayed' /\ UNCHANGED <<opened, printed>>
    BY <1>8 DEF NodeCloses, ShellExits
  <2>2. up' = up \/ up' = Append(up, ExitMark)
    BY <1>8 DEF NodeCloses, ShellExits
  <2> QED
    BY <1>1, <2>1, <2>2, ShellFlow, ExitFlow
<1>9. CASE NodeCloses
  <2>1. relayed \/ (up' = up /\ ~relayed')
    BY <1>9 DEF NodeCloses
  <2>2. AskedBy' /\ AttachFirst'
    BY <1>1, <1>3, <1>9, <2>1, OrderTaken DEF FlowInv
  <2> QED
    BY <1>2, <1>4, <1>8, <1>9, <2>2 DEF FlowInv
<1>10. CASE ShellPrints
  BY <1>2, <1>5, <1>10, PrintFlow DEF FlowInv
<1>11. CASE ShellExits
  BY <1>2, <1>5, <1>8, <1>11 DEF FlowInv
<1> QED
  BY <1>6, <1>7, <1>9, <1>10, <1>11 DEF Node

----------------------------------------------------------------------------
(***************************************************************************)
(* The flow: closing bridges and connections.                              *)
(***************************************************************************)

\* A bridge that the stream no longer reaches, its queue marked or not.
LEMMA EndedFlow ==
    ASSUME Typed, NEW t \in Term, Flow(t), ~Live(t)', replay'[t] = replay[t],
           recv'[t] \in {recv[t], Append(recv[t], EndMark), <<EndMark>>},
           shell' \in {shell, 0}, UNCHANGED <<opened, printed, lossy>>
    PROVE  Flow(t)'
<1> SUFFICES ASSUME t \notin lossy PROVE Fine(Line(t)', shell', printed, opened)
  BY DEF Flow
<1> DEFINE rp == replay[t]
           rc == recv[t]
<1>1. /\ opened \in Nat /\ printed \in Nat /\ rp \in Seq(Item) /\ rc \in Seq(Item)
      /\ EndMark \in Item
  <2>1. opened \in Nat /\ printed \in Nat
    BY HostTerminalsAssumption DEF Typed, ShellTyped
  <2>2. rp \in Seq(Item) /\ rc \in Seq(Item)
    BY LineTyped
  <2>3. EndMark \in Item
    BY DEF Item
  <2> QED
    BY <2>1, <2>2, <2>3
<1>2. Line(t)' = rp \o recv'[t]
  <2>1. Line(t)' = (rp \o recv'[t]) \o << >>
    BY DEF Line
  <2> HIDE DEF rp, rc
  <2>2. rc \in Seq(Item) => Append(rc, EndMark) \in Seq(Item) /\ <<EndMark>> \in Seq(Item)
    BY <1>1
  <2>3. recv'[t] \in Seq(Item)
    BY <1>1, <2>2 DEF rc
  <2>4. rp \o recv'[t] \in Seq(Item)
    BY <1>1, <2>3
  <2> QED
    BY <2>1, <2>4
<1>3. Fine(rp \o rc, shell, printed, opened)
  <2>1. Fine(Line(t), shell, printed, opened)
    BY DEF Flow
  <2>2. Line(t) = rp \o rc \/ Line(t) = (rp \o rc) \o up
    BY LineTyped
  <2>3. rp \o rc \in Seq(Item) /\ up \in Seq(Item)
    BY LineTyped
  <2> QED
    BY <2>1, <2>2, <2>3, PrefixFine
<1> HIDE DEF rp, rc
<1>4. Fine(rp, shell, printed, opened)
  BY <1>1, <1>3, PrefixFine
<1>5. ASSUME NEW q \in Seq(Item), Fine(q, shell, printed, opened)
      PROVE  /\ Fine(q, shell', printed, opened)
             /\ Fine(Append(q, EndMark), shell', printed, opened)
  <2>1. Fine(q, shell', printed, opened)
    BY <1>1, <1>5, ShellFine
  <2> QED
    BY <1>1, <2>1, MarkFine
<1>6. rp \o rc \in Seq(Item)
  BY <1>1
<1>7. CASE recv'[t] = rc
  BY <1>2, <1>3, <1>5, <1>6, <1>7
<1>8. CASE recv'[t] = Append(rc, EndMark)
  <2>1. rp \o Append(rc, EndMark) = Append(rp \o rc, EndMark)
    BY <1>1
  <2> QED
    BY <1>2, <1>3, <1>5, <1>6, <1>8, <2>1
<1>9. CASE recv'[t] = <<EndMark>>
  <2>1. rp \o <<EndMark>> = Append(rp, EndMark)
    BY <1>1
  <2> QED
    BY <1>1, <1>2, <1>4, <1>5, <1>9, <2>1
<1> QED
  BY <1>7, <1>8, <1>9 DEF rc

\* A close frame goes out; the bridges still open are as they were.
LEMMA OrderAdded ==
    ASSUME Typed, AskedBy, AttachFirst, down' \in {down, Append(down, <<"close">>)},
           UNCHANGED <<cur, greeting, up, relayed, sconn, pump, replay>>,
           \A t \in Term : sess'[t] = "open" => sess[t] = "open" /\ recv'[t] = recv[t]
    PROVE  AskedBy' /\ AttachFirst'
<1>1. down \in Seq(Frame)
  BY DEF Typed, WireTyped
<1>2. \A i \in 1 .. Len(down') :
          (i \in 1 .. Len(down) /\ down'[i] = down[i]) \/ down'[i] = <<"close">>
  BY <1>1
<1>3. \A i \in 1 .. Len(down') : down'[i][1] \in {"open", "attach"} =>
          i \in 1 .. Len(down) /\ down'[i] = down[i]
  BY <1>2
<1>4. AskedBy'
  BY <1>3 DEF AskedBy
<1>5. AttachFirst'
  <2> SUFFICES ASSUME NEW k \in 1 .. Len(down'), down'[k][1] = "attach"
               PROVE  /\ cur \notin greeting /\ up = << >> /\ ~relayed
                      /\ \A i \in 1 .. Len(down') : i # k => down'[i][1] # "attach"
                      /\ \A i \in 1 .. Len(down') : i < k => down'[i][1] # "open"
                      /\ \A t \in Term : Live(t)' => recv'[t] = << >> /\ Resumes(t, down'[k][2])
    BY DEF AttachFirst, Resumes
  <2>1. k \in 1 .. Len(down) /\ down'[k] = down[k]
    BY <1>3
  <2>2. /\ cur \notin greeting /\ up = << >> /\ ~relayed
        /\ \A i \in 1 .. Len(down) : i # k => down[i][1] # "attach"
        /\ \A i \in 1 .. Len(down) : i < k => down[i][1] # "open"
        /\ \A t \in Term : Live(t) => recv[t] = << >> /\ Resumes(t, down[k][2])
    BY <2>1 DEF AttachFirst
  <2>3. \A t \in Term : Live(t)' => recv'[t] = << >> /\ Resumes(t, down'[k][2])
    BY <2>1, <2>2 DEF Live
  <2> QED
    BY <1>3, <2>2, <2>3
<1> QED
  BY <1>4, <1>5

LEMMA ClosingFlow ==
    ASSUME Typed, FlowInv, NEW t \in Term, Close(t),
           UNCHANGED <<cur, greeting, up, shellVars, sconn, last, pump, replay, lossy>>
    PROVE  FlowInv'
<1>1. /\ UNCHANGED <<shell, opened, printed>> /\ (relayed' <=> relayed) /\ relayed' = relayed
  BY DEF shellVars
<1>2. CASE sess[t] = "closed"
  <2>1. UNCHANGED <<sess, recv, down>>
    BY <1>2 DEF Close
  <2> QED
    BY <1>1, <2>1, QuietFlow
<1>3. CASE sess[t] # "closed"
  <2>1. /\ sess' = [sess EXCEPT ![t] = "closed"]
        /\ \A u \in Term \ {t} : recv'[u] = recv[u]
    BY <1>3, Released DEF Close
  <2>2. recv'[t] \in {recv[t], Append(recv[t], EndMark), <<EndMark>>}
    <3>1. recv' = [recv EXCEPT ![t] = IF Len(@) < OutCap THEN Append(@, EndMark) ELSE <<EndMark>>]
      BY <1>3 DEF Close, Release
    <3>2. DOMAIN recv = Term
      BY DEF Typed, BridgeTyped
    <3> QED
      BY <3>1, <3>2
  <2>3. sess'[t] = "closed" /\ \A u \in Term \ {t} : sess'[u] = sess[u]
    BY <2>1 DEF Typed, BridgeTyped
  <2>4. down' \in {down, Append(down, <<"close">>)} /\ (cur = 0 => down' = down)
    BY <1>3 DEF Close, CanSend
  <2>5. HookFirst'
    BY <1>1, <2>4 DEF FlowInv, HookFirst
  <2>6. AskedBy' /\ AttachFirst'
    BY <1>1, <2>1, <2>3, <2>4, OrderAdded DEF FlowInv
  <2>7. Stream'
    BY <1>1 DEF FlowInv, Stream, Fine, Steady, Known, Tip, IsChunk
  <2>8. ASSUME NEW u \in Term PROVE (Flow(u) /\ Resumes(u, last[u]))'
    <3>1. Flow(u) /\ Resumes(u, last[u])
      BY DEF FlowInv
    <3>2. CASE u = t
      <4>1. ~Live(t)'
        BY <2>3 DEF Live
      <4>2. Flow(t)'
        BY <1>1, <2>2, <3>1, <3>2, <4>1, EndedFlow
      <4> QED
        BY <3>1, <3>2, <4>2 DEF Resumes
    <3>3. CASE u # t
      <4>1. Line(u)' = Line(u) /\ (Live(u)' <=> Live(u))
        BY <2>1, <2>3, <3>3 DEF Line, Live
      <4>2. Flow(u)'
        BY <1>1, <3>1, <4>1 DEF Flow
      <4> QED
        BY <3>1, <4>2 DEF Resumes
    <3> QED
      BY <3>2, <3>3
  <2> QED
    BY <2>5, <2>6, <2>7, <2>8 DEF FlowInv
<1> QED
  BY <1>2, <1>3

LEMMA UnbridgedFlow == ASSUME Typed, FlowInv, CloseUnbridged PROVE FlowInv'
<1>1. /\ UNCHANGED <<cur, greeting, up, sess, sconn, recv, last, pump, replay, lossy>>
      /\ UNCHANGED <<shell, opened, printed>> /\ (relayed' <=> relayed) /\ relayed' = relayed
      /\ down' = Append(down, <<"close">>) /\ cur # 0
  BY DEF CloseUnbridged, CanSend, shellVars, termVars
<1>2. HookFirst'
  BY <1>1 DEF FlowInv, HookFirst
<1>3. AskedBy' /\ AttachFirst'
  BY <1>1, OrderAdded DEF FlowInv
<1>4. Stream'
  BY <1>1 DEF FlowInv, Stream, Fine, Steady, Known, Tip, IsChunk
<1>5. ASSUME NEW u \in Term PROVE (Flow(u) /\ Resumes(u, last[u]))'
  <2>1. Line(u)' = Line(u) /\ (Live(u)' <=> Live(u))
    BY <1>1 DEF Line, Live
  <2>2. Flow(u) /\ Resumes(u, last[u])
    BY DEF FlowInv
  <2> QED
    BY <1>1, <2>1, <2>2 DEF Flow, Resumes
<1> QED
  BY <1>2, <1>3, <1>4, <1>5 DEF FlowInv

\* The stream ends: what was on it is gone, and no bridge is on the next one.
LEMMA ConnectionFlow == ASSUME BridgeInv, FlowInv, Connect \/ Disconnect PROVE FlowInv'
<1>1. Typed /\ made \in Nat /\ \A t \in Term : sess[t] = "open" => sconn[t] \in 1 .. made
  BY HostTerminalsAssumption DEF BridgeInv, Typed, NetTyped, Bridged0, Opened
<1>2. /\ UNCHANGED <<opened, printed, sess, sconn, last, pump, replay, lossy>>
      /\ shell' \in {shell, 0} /\ ~relayed'
      /\ cur' = 0 \/ (cur' = made + 1 /\ cur' \in greeting')
      /\ CloseConn \/ (cur = 0 /\ UNCHANGED <<recv, wireVars>>)
  BY DEF Connect, Disconnect
<1>3. down' = << >> /\ up' = << >>
  BY <1>2 DEF CloseConn, wireVars, FlowInv, HookFirst
<1>4. HookFirst' /\ AskedBy' /\ AttachFirst'
  BY <1>2, <1>3 DEF HookFirst, AskedBy, AttachFirst
<1>5. Stream'
  <2>1. Fine(<< >>, shell', printed', opened')
    BY DEF Fine, Steady, Known
  <2> QED
    BY <1>2, <1>3, <2>1 DEF Stream
<1>6. ASSUME NEW t \in Term PROVE (Flow(t) /\ Resumes(t, last[t]))'
  <2>1. Flow(t) /\ Resumes(t, last[t])
    BY DEF FlowInv
  <2>2. ~Live(t)'
    BY <1>1, <1>2 DEF Live
  <2>3. recv'[t] \in {recv[t], Append(recv[t], EndMark)}
    BY <1>2 DEF CloseConn
  <2>4. Flow(t)'
    BY <1>1, <1>2, <2>1, <2>2, <2>3, EndedFlow
  <2> QED
    BY <1>2, <2>1, <2>4 DEF Resumes
<1> QED
  BY <1>4, <1>5, <1>6 DEF FlowInv

\* A browser closes its bridge, or the registry removes its own.
LEMMA RemovalFlow ==
    ASSUME BridgeInv, FlowInv, (\E b \in Browser : CloseFrame(b)) \/ Delete \/ Reap
    PROVE  FlowInv'
<1>1. ASSUME NEW b \in Browser, CloseFrame(b) PROVE FlowInv'
  <2>1. bterm[b] \in Term /\ Typed
    BY <1>1 DEF CloseFrame, BridgeInv, Watched
  <2>2. /\ Close(bterm[b])
        /\ UNCHANGED <<cur, greeting, up, shellVars, sconn, last, pump, replay, lossy>>
    BY <1>1 DEF CloseFrame
  <2> QED
    BY <2>1, <2>2, ClosingFlow
<1>2. ASSUME Delete \/ Reap PROVE FlowInv'
  <2>1. host \in Term /\ Typed
    BY <1>2 DEF Delete, Reap, BridgeInv, Typed, BridgeTyped
  <2>2. /\ Close(host)
        /\ UNCHANGED <<cur, greeting, up, shellVars, sconn, last, pump, replay, lossy>>
    BY <1>2 DEF Delete, Reap
  <2> QED
    BY <2>1, <2>2, ClosingFlow
<1> QED
  BY <1>1, <1>2

----------------------------------------------------------------------------
(***************************************************************************)
(* The flow: opening and reattaching bridges.                              *)
(***************************************************************************)

\* A bridge that is opened is a new one, with nothing kept, and the only one open.
LEMMA Opening ==
    ASSUME BridgeInv, NEW b \in Browser, Open(b)
    PROVE  \E new \in Term :
              /\ recv[new] = << >> /\ replay[new] = << >> /\ cur # 0
              /\ \A t \in Term : sess[t] # "open" /\ (sess'[t] = "open" <=> t = new)
              /\ sconn'[new] = cur
              /\ pump' = pump \cup {new} /\ down' = Append(down, <<"open">>)
<1>1. PICK n \in 0 .. MaxTerm : NumberedTo(n)
  BY DEF BridgeInv, Numbered
<1> DEFINE new == n + 1
<1>2. NextTerm = new
  BY <1>1, NextIsNew DEF BridgeInv
<1> HIDE DEF new
<1>3. /\ new \in Term /\ OpenSession(new) /\ pump' = pump \cup {new} /\ ~Bridged
  BY <1>2 DEF Open
<1>4. /\ sess' = [sess EXCEPT ![new] = "open"] /\ sconn' = [sconn EXCEPT ![new] = cur]
      /\ down' = Append(down, <<"open">>) /\ cur # 0
  BY <1>3 DEF OpenSession, CanSend
<1>5. BridgeTyped /\ MaxTerm \in Nat
  BY HostTerminalsAssumption DEF BridgeInv, Typed
<1>6. \A t \in Term : sess[t] # "open"
  BY <1>3 DEF BridgeInv, Bridged0, Opened, Bridged, Term
<1>7. sess[new] = "none"
  BY <1>1, <1>3, <1>5 DEF NumberedTo, new, Term
<1>8. recv[new] = << >> /\ replay[new] = << >>
  BY <1>1, <1>3, <1>7 DEF NumberedTo
<1>9. (\A t \in Term : sess'[t] = "open" <=> t = new) /\ sconn'[new] = cur
  BY <1>3, <1>4, <1>5, <1>6 DEF BridgeTyped
<1> QED
  BY <1>3, <1>4, <1>6, <1>8, <1>9

LEMMA OpenFlow == ASSUME BridgeInv, FlowInv, NEW b \in Browser, Open(b) PROVE FlowInv'
<1>1. PICK new \in Term :
          /\ recv[new] = << >> /\ replay[new] = << >> /\ cur # 0
          /\ \A t \in Term : sess[t] # "open" /\ (sess'[t] = "open" <=> t = new)
          /\ sconn'[new] = cur
          /\ pump' = pump \cup {new} /\ down' = Append(down, <<"open">>)
  BY Opening
<1>2. /\ UNCHANGED <<cur, greeting, up, recv, last, replay, lossy>>
      /\ UNCHANGED <<shell, opened, printed>> /\ relayed' = relayed /\ (relayed' <=> relayed)
  BY DEF Open, shellVars
<1>3. HookFirst'
  BY <1>1, <1>2 DEF FlowInv, HookFirst
<1>4. AskedBy'
  BY <1>1, <1>2 DEF AskedBy
<1>5. AttachFirst'
  <2>1. down \in Seq(Frame)
    BY DEF BridgeInv, Typed, WireTyped
  <2>2. /\ Len(down') = Len(down) + 1 /\ Len(down) \in Nat
        /\ \A i \in 1 .. Len(down') :
              IF i <= Len(down) THEN i \in 1 .. Len(down) /\ down'[i] = down[i]
              ELSE i = Len(down') /\ down'[i] = <<"open">>
    BY <1>1, <2>1
  <2> SUFFICES ASSUME NEW k \in 1 .. Len(down'), down'[k][1] = "attach"
               PROVE  /\ cur \notin greeting /\ up = << >> /\ ~relayed
                      /\ \A i \in 1 .. Len(down') : i # k => down'[i][1] # "attach"
                      /\ \A i \in 1 .. Len(down') : i < k => down'[i][1] # "open"
                      /\ \A t \in Term : Live(t)' => recv[t] = << >> /\ Resumes(t, down'[k][2])
    BY <1>2 DEF AttachFirst, Resumes
  <2>3. k \in 1 .. Len(down) /\ down[k][1] = "attach"
    BY <2>2
  <2>4. /\ cur \notin greeting /\ up = << >> /\ ~relayed
        /\ \A i \in 1 .. Len(down) : i # k => down[i][1] # "attach"
        /\ \A i \in 1 .. Len(down) : i < k => down[i][1] # "open"
    BY <2>3 DEF FlowInv, AttachFirst
  <2>5. \A t \in Term : Live(t)' => recv[t] = << >> /\ Resumes(t, down'[k][2])
    BY <1>1 DEF Live, Resumes
  <2>6. \A i \in 1 .. Len(down') : i # k => down'[i][1] # "attach"
    BY <2>2, <2>4
  <2>7. \A i \in 1 .. Len(down') : i < k => down'[i][1] # "open"
    BY <2>2, <2>3, <2>4
  <2> QED
    BY <2>4, <2>5, <2>6, <2>7
<1>6. Stream'
  BY <1>2 DEF FlowInv, Stream, Fine, Steady, Known, Tip, IsChunk
<1>7. ASSUME NEW u \in Term PROVE (Flow(u) /\ Resumes(u, last[u]))'
  <2>1. Flow(u) /\ Resumes(u, last[u])
    BY DEF FlowInv
  <2>2. CASE u = new
    <3>1. Live(u)'
      BY <1>1, <1>2, <2>2 DEF Live
    <3>2. Line(u)' = up
      <4>1. Line(u)' = (<< >> \o << >>) \o up
        BY <1>1, <1>2, <2>2, <3>1 DEF Line
      <4>2. up \in Seq(Relayed)
        BY DEF BridgeInv, Typed, WireTyped
      <4> QED
        BY <4>1, <4>2
    <3>3. Flow(u)'
      BY <1>2, <3>2 DEF FlowInv, Stream, Flow
    <3> QED
      BY <1>2, <2>1, <3>3 DEF Resumes
  <2>3. CASE u # new
    <3>1. Line(u)' = Line(u) /\ ~Live(u) /\ ~Live(u)'
      BY <1>1, <1>2, <2>3 DEF Line, Live
    <3> QED
      BY <1>2, <2>1, <3>1 DEF Flow, Resumes
  <2> QED
    BY <2>2, <2>3
<1> QED
  BY <1>3, <1>4, <1>5, <1>6, <1>7 DEF FlowInv

\* The hook of the live connection runs before any frame has moved on it, the
\* hook of another sends nothing.
LEMMA Reattaching ==
    ASSUME BridgeInv, FlowInv, NEW c \in Conn, Rebind(c), host # 0, Reattachable(host)
    PROVE  /\ host \in Term /\ sess[host] = "open" /\ \A t \in Term : sess[t] = "open" => t = host
           /\ \A i \in 1 .. Len(down) : down[i][1] # "open"
           /\ c = cur => /\ up = << >> /\ ~relayed
                         /\ \A i \in 1 .. Len(down) : down[i][1] # "attach"
           /\ sconn'[host] = c /\ recv'[host] = << >>
           /\ \A t \in Term \ {host} : recv'[t] = recv[t]
           /\ pump \subseteq pump'
           /\ \/ c = cur /\ down' = Append(down, <<"attach", last[host]>>) /\ host \in pump'
              \/ down' = down
<1>1. /\ host \in Term /\ sconn \in [Term -> 0 .. MaxConn] /\ DOMAIN recv = Term
      /\ down \in Seq(Frame) /\ Len(down) \in Nat
  BY DEF BridgeInv, Typed, BridgeTyped, WireTyped
<1>2. sess[host] = "open" /\ host \notin pump
  BY DEF Reattachable
<1>3. \A t \in Term : sess[t] = "open" => t = host
  BY DEF BridgeInv, Bridged0, Opened
<1>4. \A i \in 1 .. Len(down) : down[i][1] # "open"
  BY <1>1, <1>2 DEF FlowInv, AskedBy
<1>5. c \in greeting /\ c # 0
  BY HostTerminalsAssumption DEF Rebind, Conn
<1>6. c = cur => /\ up = << >> /\ ~relayed
                 /\ \A i \in 1 .. Len(down) : down[i][1] # "attach"
  BY <1>5 DEF FlowInv, HookFirst, AttachFirst
<1>7. /\ sconn' = [sconn EXCEPT ![host] = c] /\ recv' = [recv EXCEPT ![host] = << >>]
      /\ down' = IF CanSend(c) THEN Append(down, <<"attach", last[host]>>) ELSE down
      /\ pump' = IF CanSend(c) THEN pump \cup {host} ELSE pump
  BY DEF Rebind, RebindTerminal, AttachSession, ResumeFrom
<1>8. /\ sconn'[host] = c /\ recv'[host] = << >>
      /\ \A t \in Term \ {host} : recv'[t] = recv[t]
  BY <1>1, <1>7
<1>9. /\ pump \subseteq pump'
      /\ \/ c = cur /\ down' = Append(down, <<"attach", last[host]>>) /\ host \in pump'
         \/ down' = down
  BY <1>7 DEF CanSend
<1> QED
  BY <1>1, <1>2, <1>3, <1>4, <1>6, <1>8, <1>9

LEMMA RebindFlow == ASSUME BridgeInv, FlowInv, NEW c \in Conn, Rebind(c) PROVE FlowInv'
<1>1. /\ UNCHANGED <<cur, up, sess, last, replay, lossy>> /\ greeting' = greeting \ {c}
      /\ UNCHANGED <<shell, opened, printed>> /\ relayed' = relayed /\ (relayed' <=> relayed)
  BY DEF Rebind, shellVars
<1>2. Stream'
  BY <1>1 DEF FlowInv, Stream, Fine, Steady, Known, Tip, IsChunk
<1>3. \A t \in Term : Resumes(t, last[t])'
  BY <1>1 DEF FlowInv, Resumes
<1>4. CASE host # 0 /\ Reattachable(host)
  <2>1. /\ host \in Term /\ sess[host] = "open" /\ \A t \in Term : sess[t] = "open" => t = host
        /\ \A i \in 1 .. Len(down) : down[i][1] # "open"
        /\ c = cur => /\ up = << >> /\ ~relayed
                      /\ \A i \in 1 .. Len(down) : down[i][1] # "attach"
        /\ sconn'[host] = c /\ recv'[host] = << >>
        /\ \A t \in Term \ {host} : recv'[t] = recv[t]
        /\ pump \subseteq pump'
        /\ \/ c = cur /\ down' = Append(down, <<"attach", last[host]>>) /\ host \in pump'
           \/ down' = down
    BY <1>4, Reattaching
  <2>2. c # 0 /\ down \in Seq(Frame) /\ Typed
    BY HostTerminalsAssumption DEF Conn, BridgeInv, Typed, WireTyped
  <2>3. ASSUME c = cur, down' = Append(down, <<"attach", last[host]>>), host \in pump'
        PROVE  HookFirst' /\ AskedBy' /\ AttachFirst'
    <3>1. /\ Len(down') = Len(down) + 1 /\ Len(down) \in Nat
          /\ \A i \in 1 .. Len(down') :
                IF i <= Len(down) THEN i \in 1 .. Len(down) /\ down'[i] = down[i]
                ELSE i = Len(down') /\ down'[i] = <<"attach", last[host]>>
      BY <2>2, <2>3
    <3>2. HookFirst'
      BY <1>1, <2>1, <2>2, <2>3 DEF HookFirst
    <3>3. \A i \in 1 .. Len(down') :
              down'[i][1] # "open" /\ (down'[i][1] = "attach" => i = Len(down') /\ down'[i][2] = last[host])
      BY <2>1, <2>3, <3>1
    <3>4. AskedBy'
      BY <3>3 DEF AskedBy
    <3>5. AttachFirst'
      <4> SUFFICES ASSUME NEW k \in 1 .. Len(down'), down'[k][1] = "attach"
                   PROVE  /\ cur \notin greeting' /\ up = << >> /\ ~relayed
                          /\ \A i \in 1 .. Len(down') : i # k => down'[i][1] # "attach"
                          /\ \A i \in 1 .. Len(down') : i < k => down'[i][1] # "open"
                          /\ \A t \in Term : Live(t)' => recv'[t] = << >> /\ Resumes(t, down'[k][2])
        BY <1>1 DEF AttachFirst, Resumes
      <4>1. \A t \in Term : Live(t)' => t = host
        BY <1>1, <2>1 DEF Live
      <4>2. recv'[host] = << >> /\ Resumes(host, down'[k][2])
        BY <2>1, <3>3 DEF FlowInv
      <4>3. cur \notin greeting' /\ up = << >> /\ ~relayed
        BY <1>1, <2>1, <2>3
      <4>4. \A t \in Term : Live(t)' => recv'[t] = << >> /\ Resumes(t, down'[k][2])
        BY <4>1, <4>2
      <4> QED
        BY <3>3, <4>3, <4>4
    <3> QED
      BY <3>2, <3>4, <3>5
  <2>4. ASSUME down' = down PROVE HookFirst' /\ AskedBy' /\ AttachFirst'
    <3>1. HookFirst' /\ AskedBy'
      BY <1>1, <2>1, <2>4 DEF FlowInv, HookFirst, AskedBy
    <3>2. AttachFirst'
      <4> SUFFICES ASSUME NEW k \in 1 .. Len(down), down[k][1] = "attach"
                   PROVE  /\ cur \notin greeting' /\ up = << >> /\ ~relayed
                          /\ \A i \in 1 .. Len(down) : i # k => down[i][1] # "attach"
                          /\ \A i \in 1 .. Len(down) : i < k => down[i][1] # "open"
                          /\ \A t \in Term : ~Live(t)'
        BY <1>1, <2>4 DEF AttachFirst
      <4>1. c # cur
        BY <2>1
      <4>2. \A t \in Term : ~Live(t)'
        BY <1>1, <2>1, <4>1 DEF Live
      <4>3. /\ cur \notin greeting /\ up = << >> /\ ~relayed
            /\ \A i \in 1 .. Len(down) : i # k => down[i][1] # "attach"
            /\ \A i \in 1 .. Len(down) : i < k => down[i][1] # "open"
        BY DEF FlowInv, AttachFirst
      <4> QED
        BY <1>1, <4>2, <4>3
    <3> QED
      BY <3>1, <3>2
  <2>5. ASSUME NEW u \in Term PROVE Flow(u)'
    <3>1. Flow(u)
      BY DEF FlowInv
    <3>2. CASE u = host
      <4>1. replay[u] \in Seq(Item) /\ recv[u] \in Seq(Item) /\ up \in Seq(Item)
        BY <2>2, LineTyped
      <4>2. Live(u)' => up' = << >> /\ ~relayed'
        BY <1>1, <2>1, <3>2 DEF Live
      <4>3. Line(u)' = replay[u]
        <5>1. Line(u)' = (replay[u] \o << >>) \o << >>
          BY <1>1, <2>1, <3>2, <4>2 DEF Line
        <5> QED
          BY <4>1, <5>1
      <4>4. u \notin lossy => Fine(replay[u], shell, printed, opened)
        <5> SUFFICES ASSUME u \notin lossy PROVE Fine(replay[u], shell, printed, opened)
          OBVIOUS
        <5>1. Fine(Line(u), shell, printed, opened)
          BY <3>1 DEF Flow
        <5>2. /\ replay[u] \o recv[u] \in Seq(Item)
              /\ Line(u) = replay[u] \o recv[u] \/ Line(u) = (replay[u] \o recv[u]) \o up
          BY <2>2, LineTyped
        <5>3. Fine(replay[u] \o recv[u], shell, printed, opened)
          BY <4>1, <5>1, <5>2, PrefixFine
        <5> QED
          BY <4>1, <5>3, PrefixFine
      <4> QED
        BY <1>1, <4>2, <4>3, <4>4 DEF Flow
    <3>3. CASE u # host
      <4>1. Line(u)' = Line(u) /\ ~Live(u) /\ ~Live(u)'
        BY <1>1, <2>1, <3>3 DEF Line, Live
      <4> QED
        BY <1>1, <3>1, <4>1 DEF Flow
    <3> QED
      BY <3>2, <3>3
  <2> QED
    BY <1>2, <1>3, <2>1, <2>3, <2>4, <2>5 DEF FlowInv
<1>5. CASE ~(host # 0 /\ Reattachable(host))
  <2>1. UNCHANGED <<sconn, recv, down, pump>>
    BY <1>5 DEF Rebind
  <2>2. HookFirst' /\ AskedBy' /\ AttachFirst'
    BY <1>1, <2>1 DEF FlowInv, HookFirst, AskedBy, AttachFirst, Live, Resumes
  <2>3. ASSUME NEW u \in Term PROVE Flow(u)'
    <3>1. Line(u)' = Line(u) /\ (Live(u)' <=> Live(u))
      BY <1>1, <2>1 DEF Line, Live
    <3> QED
      BY <1>1, <3>1 DEF FlowInv, Flow
  <2> QED
    BY <1>2, <1>3, <2>2, <2>3 DEF FlowInv
<1> QED
  BY <1>4, <1>5

----------------------------------------------------------------------------
(***************************************************************************)
(* The flow: frames delivered and handled.                                 *)
(***************************************************************************)

\* An item that goes from the head of a sequence to the end of the one before it.
LEMMA ShiftedLine ==
    ASSUME NEW q \in Seq(Item), NEW r \in Seq(Item), NEW u \in Seq(Item), u # << >>
    PROVE  (q \o Append(r, Head(u))) \o Tail(u) = (q \o r) \o u
<1> DEFINE x == Head(u)
           s == Tail(u)
           a == Append(r, x)
           p == (q \o a) \o s
           w == (q \o r) \o u
<1>1. /\ x \in Item /\ s \in Seq(Item) /\ Len(s) = Len(u) - 1 /\ x = u[1]
      /\ Len(u) \in Nat \ {0} /\ Len(q) \in Nat /\ Len(r) \in Nat
      /\ \A i \in 1 .. Len(s) : s[i] = u[i + 1]
  OBVIOUS
<1> HIDE DEF x, s
<1>2. /\ a \in Seq(Item) /\ Len(a) = Len(r) + 1 /\ a[Len(r) + 1] = x
      /\ \A i \in 1 .. Len(r) : a[i] = r[i]
  BY <1>1
<1> HIDE DEF a
<1>3. /\ q \o a \in Seq(Item) /\ Len(q \o a) = Len(q) + Len(a)
      /\ \A i \in 1 .. Len(q) : (q \o a)[i] = q[i]
      /\ \A i \in 1 .. Len(a) : (q \o a)[Len(q) + i] = a[i]
  <2>1. a \in Seq(Item)
    BY <1>2
  <2> QED
    BY <2>1, Joined
<1>4. /\ q \o r \in Seq(Item) /\ Len(q \o r) = Len(q) + Len(r)
      /\ \A i \in 1 .. Len(q) : (q \o r)[i] = q[i]
      /\ \A i \in 1 .. Len(r) : (q \o r)[Len(q) + i] = r[i]
  BY Joined
<1> DEFINE qa == q \o a
           qr == q \o r
<1> HIDE DEF qa, qr, p, w
<1>5. /\ p \in Seq(Item) /\ Len(p) = Len(qa) + Len(s)
      /\ \A i \in 1 .. Len(qa) : p[i] = qa[i]
      /\ \A i \in 1 .. Len(s) : p[Len(qa) + i] = s[i]
  <2>1. qa \in Seq(Item) /\ p = qa \o s
    BY <1>3 DEF qa, p
  <2>2. s \in Seq(Item)
    BY <1>1
  <2> QED
    BY <2>1, <2>2, Joined
<1>6. /\ w \in Seq(Item) /\ Len(w) = Len(qr) + Len(u)
      /\ \A i \in 1 .. Len(qr) : w[i] = qr[i]
      /\ \A i \in 1 .. Len(u) : w[Len(qr) + i] = u[i]
  <2>1. qr \in Seq(Item) /\ w = qr \o u
    BY <1>4 DEF qr, w
  <2> QED
    BY <2>1, Joined
<1>7. /\ Len(qa) = Len(q) + Len(r) + 1 /\ Len(qr) = Len(q) + Len(r)
      /\ \A i \in 1 .. Len(q) : qa[i] = q[i] /\ qr[i] = q[i]
      /\ \A i \in 1 .. Len(r) : qa[Len(q) + i] = r[i] /\ qr[Len(q) + i] = r[i]
      /\ qa[Len(q) + (Len(r) + 1)] = u[1]
  <2>1. \A i \in 1 .. Len(r) : i \in 1 .. Len(a)
    BY <1>1, <1>2
  <2>2. Len(r) + 1 \in 1 .. Len(a)
    BY <1>1, <1>2
  <2> QED
    BY <1>1, <1>2, <1>3, <1>4, <2>1, <2>2 DEF qa, qr
<1>8. Len(p) = Len(w)
  BY <1>1, <1>5, <1>6, <1>7
<1>9. ASSUME NEW i \in 1 .. Len(w) PROVE p[i] = w[i]
  <2>1. /\ i \in 1 .. (Len(q) + Len(r) + Len(u))
        /\ Len(q) \in Nat /\ Len(r) \in Nat /\ Len(u) \in Nat \ {0} /\ Len(s) = Len(u) - 1
        /\ Len(qa) = Len(q) + Len(r) + 1 /\ Len(qr) = Len(q) + Len(r)
    BY <1>1, <1>6, <1>7
  <2>2. CASE i <= Len(q)
    <3>1. i \in 1 .. Len(q) /\ i \in 1 .. Len(qa) /\ i \in 1 .. Len(qr)
      BY <2>1, <2>2
    <3> QED
      BY <1>5, <1>6, <1>7, <3>1
  <2>3. CASE ~(i <= Len(q)) /\ i <= Len(q) + Len(r)
    <3>1. /\ i - Len(q) \in 1 .. Len(r) /\ Len(q) + (i - Len(q)) = i
          /\ i \in 1 .. Len(qa) /\ i \in 1 .. Len(qr)
      BY <2>1, <2>3
    <3>2. p[i] = qa[i] /\ w[i] = qr[i]
      BY <1>5, <1>6, <3>1
    <3>3. \A j \in 1 .. Len(r) : qa[Len(q) + j] = qr[Len(q) + j]
      BY <1>7
    <3>4. qa[i] = qr[i]
      BY <3>1, <3>3
    <3> QED
      BY <3>2, <3>4
  <2>4. CASE i = Len(q) + Len(r) + 1
    <3>1. /\ i \in 1 .. Len(qa) /\ i = Len(qr) + 1 /\ 1 \in 1 .. Len(u)
          /\ i = Len(q) + (Len(r) + 1)
      BY <2>1, <2>4
    <3>2. p[i] = qa[i] /\ w[i] = u[1]
      BY <1>5, <1>6, <3>1
    <3> QED
      BY <1>7, <3>1, <3>2
  <2>5. CASE ~(i <= Len(q) + Len(r)) /\ i # Len(q) + Len(r) + 1
    <3> DEFINE j == i - (Len(q) + Len(r) + 1)
    <3>1. /\ j \in 1 .. Len(s) /\ j + 1 \in 1 .. Len(u)
          /\ i = Len(qa) + j /\ i = Len(qr) + (j + 1)
      BY <2>1, <2>5
    <3> HIDE DEF j
    <3>2. p[i] = s[j]
      BY <1>5, <3>1
    <3>3. w[i] = u[j + 1]
      BY <1>6, <3>1
    <3> QED
      BY <1>1, <3>1, <3>2, <3>3
  <2> QED
    BY <2>2, <2>3, <2>4, <2>5
<1>10. p = w
  BY <1>5, <1>6, <1>8, <1>9, SeqEqual
<1> QED
  BY <1>10 DEF p, w, qa, qr, a, x, s

LEMMA DeliverFlow == ASSUME BridgeInv, FlowInv, Deliver PROVE FlowInv'
<1>1. /\ UNCHANGED <<cur, greeting, down, sess, sconn, last, pump, replay>>
      /\ UNCHANGED <<shell, opened, printed>> /\ relayed' = relayed /\ (relayed' <=> relayed)
      /\ up' = Tail(up) /\ up # << >> /\ cur # 0 /\ cur \notin greeting
      /\ lossy \subseteq lossy' /\ Typed
  BY DEF Deliver, Serving, shellVars, BridgeInv
<1>2. HookFirst' /\ AskedBy'
  BY <1>1 DEF FlowInv, HookFirst, AskedBy
<1>3. AttachFirst'
  BY <1>1 DEF FlowInv, AttachFirst
<1>4. up \in Seq(Item) /\ up # << >>
  BY <1>1, LineTyped DEF Typed, WireTyped, Relayed, Item
<1>5. Stream'
  <2>1. /\ up' \in Seq(Item) /\ Len(up') + 1 = Len(up)
        /\ \A i \in 1 .. Len(up') : up'[i] = up[i + 1]
    BY <1>1, <1>4
  <2>2. Fine(up, shell, printed, opened) /\ (relayed => shell # 0 /\ Tip(up, shell, printed))
    BY DEF FlowInv, Stream
  <2>3. /\ Fine(up', shell, printed, opened)
        /\ Tip(up, shell, printed) => Tip(up', shell, printed)
    <3>1. Len(up) \in Nat /\ Len(up') + 1 <= Len(up)
      BY <1>4, <2>1
    <3> QED
      BY <1>4, <2>1, <2>2, <3>1, WindowFine
  <2>4. /\ Fine(up', shell', printed', opened')
        /\ relayed' => shell' # 0 /\ Tip(up', shell', printed')
    BY <1>1, <2>2, <2>3
  <2> QED
    BY <2>4 DEF Stream
<1>6. ASSUME NEW t \in Term PROVE (Flow(t) /\ Resumes(t, last[t]))'
  <2>1. Resumes(t, last[t])'
    BY <1>1 DEF FlowInv, Resumes
  <2>2. Live(t)' <=> Live(t)
    BY <1>1 DEF Live
  <2>3. t \notin lossy' => Line(t)' = Line(t)
    <3>1. CASE Live(t) /\ t \notin lossy'
      <4>1. recv'[t] = Append(recv[t], Head(up))
        BY <1>1, <3>1, Delivered DEF Live
      <4>2. Line(t)' = (replay[t] \o Append(recv[t], Head(up))) \o Tail(up)
        BY <1>1, <2>2, <3>1, <4>1 DEF Line
      <4>3. replay[t] \in Seq(Item) /\ recv[t] \in Seq(Item)
        BY <1>1, LineTyped
      <4>4. Line(t)' = (replay[t] \o recv[t]) \o up
        BY <1>4, <4>2, <4>3, ShiftedLine
      <4> QED
        BY <3>1, <4>4 DEF Line
    <3>2. CASE ~Live(t)
      <4>1. recv'[t] = recv[t]
        BY <1>1, <3>2, Delivered DEF Live
      <4> QED
        BY <1>1, <2>2, <3>2, <4>1 DEF Line
    <3> QED
      BY <3>1, <3>2
  <2>4. Flow(t)'
    BY <1>1, <2>2, <2>3 DEF FlowInv, Flow
  <2> QED
    BY <2>1, <2>4
<1> QED
  BY <1>2, <1>3, <1>5, <1>6 DEF FlowInv

\* The replay buffer takes what the pump has taken; of a bridge still on the
\* stream that is all of the queue, and what comes next follows it.
LEMMA PumpedLine ==
    ASSUME BridgeInv, FlowInv, NEW t \in Term, Pump(t), t \notin lossy
    PROVE  /\ Fine(Line(t)', shell, printed, opened)
           /\ Live(t)' /\ Tip(Line(t), shell, printed) => Live(t) /\ Tip(Line(t)', shell, printed)
<1> DEFINE rp == replay[t]
           rc == recv[t]
           c == Taken(t)
<1>1. /\ Typed /\ Bridged0(t) /\ Flow(t)
  BY DEF BridgeInv, FlowInv
<1>2. /\ UNCHANGED <<cur, wireVars, sconn>> /\ recv' = [recv EXCEPT ![t] = << >>]
      /\ replay'[t] = << >> \/ replay'[t] = Newest(rp \o c)
      /\ sess'[t] \in {sess[t], "closed"}
      /\ sess'[t] # "closed" =>
            /\ replay'[t] = Newest(rp \o c)
            /\ Marks(t) # {} => Ended(t)
  BY Pumping
<1>3. /\ c \in Seq(Chunks) /\ Len(c) <= Len(rc) /\ \A i \in 1 .. Len(c) : c[i] = rc[i]
      /\ Marks(t) = {} => c = rc
  BY <1>1, TakenChunks
<1>4. /\ rp \in Seq(Chunks) /\ rc \in Seq(Item) /\ up \in Seq(Item) /\ up' = up /\ recv'[t] = << >>
  <2>1. rp \in Seq(Chunks) /\ recv \in [Term -> Seq(Item)]
    BY <1>1 DEF Typed, BridgeTyped
  <2>2. up \in Seq(Item)
    BY <1>1, LineTyped
  <2> QED
    BY <1>2, <2>1, <2>2 DEF wireVars
<1>5. /\ rp \o rc \in Seq(Item)
      /\ ~Live(t) => Line(t) = rp \o rc
      /\ Live(t) => Line(t) = (rp \o rc) \o up
  BY <1>1, LineTyped
<1>6. Fine(Line(t), shell, printed, opened)
  BY <1>1 DEF Flow
<1>7. Fine(rp \o rc, shell, printed, opened)
  <2>1. rp \o rc \in Seq(Item) /\ up \in Seq(Item)
    BY <1>4, <1>5
  <2>2. CASE Live(t)
    <3>1. Fine((rp \o rc) \o up, shell, printed, opened)
      BY <1>5, <1>6, <2>2
    <3> QED
      BY <2>1, <3>1, PrefixFine
  <2>3. CASE ~Live(t)
    BY <1>5, <1>6, <2>3
  <2> QED
    BY <2>2, <2>3
<1>8. Line(t)' = (replay'[t] \o << >>) \o (IF Live(t)' THEN up ELSE << >>)
  BY <1>4 DEF Line
<1> DEFINE m == Newest(rp \o c)
<1>9. rp \o c \in Seq(Chunks) /\ m \in Seq(Chunks) /\ m \in Seq(Item) /\ m \o << >> = m
  <2>1. rp \o c \in Seq(Chunks)
    <3> HIDE DEF rp, c
    <3> QED
      BY <1>3, <1>4
  <2>2. m \in Seq(Chunks)
    BY <2>1, NewestChunks
  <2> HIDE DEF m
  <2>3. m \in Seq(Item) /\ m \o << >> = m
    <3>1. Chunks \subseteq Item
      BY DEF Item
    <3> QED
      BY <2>2, <3>1
  <2> QED
    BY <2>1, <2>2, <2>3
<1>10. CASE ~Live(t)'
  <2>1. Line(t)' = replay'[t]
    <3>1. Line(t)' = (replay'[t] \o << >>) \o << >>
      BY <1>8, <1>10
    <3>2. << >> \o << >> = << >>
      OBVIOUS
    <3> QED
      BY <1>2, <1>9, <3>1, <3>2
  <2>2. Fine(<< >>, shell, printed, opened)
    BY DEF Fine, Steady, Known
  <2>3. Fine(m, shell, printed, opened)
    <3> HIDE DEF rp, rc, c
    <3>1. Fine(rp \o c, shell, printed, opened)
      BY <1>3, <1>4, <1>7, MovedFine
    <3> DEFINE q == rp \o c
               e == << >>
    <3>2. q \in Seq(Chunks) /\ e \in Seq(Item) /\ q \o e = q
      BY <1>3, <1>4
    <3>3. Fine(q \o e, shell, printed, opened)
      BY <3>1, <3>2
    <3> HIDE DEF q, e
    <3>4. Fine(Newest(q) \o e, shell, printed, opened)
      BY <3>2, <3>3, NewestFine
    <3> QED
      BY <1>9, <3>4 DEF q, e
  <2> QED
    BY <1>2, <1>10, <2>1, <2>2, <2>3
<1>11. CASE Live(t)'
  <2>1. sess'[t] = "open" /\ sconn[t] = cur
    BY <1>2, <1>11 DEF Live
  <2>2. Live(t) /\ ~Ended(t)
    BY <1>1, <1>2, <2>1 DEF Live, Bridged0, Opened
  <2>3. replay'[t] = m /\ c = rc
    BY <1>2, <1>3, <2>1, <2>2
  <2>4. Line(t)' = m \o up
    BY <1>8, <1>9, <1>11, <2>3
  <2>5. Line(t) = (rp \o c) \o up
    BY <1>5, <2>2, <2>3
  <2> DEFINE q == rp \o c
  <2>6. /\ Line(t)' = Newest(q) \o up /\ Line(t) = q \o up /\ q \in Seq(Chunks)
    BY <1>9, <2>4, <2>5
  <2> HIDE DEF q
  <2>7. /\ Fine(Line(t)', shell, printed, opened)
        /\ Tip(Line(t), shell, printed) => Tip(Line(t)', shell, printed)
    BY <1>4, <1>6, <2>6, NewestFine
  <2> QED
    BY <2>2, <2>7
<1> QED
  BY <1>10, <1>11

\* The session resumes after the newest chunk it has decoded, or has kept none.
LEMMA PumpedResumes ==
    ASSUME BridgeInv, FlowInv, NEW t \in Term, Pump(t)
    PROVE  Resumes(t, last[t])'
<1> DEFINE rp == replay[t]
           c == Taken(t)
           q == rp \o c
<1>1. /\ last' = [last EXCEPT ![t] = LastOf(t, c)]
      /\ replay'[t] = << >> \/ replay'[t] = Newest(q)
  BY Pumping
<1>2. /\ rp \in Seq(Chunks) /\ DOMAIN last = Term /\ Typed /\ Resumes(t, last[t])
  BY DEF BridgeInv, FlowInv, Typed, BridgeTyped
<1>3. c \in Seq(Chunks)
  BY <1>2, TakenChunks
<1>4. last'[t] = LastOf(t, c)
  BY <1>1, <1>2
<1>5. Len(rp) > 0 => rp[Len(rp)][2] = last[t]
  BY <1>2 DEF Resumes
<1> HIDE DEF rp, c
<1>6. /\ q \in Seq(Chunks) /\ Len(q) = Len(rp) + Len(c) /\ Len(rp) \in Nat /\ Len(c) \in Nat
      /\ \A i \in 1 .. Len(rp) : q[i] = rp[i]
      /\ \A i \in 1 .. Len(c) : q[Len(rp) + i] = c[i]
  BY <1>2, <1>3, Joined
<1>7. Len(q) > 0 => q[Len(q)][2] = LastOf(t, c)
  <2> HIDE DEF q
  <2>1. CASE c = << >>
    <3>1. Len(c) = 0 /\ LastOf(t, c) = last[t]
      BY <2>1 DEF LastOf
    <3>2. Len(q) = Len(rp)
      BY <1>6, <3>1
    <3>3. Len(q) > 0 => Len(q) \in 1 .. Len(rp)
      BY <1>6, <3>2
    <3> QED
      BY <1>5, <1>6, <3>1, <3>2, <3>3
  <2>2. CASE c # << >>
    <3>1. Len(c) \in 1 .. Len(c) /\ LastOf(t, c) = c[Len(c)][2]
      BY <1>3, <2>2 DEF LastOf
    <3> QED
      BY <1>6, <3>1
  <2> QED
    BY <2>1, <2>2
<1>8. q \in Seq(Chunks)
  BY <1>6
<1> HIDE DEF q
<1> DEFINE m == Newest(q)
<1>9. /\ Len(m) <= Len(q) /\ m \in Seq(Chunks)
      /\ \A i \in 1 .. Len(m) : m[i] = q[Len(q) - Len(m) + i]
  BY <1>8, NewestChunks
<1> HIDE DEF m
<1>10. Len(m) > 0 => Len(q) > 0 /\ m[Len(m)] = q[Len(q)]
  <2> SUFFICES ASSUME Len(m) > 0 PROVE Len(q) > 0 /\ m[Len(m)] = q[Len(q)]
    OBVIOUS
  <2>1. Len(m) \in Nat /\ Len(q) \in Nat
    BY <1>8, <1>9
  <2>2. Len(m) \in 1 .. Len(m) /\ Len(q) - Len(m) + Len(m) = Len(q) /\ Len(q) > 0
    BY <1>9, <2>1
  <2> QED
    BY <1>9, <2>2
<1>11. CASE replay'[t] = << >>
  BY <1>11 DEF Resumes
<1>12. CASE replay'[t] = m
  BY <1>4, <1>7, <1>10, <1>12 DEF Resumes
<1> QED
  BY <1>1, <1>11, <1>12 DEF m

LEMMA PumpFlow == ASSUME BridgeInv, FlowInv, NEW t \in Term, Pump(t) PROVE FlowInv'
<1>1. /\ UNCHANGED <<cur, greeting, down, up, sconn, lossy>>
      /\ UNCHANGED <<shell, opened, printed>> /\ relayed' = relayed /\ (relayed' <=> relayed)
      /\ recv[t] # << >>
  BY DEF Pump, wireVars, shellVars
<1>2. /\ t \in pump /\ recv' = [recv EXCEPT ![t] = << >>]
      /\ last' = [last EXCEPT ![t] = LastOf(t, Taken(t))]
      /\ \A u \in Term \ {t} : replay'[u] = replay[u] /\ sess'[u] = sess[u]
      /\ sess'[t] \in {sess[t], "closed"}
      /\ sess'[t] # "closed" => (Marks(t) # {} => Ended(t)) /\ (Marks(t) = {} => pump' = pump)
      /\ pump' = pump \ {t} \/ pump' = pump
  <2>1. pump' = pump \ {t} \/ pump' = pump
    BY DEF Pump
  <2> QED
    BY <2>1, Pumping
<1>3. \A u \in Term \ {t} : recv'[u] = recv[u] /\ last'[u] = last[u]
  BY <1>2 DEF BridgeInv, Typed, BridgeTyped
<1>4. HookFirst' /\ Stream'
  BY <1>1 DEF FlowInv, HookFirst, Stream, Fine, Steady, Known, Tip, IsChunk
<1>5. AskedBy'
  <2> SUFFICES ASSUME NEW i \in 1 .. Len(down), down[i][1] = "open",
                      NEW u \in Term, sess'[u] = "open"
               PROVE  u \in pump' /\ sconn[u] = cur
    BY <1>1 DEF AskedBy
  <2>1. sess[u] = "open"
    BY <1>2
  <2>2. u \in pump /\ sconn[u] = cur
    BY <2>1 DEF FlowInv, AskedBy
  <2>3. u = t => pump' = pump
    BY <1>2, <2>1, <2>2 DEF BridgeInv, Bridged0, Opened
  <2> QED
    BY <1>2, <2>2, <2>3
<1>6. AttachFirst'
  <2> SUFFICES ASSUME NEW k \in 1 .. Len(down), down[k][1] = "attach"
               PROVE  /\ cur \notin greeting /\ up = << >> /\ ~relayed
                      /\ \A i \in 1 .. Len(down) : i # k => down[i][1] # "attach"
                      /\ \A i \in 1 .. Len(down) : i < k => down[i][1] # "open"
                      /\ \A u \in Term : Live(u)' => recv'[u] = << >> /\ Resumes(u, down[k][2])'
    BY <1>1 DEF AttachFirst, Resumes
  <2>1. /\ cur \notin greeting /\ up = << >> /\ ~relayed
        /\ \A i \in 1 .. Len(down) : i # k => down[i][1] # "attach"
        /\ \A i \in 1 .. Len(down) : i < k => down[i][1] # "open"
        /\ \A u \in Term : Live(u) => recv[u] = << >> /\ Resumes(u, down[k][2])
    BY DEF FlowInv, AttachFirst
  <2>2. ASSUME NEW u \in Term, Live(u)'
        PROVE  recv'[u] = << >> /\ Resumes(u, down[k][2])'
    <3>1. Live(u)
      BY <1>1, <1>2, <2>2 DEF Live
    <3>2. u # t
      BY <1>1, <2>1, <3>1
    <3> QED
      BY <1>1, <1>2, <1>3, <2>1, <3>1, <3>2 DEF Resumes
  <2> QED
    BY <2>1, <2>2
<1>7. ASSUME NEW u \in Term PROVE (Flow(u) /\ Resumes(u, last[u]))'
  <2>1. Flow(u) /\ Resumes(u, last[u])
    BY DEF FlowInv
  <2>2. CASE u = t
    <3>1. t \notin lossy =>
             /\ Fine(Line(t)', shell, printed, opened)
             /\ Live(t)' /\ Tip(Line(t), shell, printed) => Live(t) /\ Tip(Line(t)', shell, printed)
      BY PumpedLine
    <3>2. t \notin lossy /\ Live(t)' => Live(t)
      BY <1>1, <1>2 DEF Live
    <3>3. Flow(t)'
      BY <1>1, <2>1, <2>2, <3>1, <3>2 DEF Flow
    <3> QED
      BY <2>2, <3>3, PumpedResumes
  <2>3. CASE u # t
    <3>1. Line(u)' = Line(u) /\ (Live(u)' <=> Live(u))
      BY <1>1, <1>2, <1>3, <2>3 DEF Line, Live
    <3>2. Resumes(u, last[u])'
      BY <1>2, <1>3, <2>1, <2>3 DEF Resumes
    <3> QED
      BY <1>1, <2>1, <3>1, <3>2 DEF Flow
  <2> QED
    BY <2>2, <2>3
<1> QED
  BY <1>4, <1>5, <1>6, <1>7 DEF FlowInv

----------------------------------------------------------------------------
LEMMA NextFlow == ASSUME BridgeInv, FlowInv, [Next]_vars PROVE FlowInv'
<1>1. ASSUME NEW b \in Browser, BrowserStep(b) PROVE FlowInv'
  <2>1. ASSUME Attach(b) \/ OpenFails(b) \/ Leave(b) \/ EndBridge(b) PROVE FlowInv'
    <3>1. UNCHANGED <<cur, greeting, down, up, shell, opened, printed, relayed, sess, sconn,
                      recv, last, pump, replay, lossy>>
      BY <2>1 DEF Attach, OpenFails, Leave, EndBridge, wireVars, shellVars, termVars
    <3> QED
      BY <3>1, QuietFlow
  <2> QED
    BY <1>1, <2>1, OpenFlow, RemovalFlow DEF BrowserStep
<1>2. ASSUME NEW t \in Term, Pump(t) PROVE FlowInv'
  BY <1>2, PumpFlow
<1>3. ASSUME Connect \/ Disconnect PROVE FlowInv'
  BY <1>3, ConnectionFlow
<1>4. ASSUME Deliver PROVE FlowInv'
  BY <1>4, DeliverFlow
<1>5. ASSUME NEW c \in Conn, Rebind(c) PROVE FlowInv'
  BY <1>5, RebindFlow
<1>6. ASSUME Delete \/ Reap PROVE FlowInv'
  BY <1>6, RemovalFlow
<1>7. ASSUME CloseUnbridged PROVE FlowInv'
  BY <1>7, UnbridgedFlow DEF BridgeInv
<1>8. ASSUME Node PROVE FlowInv'
  BY <1>8, NodeFlow DEF BridgeInv
<1>9. ASSUME UNCHANGED vars PROVE FlowInv'
  <2>1. UNCHANGED <<cur, greeting, down, up, shell, opened, printed, relayed, sess, sconn,
                    recv, last, pump, replay, lossy>>
    BY <1>9 DEF vars, wireVars, shellVars, termVars
  <2> QED
    BY <2>1, QuietFlow
<1> QED
  BY <1>1, <1>2, <1>3, <1>4, <1>5, <1>6, <1>7, <1>8, <1>9 DEF Next

\* Across any number of reconnects, restarts of the node and bridges, what a
\* bridge replays of one shell has no gap and no repetition, unless one of its
\* queues overflowed: the theorem for ReplayIsContiguous.
THEOREM NoGapInReplay == Spec => []ReplayIsContiguous
<1>1. Init => BridgeInv /\ FlowInv
  BY InitBridges, InitFlow
<1>2. BridgeInv /\ FlowInv /\ [Next]_vars => (BridgeInv /\ FlowInv)'
  BY NextBridges, NextFlow
<1>3. ASSUME BridgeInv, FlowInv PROVE ReplayIsContiguous
  <2> SUFFICES ASSUME NEW t \in Term \ lossy, NEW i \in 1 .. Len(replay[t]) - 1,
                      replay[t][i][1] = replay[t][i + 1][1]
               PROVE  replay[t][i + 1][2] = replay[t][i][2] + 1
    BY DEF ReplayIsContiguous
  <2>1. Typed /\ Fine(Line(t), shell, printed, opened)
    BY <1>3 DEF BridgeInv, FlowInv, Flow
  <2>2. /\ replay[t] \in Seq(Item) /\ recv[t] \in Seq(Item) /\ up \in Seq(Item)
        /\ replay[t] \o recv[t] \in Seq(Item)
        /\ Line(t) = replay[t] \o recv[t] \/ Line(t) = (replay[t] \o recv[t]) \o up
    BY <2>1, LineTyped
  <2>3. Fine(replay[t] \o recv[t], shell, printed, opened)
    BY <2>1, <2>2, PrefixFine
  <2>4. Fine(replay[t], shell, printed, opened)
    BY <2>2, <2>3, PrefixFine
  <2>5. IsChunk(replay[t][i])
    <3>1. replay[t] \in Seq(Chunks) /\ i \in 1 .. Len(replay[t])
      BY <2>1 DEF Typed, BridgeTyped
    <3>2. replay[t][i] \in Chunks
      BY <3>1
    <3> QED
      BY <3>2 DEF Chunks, IsChunk
  <2> QED
    BY <2>4, <2>5 DEF Fine, Steady
<1> QED
  BY <1>1, <1>2, <1>3, PTL DEF Spec

----------------------------------------------------------------------------
(***************************************************************************)
(* The shells are counted: every one of them was opened by a bridge, and   *)
(* every order on its way is for a bridge after theirs.                    *)
(***************************************************************************)

\* The bridges made so far are 1 .. n.
MadeTo(n) == \A t \in Term : sess[t] = "none" <=> t > n

\* f names the bridge each order on its way was sent for.
Orders(f, n) ==
    /\ opened <= n
    /\ \A j \in 1 .. Len(down) : down[j] = <<"open">> =>
          /\ f[j] \in opened + 1 .. n
          /\ \A i \in 1 .. j - 1 : down[i] = <<"open">> => f[i] < f[j]
OrderInv ==
    \E n \in 0 .. MaxTerm : MadeTo(n) /\ \E f \in [1 .. Buffer -> 0 .. MaxTerm] : Orders(f, n)

\* No chunk is of a shell to come.
Started(q, n) == \A i \in 1 .. Len(q) : q[i][1] <= n
StartInv ==
    /\ Started(up, opened)
    /\ \A t \in Term : Started(recv[t], opened) /\ Started(replay[t], opened)

\* A step that makes no bridge and orders no shell keeps the orders.
LEMMA OrdersKept ==
    ASSUME Typed, OrderInv, opened' = opened,
           \A t \in Term : sess'[t] = "none" <=> sess[t] = "none",
           \/ down' \in {down, << >>, Append(down, <<"close">>)}
           \/ \E k \in 0 .. MaxOut : down' = Append(down, <<"attach", k>>)
    PROVE  OrderInv'
<1>1. PICK n \in 0 .. MaxTerm : MadeTo(n) /\ \E f \in [1 .. Buffer -> 0 .. MaxTerm] : Orders(f, n)
  BY DEF OrderInv
<1>2. PICK f \in [1 .. Buffer -> 0 .. MaxTerm] : Orders(f, n)
  BY <1>1
<1>3. MadeTo(n)'
  BY <1>1 DEF MadeTo
<1>4. down \in Seq(Frame)
  BY DEF Typed, WireTyped
<1>5. \A j \in 1 .. Len(down') : down'[j] = <<"open">> =>
         j \in 1 .. Len(down) /\ down'[j] = down[j] /\ \A i \in 1 .. j - 1 : down'[i] = down[i]
  <2>1. CASE down' = down
    BY <1>4, <2>1
  <2>2. CASE down' = << >>
    BY <2>2
  <2>3. ASSUME NEW x, x # <<"open">>, down' = Append(down, x)
        PROVE  \A j \in 1 .. Len(down') : down'[j] = <<"open">> =>
                  j \in 1 .. Len(down) /\ down'[j] = down[j] /\ \A i \in 1 .. j - 1 : down'[i] = down[i]
    <3>1. /\ Len(down') = Len(down) + 1 /\ Len(down) \in Nat /\ down'[Len(down) + 1] = x
          /\ \A i \in 1 .. Len(down) : down'[i] = down[i]
      BY <1>4, <2>3
    <3> QED
      BY <2>3, <3>1
  <2>4. <<"close">> # <<"open">> /\ \A k : <<"attach", k>> # <<"open">>
    OBVIOUS
  <2> QED
    BY <2>1, <2>2, <2>3, <2>4
<1>6. Orders(f, n)'
  BY <1>2, <1>5 DEF Orders
<1> QED
  BY <1>3, <1>6 DEF OrderInv

\* The node takes a frame, and starts at most the shell that one orders.
LEMMA OrdersTaken ==
    ASSUME Typed, OrderInv, down # << >>, down' = Tail(down), UNCHANGED sess,
           \/ opened' = opened
           \/ opened' = opened + 1 /\ Head(down)[1] = "open"
    PROVE  OrderInv'
<1>1. PICK n \in 0 .. MaxTerm : MadeTo(n) /\ \E f \in [1 .. Buffer -> 0 .. MaxTerm] : Orders(f, n)
  BY DEF OrderInv
<1>2. PICK f \in [1 .. Buffer -> 0 .. MaxTerm] : Orders(f, n)
  BY <1>1
<1>3. MadeTo(n)'
  BY <1>1 DEF MadeTo
<1>4. /\ down \in Seq(Frame) /\ Len(down) \in 1 .. Buffer /\ opened \in Nat
      /\ Buffer \in Nat /\ MaxTerm \in Nat
  BY HostTerminalsAssumption DEF Typed, WireTyped, ShellTyped
<1>5. /\ Len(down') = Len(down) - 1 /\ Head(down) = down[1] /\ down[1] \in Frame
      /\ \A i \in 1 .. Len(down) - 1 : down'[i] = down[i + 1]
  BY <1>4
<1> DEFINE g == [i \in 1 .. Buffer |-> IF i < Buffer THEN f[i + 1] ELSE 0]
<1>6. g \in [1 .. Buffer -> 0 .. MaxTerm] /\ \A i \in 1 .. Len(down) - 1 : g[i] = f[i + 1]
  BY <1>4
<1> HIDE DEF g
<1>7. opened' = opened + 1 => down[1] = <<"open">> /\ f[1] \in opened + 1 .. n
  <2> SUFFICES ASSUME opened' = opened + 1 PROVE down[1] = <<"open">> /\ f[1] \in opened + 1 .. n
    OBVIOUS
  <2>1. down[1][1] = "open"
    BY <1>4, <1>5
  <2>2. down[1] = <<"open">>
    BY <1>5, <2>1 DEF Frame
  <2>3. 1 \in 1 .. Len(down)
    BY <1>4
  <2> QED
    BY <1>2, <2>2, <2>3 DEF Orders
<1>8. opened' \in {opened, opened + 1} /\ opened' <= n
  BY <1>2, <1>4, <1>7 DEF Orders
<1>9. ASSUME NEW j \in 1 .. Len(down'), down'[j] = <<"open">>
      PROVE  /\ g[j] \in opened' + 1 .. n
             /\ \A i \in 1 .. j - 1 : down'[i] = <<"open">> => g[i] < g[j]
  <2>1. j \in 1 .. Len(down) - 1 /\ j + 1 \in 1 .. Len(down) /\ down[j + 1] = <<"open">>
    BY <1>4, <1>5, <1>9
  <2>2. /\ f[j + 1] \in opened + 1 .. n
        /\ \A i \in 1 .. j : down[i] = <<"open">> => f[i] < f[j + 1]
    BY <1>2, <2>1 DEF Orders
  <2>3. opened' = opened + 1 => f[1] < f[j + 1]
    BY <1>7, <2>1, <2>2
  <2>4. f[j + 1] \in opened' + 1 .. n
    BY <1>4, <1>7, <1>8, <2>2, <2>3
  <2>5. ASSUME NEW i \in 1 .. j - 1, down'[i] = <<"open">> PROVE g[i] < g[j]
    <3>1. i \in 1 .. Len(down) - 1 /\ i + 1 \in 1 .. j
      BY <1>4, <2>1
    <3>2. down[i + 1] = <<"open">>
      BY <1>5, <2>5, <3>1
    <3> QED
      BY <1>6, <2>1, <2>2, <3>1, <3>2
  <2> QED
    BY <1>6, <2>1, <2>4, <2>5
<1>10. Orders(g, n)'
  BY <1>8, <1>9 DEF Orders
<1> QED
  BY <1>3, <1>6, <1>10 DEF OrderInv

\* A new bridge orders a shell after those of its predecessors.
LEMMA OrdersOpen == ASSUME BridgeInv, OrderInv, NEW b \in Browser, Open(b) PROVE OrderInv'
<1>1. PICK n \in 0 .. MaxTerm : MadeTo(n) /\ \E f \in [1 .. Buffer -> 0 .. MaxTerm] : Orders(f, n)
  BY DEF OrderInv
<1>2. PICK f \in [1 .. Buffer -> 0 .. MaxTerm] : Orders(f, n)
  BY <1>1
<1>3. /\ down \in Seq(Frame) /\ opened \in Nat /\ Buffer \in Nat /\ MaxTerm \in Nat
      /\ sess \in [Term -> {"none", "open", "closed"}]
  BY HostTerminalsAssumption DEF BridgeInv, Typed, WireTyped, ShellTyped, BridgeTyped
<1>4. NextTerm = n + 1
  <2>1. PICK m \in 0 .. MaxTerm : NumberedTo(m)
    BY DEF BridgeInv, Numbered
  <2>2. \A t \in 1 .. MaxTerm : t > m <=> t > n
    BY <1>1, <2>1 DEF MadeTo, NumberedTo, Term
  <2>3. m = n
    <3>1. CASE m < n
      <4>1. n \in 1 .. MaxTerm /\ n > m /\ ~(n > n)
        BY <1>3, <3>1
      <4> QED
        BY <2>2, <4>1
    <3>2. CASE n < m
      <4>1. m \in 1 .. MaxTerm /\ m > n /\ ~(m > m)
        BY <1>3, <3>2
      <4> QED
        BY <2>2, <4>1
    <3> QED
      BY <1>3, <3>1, <3>2
  <2> QED
    BY <2>1, <2>3, NextIsNew DEF BridgeInv
<1>5. /\ n + 1 \in Term /\ sess' = [sess EXCEPT ![n + 1] = "open"]
      /\ down' = Append(down, <<"open">>) /\ Len(down) < Buffer /\ opened' = opened
  BY <1>4 DEF Open, OpenSession, CanSend, shellVars
<1>6. n + 1 \in 0 .. MaxTerm /\ MadeTo(n + 1)'
  <2>1. ASSUME NEW t \in Term PROVE sess'[t] = "none" <=> t > n + 1
    <3>1. sess'[t] = IF t = n + 1 THEN "open" ELSE sess[t]
      BY <1>3, <1>5
    <3>2. sess[t] = "none" <=> t > n
      BY <1>1 DEF MadeTo
    <3>3. t \in Nat
      BY <1>3 DEF Term
    <3> QED
      BY <3>1, <3>2, <3>3
  <2>2. n + 1 \in 0 .. MaxTerm
    BY <1>3, <1>5 DEF Term
  <2> QED
    BY <2>1, <2>2 DEF MadeTo
<1>7. /\ Len(down) \in Nat /\ Len(down') = Len(down) + 1
      /\ \A i \in 1 .. Len(down) : down'[i] = down[i]
  BY <1>3, <1>5
<1>8. PICK g \in [1 .. Buffer -> 0 .. MaxTerm] :
         /\ g[Len(down) + 1] = n + 1
         /\ \A i \in 1 .. Len(down) : g[i] = f[i]
  <2> DEFINE h == [f EXCEPT ![Len(down) + 1] = n + 1]
  <2>1. /\ Len(down) + 1 \in 1 .. Buffer /\ h \in [1 .. Buffer -> 0 .. MaxTerm]
        /\ h[Len(down) + 1] = n + 1 /\ \A i \in 1 .. Len(down) : h[i] = f[i]
    BY <1>3, <1>5, <1>6, <1>7
  <2> QED
    BY <2>1
<1>9. ASSUME NEW j \in 1 .. Len(down'), down'[j] = <<"open">>
      PROVE  /\ g[j] \in opened + 1 .. n + 1
             /\ \A i \in 1 .. j - 1 : down'[i] = <<"open">> => g[i] < g[j]
  <2>1. \A i \in 1 .. Len(down) : down[i] = <<"open">> => f[i] \in opened + 1 .. n
    BY <1>2 DEF Orders
  <2>2. CASE j = Len(down) + 1
    <3>1. opened <= n
      BY <1>2 DEF Orders
    <3>2. ASSUME NEW i \in 1 .. j - 1, down'[i] = <<"open">> PROVE g[i] < g[j]
      <4>1. i \in 1 .. Len(down)
        BY <1>7, <2>2
      <4>2. f[i] \in opened + 1 .. n
        BY <1>7, <2>1, <3>2, <4>1
      <4> QED
        BY <1>3, <1>8, <2>2, <4>1, <4>2
    <3> QED
      BY <1>3, <1>8, <2>2, <3>1, <3>2
  <2>3. CASE j # Len(down) + 1
    <3>1. j \in 1 .. Len(down) /\ down[j] = <<"open">>
      BY <1>7, <1>9, <2>3
    <3>2. /\ f[j] \in opened + 1 .. n
          /\ \A i \in 1 .. j - 1 : down[i] = <<"open">> => f[i] < f[j]
      BY <1>2, <3>1 DEF Orders
    <3>3. \A i \in 1 .. j - 1 : i \in 1 .. Len(down) /\ down'[i] = down[i] /\ g[i] = f[i]
      BY <1>7, <1>8, <3>1
    <3>4. f[j] \in opened + 1 .. n + 1
      BY <1>3, <3>2
    <3> QED
      BY <1>8, <3>1, <3>2, <3>3, <3>4
  <2> QED
    BY <2>2, <2>3
<1>10. Orders(g, n + 1)'
  <2>1. opened <= n + 1
    BY <1>2, <1>3 DEF Orders
  <2> QED
    BY <1>5, <1>9, <2>1 DEF Orders
<1> QED
  BY <1>6, <1>8, <1>10 DEF OrderInv

LEMMA NextOrders == ASSUME BridgeInv, OrderInv, [Next]_vars PROVE OrderInv'
<1>1. /\ Typed /\ sess \in [Term -> {"none", "open", "closed"}]
      /\ \A t \in Term : t \in pump => sess[t] # "none"
      /\ host # 0 => host \in Term /\ sess[host] # "none"
      /\ last \in [Term -> 0 .. MaxOut] /\ pump \subseteq Term
  BY DEF BridgeInv, Typed, BridgeTyped, Numbered, NumberedTo
<1>2. ASSUME NEW t \in Term, sess[t] # "none", Close(t), UNCHANGED shellVars PROVE OrderInv'
  <2>1. /\ down' \in {down, Append(down, <<"close">>)} /\ opened' = opened
        /\ sess' = sess \/ sess' = [sess EXCEPT ![t] = "closed"]
    BY <1>2 DEF Close, Release, shellVars
  <2>2. \A u \in Term : sess'[u] = "none" <=> sess[u] = "none"
    BY <1>1, <1>2, <2>1
  <2> QED
    BY <1>1, <2>1, <2>2, OrdersKept
<1>3. ASSUME NEW b \in Browser, BrowserStep(b) PROVE OrderInv'
  <2>1. CASE Attach(b) \/ OpenFails(b) \/ Leave(b) \/ EndBridge(b)
    <3>1. sess' = sess /\ down' = down /\ opened' = opened
      BY <2>1 DEF Attach, OpenFails, Leave, EndBridge, termVars, wireVars, shellVars
    <3> QED
      BY <1>1, <3>1, OrdersKept
  <2>2. CASE Open(b)
    BY <2>2, OrdersOpen
  <2>3. CASE CloseFrame(b)
    <3>1. bterm[b] \in Term /\ sess[bterm[b]] # "none"
      BY <2>3 DEF CloseFrame, BridgeInv, Watched
    <3> QED
      BY <1>2, <2>3, <3>1 DEF CloseFrame
  <2> QED
    BY <1>3, <2>1, <2>2, <2>3 DEF BrowserStep
<1>4. ASSUME NEW t \in Term, Pump(t) PROVE OrderInv'
  <2>1. /\ t \in pump /\ UNCHANGED <<wireVars, shellVars>> /\ sess'[t] \in {sess[t], "closed"}
        /\ \A u \in Term \ {t} : sess'[u] = sess[u]
    BY <1>4, Pumping
  <2>2. \A u \in Term : sess'[u] = "none" <=> sess[u] = "none"
    BY <1>1, <2>1
  <2>3. down' = down /\ opened' = opened
    BY <2>1 DEF wireVars, shellVars
  <2> QED
    BY <1>1, <2>2, <2>3, OrdersKept
<1>5. CASE Connect \/ Disconnect \/ Deliver \/ CloseUnbridged \/ UNCHANGED vars
  <2>1. /\ sess' = sess /\ opened' = opened
        /\ down' \in {down, << >>, Append(down, <<"close">>)}
    BY <1>5 DEF Connect, Disconnect, CloseConn, Deliver, CloseUnbridged, vars, wireVars, shellVars, termVars
  <2> QED
    BY <1>1, <2>1, OrdersKept
<1>6. ASSUME NEW c \in Conn, Rebind(c) PROVE OrderInv'
  <2>1. sess' = sess /\ opened' = opened
    BY <1>6 DEF Rebind, shellVars
  <2>2. down' = down \/ \E k \in 0 .. MaxOut : down' = Append(down, <<"attach", k>>)
    BY <1>1, <1>6 DEF Rebind, RebindTerminal, AttachSession, ResumeFrom
  <2> QED
    BY <1>1, <2>1, <2>2, OrdersKept
<1>7. CASE Delete \/ Reap
  <2>1. host \in Term /\ sess[host] # "none" /\ Close(host) /\ UNCHANGED shellVars
    BY <1>1, <1>7 DEF Delete, Reap
  <2> QED
    BY <1>2, <2>1
<1>8. CASE Node
  <2>1. sess' = sess
    BY <1>8 DEF Node, NodeOpens, NodeAttaches, NodeCloses, ShellPrints, ShellExits, NodeKeeps, termVars
  <2>2. CASE NodeOpens \/ NodeAttaches \/ NodeCloses
    <3>1. /\ down # << >> /\ down' = Tail(down)
          /\ opened' = opened \/ (opened' = opened + 1 /\ Head(down)[1] = "open")
      BY <2>2 DEF NodeOpens, NodeAttaches, NodeCloses, shellVars
    <3> QED
      BY <1>1, <2>1, <3>1, OrdersTaken
  <2>3. CASE ShellPrints \/ ShellExits
    <3>1. down' = down /\ opened' = opened
      BY <2>3 DEF ShellPrints, ShellExits
    <3> QED
      BY <1>1, <2>1, <3>1, OrdersKept
  <2> QED
    BY <1>8, <2>2, <2>3 DEF Node
<1> QED
  BY <1>3, <1>4, <1>5, <1>6, <1>7, <1>8 DEF Next

\* What a queue keeps when it grows.
LEMMA StartedQueue ==
    ASSUME NEW q \in Seq(Item), NEW n \in Nat, Started(q, n), NEW m \in Nat, n <= m
    PROVE  /\ Started(q, m) /\ Started(<< >>, m) /\ Started(<<EndMark>>, m)
           /\ \A x \in Item : x[1] <= m => Started(Append(q, x), m)
           /\ \A r \in Seq(Item) : Started(r, m) => Started(q \o r, m)
           /\ q # << >> => Head(q)[1] <= m /\ Started(Tail(q), m)
<1>1. \A x \in Item : x[1] \in Nat
  BY DEF Item, Chunks, EndMark, ExitMark
<1>2. \A i \in 1 .. Len(q) : q[i] \in Item /\ q[i][1] <= m
  <2>1. ASSUME NEW i \in 1 .. Len(q) PROVE q[i] \in Item /\ q[i][1] <= m
    <3>1. q[i] \in Item /\ q[i][1] <= n
      BY DEF Started
    <3>2. q[i][1] \in Nat
      BY <1>1, <3>1
    <3> QED
      BY <3>1, <3>2
  <2> QED
    BY <2>1
<1>3. Started(<< >>, m) /\ Started(<<EndMark>>, m)
  BY DEF Started, EndMark
<1>4. ASSUME NEW x \in Item, x[1] <= m PROVE Started(Append(q, x), m)
  <2> DEFINE s == Append(q, x)
  <2>1. /\ Len(s) = Len(q) + 1 /\ s[Len(q) + 1] = x /\ Len(q) \in Nat
        /\ \A i \in 1 .. Len(q) : s[i] = q[i]
    OBVIOUS
  <2> HIDE DEF s
  <2>2. \A i \in 1 .. Len(s) : s[i][1] <= m
    BY <1>2, <1>4, <2>1
  <2> QED
    BY <2>2 DEF Started, s
<1>5. ASSUME NEW r \in Seq(Item), Started(r, m) PROVE Started(q \o r, m)
  <2> DEFINE s == q \o r
  <2>1. /\ Len(s) = Len(q) + Len(r) /\ Len(q) \in Nat /\ Len(r) \in Nat
        /\ \A i \in 1 .. Len(s) : s[i] = IF i <= Len(q) THEN q[i] ELSE r[i - Len(q)]
    OBVIOUS
  <2> HIDE DEF s
  <2>2. ASSUME NEW i \in 1 .. Len(s) PROVE s[i][1] <= m
    <3>1. CASE i <= Len(q)
      BY <1>2, <2>1, <3>1
    <3>2. CASE ~(i <= Len(q))
      <4>1. i - Len(q) \in 1 .. Len(r) /\ s[i] = r[i - Len(q)]
        BY <2>1, <3>2
      <4> QED
        BY <1>5, <4>1 DEF Started
    <3> QED
      BY <3>1, <3>2
  <2> QED
    BY <2>2 DEF Started, s
<1>6. ASSUME q # << >> PROVE Head(q)[1] <= m /\ Started(Tail(q), m)
  <2>1. /\ Head(q) = q[1] /\ 1 \in 1 .. Len(q) /\ Len(Tail(q)) = Len(q) - 1
        /\ \A i \in 1 .. Len(Tail(q)) : i + 1 \in 1 .. Len(q) /\ Tail(q)[i] = q[i + 1]
    BY <1>6
  <2> QED
    BY <1>2, <2>1 DEF Started
<1> QED
  BY <1>2, <1>3, <1>4, <1>5, <1>6 DEF Started

\* Steps that add nothing of a shell to a queue.
LEMMA StartKept ==
    ASSUME Typed, StartInv, opened' = opened, up' \in {up, << >>}, replay' = replay,
           \A t \in Term : recv'[t] \in {recv[t], << >>, <<EndMark>>, Append(recv[t], EndMark)}
    PROVE  StartInv'
<1>1. opened \in Nat /\ opened <= opened /\ EndMark \in Item /\ EndMark[1] <= opened
  BY DEF Typed, ShellTyped, Item, EndMark
<1>2. Started(up', opened)
  BY DEF StartInv, Started
<1>3. ASSUME NEW t \in Term PROVE Started(recv'[t], opened)
  <2>1. recv[t] \in Seq(Item) /\ Started(recv[t], opened)
    BY DEF Typed, BridgeTyped, StartInv
  <2>2. /\ Started(<< >>, opened) /\ Started(<<EndMark>>, opened)
        /\ Started(Append(recv[t], EndMark), opened)
    BY <1>1, <2>1, StartedQueue
  <2>3. recv'[t] \in {recv[t], << >>, <<EndMark>>, Append(recv[t], EndMark)}
    OBVIOUS
  <2> QED
    BY <2>1, <2>2, <2>3
<1> QED
  BY <1>2, <1>3 DEF StartInv

\* The newest shell is the one that prints.
LEMMA NodeStart == ASSUME Typed, StartInv, Node PROVE StartInv'
<1>1. /\ up \in Seq(Item) /\ Started(up, opened) /\ ExitMark \in Item /\ ExitMark[1] = 0
      /\ opened \in Nat /\ shell \in 0 .. opened /\ printed \in 0 .. MaxOut /\ MaxOut \in Nat
  <2>1. Relayed \subseteq Item /\ ExitMark \in Item /\ ExitMark[1] = 0
    BY DEF Relayed, Item, ExitMark
  <2>2. up \in Seq(Relayed)
    BY DEF Typed, WireTyped
  <2>3. up \in Seq(Item)
    BY <2>1, <2>2
  <2> QED
    BY <2>1, <2>3, HostTerminalsAssumption DEF Typed, ShellTyped, StartInv
<1>2. opened' \in {opened, opened + 1} /\ recv' = recv /\ replay' = replay
  BY DEF Node, NodeOpens, NodeAttaches, NodeCloses, ShellPrints, ShellExits, NodeKeeps, shellVars, termVars
<1>3. opened' \in Nat /\ opened <= opened'
  BY <1>1, <1>2
<1>4. ASSUME NEW t \in Term PROVE Started(recv'[t], opened') /\ Started(replay'[t], opened')
  <2>1. /\ recv[t] \in Seq(Item) /\ replay[t] \in Seq(Chunks)
        /\ Started(recv[t], opened) /\ Started(replay[t], opened)
    BY DEF Typed, BridgeTyped, StartInv
  <2>2. replay[t] \in Seq(Item)
    BY <2>1 DEF Item
  <2> QED
    BY <1>1, <1>2, <1>3, <2>1, <2>2, StartedQueue
<1>5. Started(up, opened') /\ Started(Append(up, ExitMark), opened')
  BY <1>1, <1>3, StartedQueue
<1>6. CASE up' \in {up, Append(up, ExitMark)}
  BY <1>4, <1>5, <1>6 DEF StartInv
<1>7. CASE NodeAttaches /\ shell # 0
  <2>1. down \in Seq(Frame) /\ down # << >> /\ Head(down)[1] = "attach"
    BY <1>7 DEF NodeAttaches, Typed, WireTyped
  <2>2. Head(down) \in Frame
    BY <2>1
  <2>3. Head(down)[2] \in 0 .. MaxOut
    BY <2>1, <2>2 DEF Frame
  <2> DEFINE k == Head(down)[2]
             sent == Behind(shell, printed, k)
  <2>4. up' = up \o sent /\ opened' = opened
    BY <1>7 DEF NodeAttaches, Behind
  <2> HIDE DEF k
  <2>5. /\ sent \in Seq(Item)
        /\ \A i \in 1 .. Len(sent) : sent[i][1] = shell
    <3>1. shell \in Nat /\ shell # 0 /\ k \in 0 .. MaxOut
      BY <1>1, <1>7, <2>3 DEF k
    <3> HIDE DEF sent
    <3>2. /\ sent \in Seq(Chunks)
          /\ \A i \in 1 .. Len(sent) : sent[i] = <<shell, k + i>>
      BY <1>1, <3>1, BehindChunks DEF sent
    <3>3. Chunks \subseteq Item
      BY DEF Item
    <3> QED
      BY <3>2, <3>3
  <2> HIDE DEF sent
  <2>6. Started(sent, opened')
    BY <1>1, <2>4, <2>5 DEF Started
  <2> QED
    BY <1>1, <1>3, <1>4, <2>4, <2>5, <2>6, StartedQueue DEF StartInv
<1>8. CASE ShellPrints
  <2>1. /\ up' \in {up, Append(up, <<shell, printed + 1>>)} /\ opened' = opened
        /\ shell # 0 /\ printed < MaxOut
    BY <1>8 DEF ShellPrints
  <2>2. <<shell, printed + 1>> \in Item /\ <<shell, printed + 1>>[1] <= opened'
    BY <1>1, <2>1 DEF Item, Chunks
  <2>3. Started(Append(up, <<shell, printed + 1>>), opened')
    BY <1>1, <1>3, <2>2, StartedQueue
  <2> QED
    BY <1>4, <1>5, <2>1, <2>3 DEF StartInv
<1> QED
  <2>1. NodeOpens \/ NodeCloses \/ ShellExits \/ (NodeAttaches /\ shell = 0) =>
           up' \in {up, Append(up, ExitMark)}
    BY DEF NodeOpens, NodeCloses, ShellExits, NodeAttaches
  <2> QED
    BY <1>6, <1>7, <1>8, <2>1 DEF Node

LEMMA DeliverStart == ASSUME Typed, StartInv, Deliver PROVE StartInv'
<1>1. /\ up \in Seq(Item) /\ up # << >> /\ up' = Tail(up) /\ Started(up, opened)
      /\ Head(up) \in Item /\ opened \in Nat /\ opened' = opened /\ replay' = replay
  <2>1. up \in Seq(Relayed) /\ Relayed \subseteq Item
    BY DEF Typed, WireTyped, Relayed, Item
  <2>2. up \in Seq(Item) /\ up # << >>
    BY <2>1 DEF Deliver
  <2> QED
    BY <2>2 DEF Deliver, Typed, ShellTyped, StartInv, shellVars
<1>2. Head(up)[1] <= opened /\ Started(Tail(up), opened) /\ opened <= opened
  BY <1>1, StartedQueue
<1>3. ASSUME NEW t \in Term PROVE Started(recv'[t], opened)
  <2>1. recv[t] \in Seq(Item) /\ Started(recv[t], opened)
    BY DEF Typed, BridgeTyped, StartInv
  <2>2. Started(Append(recv[t], Head(up)), opened)
    BY <1>1, <1>2, <2>1, StartedQueue
  <2>3. recv'[t] = recv[t] \/ recv'[t] = Append(recv[t], Head(up))
    BY Delivered
  <2> QED
    BY <2>1, <2>2, <2>3
<1> QED
  BY <1>1, <1>2, <1>3 DEF StartInv

LEMMA PumpStart == ASSUME BridgeInv, StartInv, NEW t \in Term, Pump(t) PROVE StartInv'
<1>1. /\ UNCHANGED <<wireVars, shellVars>> /\ recv' = [recv EXCEPT ![t] = << >>]
      /\ \A u \in Term \ {t} : replay'[u] = replay[u]
      /\ replay'[t] = << >> \/ replay'[t] = Newest(replay[t] \o Taken(t))
  BY Pumping
<1>2. /\ opened \in Nat /\ opened' = opened /\ up' = up /\ Typed
      /\ recv \in [Term -> Seq(Item)] /\ replay[t] \in Seq(Chunks) /\ Chunks \subseteq Item
  BY <1>1 DEF BridgeInv, Typed, ShellTyped, BridgeTyped, wireVars, shellVars, Item
<1>3. /\ Taken(t) \in Seq(Chunks) /\ Len(Taken(t)) <= Len(recv[t])
      /\ \A i \in 1 .. Len(Taken(t)) : Taken(t)[i] = recv[t][i]
  BY <1>2, TakenChunks
<1>4. Started(Taken(t), opened)
  <2>1. Started(recv[t], opened) /\ Len(recv[t]) \in Nat /\ Len(Taken(t)) \in Nat
    BY <1>2, <1>3 DEF StartInv
  <2> QED
    BY <1>3, <2>1 DEF Started
<1> DEFINE s == replay[t] \o Taken(t)
<1>5. s \in Seq(Chunks) /\ Started(s, opened)
  <2>1. replay[t] \in Seq(Item) /\ Taken(t) \in Seq(Item) /\ Started(replay[t], opened) /\ opened <= opened
    BY <1>2, <1>3 DEF StartInv
  <2>2. Started(s, opened)
    BY <1>2, <1>4, <2>1, StartedQueue
  <2> QED
    BY <1>2, <1>3, <2>2
<1> HIDE DEF s
<1>6. Started(Newest(s), opened)
  <2>1. /\ Newest(s) \in Seq(Chunks) /\ Len(Newest(s)) <= Len(s)
        /\ \A i \in 1 .. Len(Newest(s)) : Newest(s)[i] = s[Len(s) - Len(Newest(s)) + i]
    BY <1>5, NewestChunks
  <2>2. Len(Newest(s)) \in Nat /\ Len(s) \in Nat
    BY <1>5, <2>1
  <2>3. \A i \in 1 .. Len(Newest(s)) : Len(s) - Len(Newest(s)) + i \in 1 .. Len(s)
    BY <2>1, <2>2
  <2> QED
    BY <1>5, <2>1, <2>3 DEF Started
<1>7. Started(<< >>, opened)
  BY DEF Started
<1>8. ASSUME NEW u \in Term PROVE Started(recv'[u], opened) /\ Started(replay'[u], opened)
  <2>1. Started(recv[u], opened) /\ Started(replay[u], opened)
    BY DEF StartInv
  <2>2. recv'[u] = IF u = t THEN << >> ELSE recv[u]
    BY <1>1, <1>2
  <2>3. Started(recv'[u], opened)
    BY <1>7, <2>1, <2>2
  <2>4. Started(replay'[u], opened)
    BY <1>1, <1>6, <1>7, <2>1 DEF s
  <2> QED
    BY <2>3, <2>4
<1> QED
  BY <1>2, <1>8 DEF StartInv

LEMMA NextStart == ASSUME BridgeInv, StartInv, [Next]_vars PROVE StartInv'
<1>1. Typed
  BY DEF BridgeInv
<1>2. ASSUME NEW t \in Term, Close(t), UNCHANGED <<up, shellVars, replay>> PROVE StartInv'
  <2>1. recv \in [Term -> Seq(Item)]
    BY <1>1 DEF Typed, BridgeTyped
  <2>2. /\ recv' = recv \/ \E q \in {Append(recv[t], EndMark), <<EndMark>>} : recv' = [recv EXCEPT ![t] = q]
        /\ opened' = opened /\ up' = up /\ replay' = replay
    BY <1>2 DEF Close, Release, shellVars
  <2>3. \A u \in Term : recv'[u] \in {recv[u], << >>, <<EndMark>>, Append(recv[u], EndMark)}
    BY <2>1, <2>2
  <2> QED
    BY <1>1, <2>2, <2>3, StartKept
<1>3. ASSUME NEW b \in Browser, BrowserStep(b) PROVE StartInv'
  <2>1. CASE Attach(b) \/ Open(b) \/ OpenFails(b) \/ Leave(b) \/ EndBridge(b)
    <3>1. recv' = recv /\ opened' = opened /\ up' = up /\ replay' = replay
      BY <2>1 DEF Attach, Open, OpenFails, Leave, EndBridge, termVars, wireVars, shellVars
    <3> QED
      BY <1>1, <3>1, StartKept
  <2>2. CASE CloseFrame(b)
    <3>1. bterm[b] \in Term
      BY <2>2 DEF CloseFrame, BridgeInv, Watched
    <3> QED
      BY <1>2, <2>2, <3>1 DEF CloseFrame
  <2> QED
    BY <1>3, <2>1, <2>2 DEF BrowserStep
<1>4. CASE Connect \/ Disconnect
  <2>1. /\ up' \in {up, << >>} /\ opened' = opened /\ replay' = replay
        /\ \/ recv' = recv
           \/ recv' = [t \in Term |->
                         IF sconn[t] = cur /\ sess[t] = "open" /\ Len(recv[t]) < OutCap
                         THEN Append(recv[t], EndMark) ELSE recv[t]]
    BY <1>4 DEF Connect, Disconnect, CloseConn, wireVars
  <2>2. \A u \in Term : recv'[u] \in {recv[u], << >>, <<EndMark>>, Append(recv[u], EndMark)}
    BY <2>1
  <2> QED
    BY <1>1, <2>1, <2>2, StartKept
<1>5. CASE CloseUnbridged \/ UNCHANGED vars
  <2>1. recv' = recv /\ opened' = opened /\ up' = up /\ replay' = replay
    BY <1>5 DEF CloseUnbridged, vars, termVars, wireVars, shellVars
  <2> QED
    BY <1>1, <2>1, StartKept
<1>6. ASSUME NEW c \in Conn, Rebind(c) PROVE StartInv'
  <2>1. /\ opened' = opened /\ up' = up /\ replay' = replay
        /\ recv' = recv \/ recv' = [recv EXCEPT ![host] = << >>]
    BY <1>6 DEF Rebind, RebindTerminal, AttachSession, shellVars
  <2>2. \A u \in Term : recv'[u] \in {recv[u], << >>, <<EndMark>>, Append(recv[u], EndMark)}
    BY <1>1, <2>1 DEF Typed, BridgeTyped
  <2> QED
    BY <1>1, <2>1, <2>2, StartKept
<1>7. CASE Delete \/ Reap
  <2>1. host \in Term /\ Close(host) /\ UNCHANGED <<up, shellVars, replay>>
    BY <1>1, <1>7 DEF Delete, Reap, Typed, BridgeTyped
  <2> QED
    BY <1>2, <2>1
<1> QED
  BY <1>1, <1>3, <1>4, <1>5, <1>6, <1>7, NodeStart, DeliverStart, PumpStart DEF Next

\* Every reachable state is well typed: no queue and no replay buffer exceeds its
\* capacity, and the node starts no more shells than bridges were opened.
THEOREM TerminalsTypeCorrect == Spec => []TypeOK
<1> DEFINE CountInv == BridgeInv /\ OrderInv /\ StartInv
<1>1. Init => CountInv
  <2> SUFFICES ASSUME Init PROVE OrderInv /\ StartInv
    BY InitBridges
  <2>1. Buffer \in Nat /\ MaxTerm \in Nat
    BY HostTerminalsAssumption
  <2>2. MadeTo(0)
    BY <2>1 DEF Init, MadeTo, Term
  <2>3. [j \in 1 .. Buffer |-> 0] \in [1 .. Buffer -> 0 .. MaxTerm]
    BY <2>1
  <2>4. Orders([j \in 1 .. Buffer |-> 0], 0)
    BY DEF Init, Orders
  <2>5. StartInv
    BY DEF Init, StartInv, Started
  <2> QED
    BY <2>1, <2>2, <2>3, <2>4, <2>5 DEF OrderInv
<1>2. CountInv /\ [Next]_vars => CountInv'
  BY NextBridges, NextOrders, NextStart
<1>3. ASSUME CountInv PROVE TypeOK
  <2>1. /\ NetTyped /\ WireTyped /\ ShellTyped /\ BridgeTyped /\ BrowserTyped
        /\ MaxTerm \in Nat /\ MaxOut \in Nat
    BY <1>3, HostTerminalsAssumption DEF BridgeInv, Typed
  <2>2. opened \in 0 .. MaxTerm
    BY <1>3, <2>1 DEF OrderInv, Orders, ShellTyped
  <2>3. \A S : \A q \in Seq(Chunks \cup S) : Started(q, opened) => q \in Seq(Chunk \cup S)
    <3>1. \A x \in Chunks : x[1] <= opened => x \in Chunk
      BY <2>1, <2>2 DEF Chunks, Chunk
    <3>2. ASSUME NEW S, NEW q \in Seq(Chunks \cup S), Started(q, opened)
          PROVE  q \in Seq(Chunk \cup S)
      <4>1. \A i \in 1 .. Len(q) : q[i] \in Chunk \cup S
        BY <3>1, <3>2 DEF Started
      <4> QED
        BY <4>1
    <3> QED
      BY <3>2
  <2>4. up \in Seq(Chunk \cup {ExitMark})
    BY <1>3, <2>1, <2>3 DEF WireTyped, Relayed, StartInv
  <2>5. recv \in [Term -> Seq(Chunk \cup {EndMark, ExitMark})]
    <3>1. \A t \in Term : recv[t] \in Seq(Chunks \cup {EndMark, ExitMark}) /\ Started(recv[t], opened)
      BY <1>3, <2>1 DEF BridgeTyped, Item, StartInv
    <3>2. \A t \in Term : recv[t] \in Seq(Chunk \cup {EndMark, ExitMark})
      BY <2>3, <3>1
    <3> QED
      BY <2>1, <3>2 DEF BridgeTyped
  <2>6. replay \in [Term -> Seq(Chunk)]
    <3>1. \A t \in Term : replay[t] \in Seq(Chunks \cup {}) /\ Started(replay[t], opened)
      BY <1>3, <2>1 DEF BridgeTyped, StartInv
    <3>2. \A t \in Term : replay[t] \in Seq(Chunk \cup {})
      BY <2>3, <3>1
    <3> QED
      BY <2>1, <3>2 DEF BridgeTyped
  <2>7. sconn \in [Term -> {0} \cup Conn]
    BY <2>1, HostTerminalsAssumption DEF BridgeTyped, Conn
  <2>8. down \in Seq({<<"open">>, <<"close">>} \cup {"attach"} \X (0 .. MaxOut)) /\ Len(down) <= Buffer
    BY <2>1 DEF WireTyped, Frame
  <2>9. /\ shell \in {0, opened} /\ printed \in 0 .. MaxOut /\ relayed \in BOOLEAN
        /\ made \in 0 .. MaxConn /\ cur \in {0, made} /\ greeting \subseteq 1 .. made
        /\ unsent \subseteq Term /\ lossy \subseteq Term
    BY <2>1 DEF NetTyped, ShellTyped, Relays
  <2> QED
    BY <2>1, <2>2, <2>4, <2>5, <2>6, <2>7, <2>8, <2>9 DEF BridgeTyped, BrowserTyped, TypeOK
<1> QED
  BY <1>1, <1>2, <1>3, PTL DEF Spec
================================================================================

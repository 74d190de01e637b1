-------------------------- MODULE NodeConfigProofs --------------------------
(***************************************************************************)
(* Proofs about NodeConfig, for any set of updates, any buffer and any     *)
(* number of registrations, and, below, about TerminalCommands, which      *)
(* shares no name with it.  RunsWhatWasStored is not inductive: what the   *)
(* node will run is already on its way in the queue, in the handler's hand *)
(* or in an update's, so the invariant says of each that it is genuine.    *)
(* For SettledIsLedger the last revision is followed the same way: from    *)
(* the row, over an update's or the handler's hand, to the node.           *)
(***************************************************************************)
EXTENDS NodeConfig, TerminalCommands, FiniteSetTheorems, TLAPS

\* A configuration of family f that rows S have held under its revision; or an
\* earlier binding at a revision of m, which overlapping updates mixed; or direct
\* at a revision of d, which a snapshot degraded.
Genuine(S, m, d, f, c) ==
    /\ c.rev <= Len(S[f])
    /\ c.rev > 0 =>
         \/ c.val = S[f][c.rev]
         \/ f = "proxy" /\ c.rev \in m /\ \E k \in 1 .. c.rev - 1 : c.val = S[f][k]
         \/ f = "proxy" /\ c.rev \in d /\ c.val = Seed

\* What an update committed is one of the contents its row has had.
CommittedStored ==
    \A u \in Updates : pc[u] = "committed" =>
        \E k \in 1 .. Len(stored[of[u]]) : stored[of[u]][k] = u

\* What an update will push, what the handler will send, what is on its way and
\* what the node runs.
NotesGenuine ==
    \A u \in Updates : pc[u] = "read" => Genuine(stored, mixed, degraded, of[u], note[u])
HeldGenuine ==
    /\ greet = "sendLookup" => Genuine(stored, mixed, degraded, "lookup", held)
    /\ greet \in {"resolveProxy", "sendProxy"} => Genuine(stored, mixed, degraded, "proxy", held)
QueueGenuine ==
    \A i \in 1 .. Len(queue) : Genuine(stored, mixed, degraded, queue[i].of, queue[i])
AppliedGenuine == \A f \in Families : Genuine(stored, mixed, degraded, f, applied[f])

ConfigInv ==
    /\ TypeOK /\ CommittedStored
    /\ NotesGenuine /\ HeldGenuine /\ QueueGenuine /\ AppliedGenuine

\* The last revision of a family is on its way in the queue, in the hand of an
\* update that committed, or of the handler, which may have it still to read.
Queued(f) == \E i \in 1 .. Len(queue) : queue[i].of = f /\ queue[i].rev = Revision(f)
Carried(f) ==
    \E u \in Updates :
        /\ of[u] = f
        /\ pc[u] = "committed" \/ (pc[u] = "read" /\ note[u].rev = Revision(f))
Greeted(f) ==
    \/ greet = "readLookup"
    \/ f = "lookup" /\ greet = "sendLookup" /\ held.rev = Revision(f)
    \/ f = "proxy" /\ greet \in {"sendLookup", "readProxy"}
    \/ f = "proxy" /\ greet \in {"resolveProxy", "sendProxy"} /\ held.rev = Revision(f)

\* A connected node gets to the last revision, unless its connection was not sent it.
Unsent(f, n) == [of |-> f, rev |-> n] \in missed
Reaching(f) ==
    live => \/ Revision(f) <= applied[f].rev
            \/ Unsent(f, Revision(f))
            \/ Queued(f) \/ Carried(f) \/ Greeted(f)

\* A node that runs no revision runs nothing.
Blank(f) == applied[f].rev = 0 => applied[f] = Unread

ReachInv == \A f \in Families : Reaching(f) /\ Blank(f)

Frames == [of : Families, rev : Nat, val : Contents]

----------------------------------------------------------------------------
\* A row that is read has its type and is genuine.
LEMMA RowGenuine ==
    ASSUME TypeOK, NEW f \in Families
    PROVE  Row(f) \in Configuration /\ Genuine(stored, mixed, degraded, f, Row(f))
<1>1. stored[f] \in Seq(Contents) /\ Revision(f) \in Nat
  BY DEF TypeOK, Revision
<1>2. Content(f) \in Contents
  <2>1. CASE stored[f] = << >>
    BY <2>1 DEF Content, Contents
  <2>2. CASE stored[f] # << >>
    BY <1>1, <2>2 DEF Content, Revision
  <2> QED
    BY <2>1, <2>2
<1>3. Revision(f) > 0 => Content(f) = stored[f][Revision(f)]
  BY <1>1 DEF Content, Revision
<1> QED
  BY <1>1, <1>2, <1>3 DEF Row, Configuration, Genuine, Revision

\* What is genuine stays so while a row only grows and no mixture is forgotten.
LEMMA GenuineStays ==
    ASSUME NEW S, NEW T, NEW m, NEW n, NEW d, NEW e, NEW f, NEW c,
           S[f] \in Seq(Contents), c.rev \in Nat, Genuine(S, m, d, f, c),
           m \subseteq n, d \subseteq e,
           T[f] = S[f] \/ \E u \in Updates : T[f] = Append(S[f], u)
    PROVE  Genuine(T, n, e, f, c)
<1>1. CASE T[f] = S[f]
  BY <1>1 DEF Genuine
<1>2. CASE \E u \in Updates : T[f] = Append(S[f], u)
  <2>1. PICK u \in Updates : T[f] = Append(S[f], u)
    BY <1>2
  <2>2. u \in Contents
    BY DEF Contents
  <2>3. Len(T[f]) = Len(S[f]) + 1 /\ Len(S[f]) \in Nat
    BY <2>1, <2>2
  <2>4. \A k \in 1 .. Len(S[f]) : T[f][k] = S[f][k]
    BY <2>1, <2>2
  <2> QED
    BY <2>3, <2>4 DEF Genuine
<1> QED
  BY <1>1, <1>2

\* What a row has held it has held for good.
LEMMA StoredStays ==
    ASSUME TypeOK, NEW f \in Families, NEW u,
           \E k \in 1 .. Len(stored[f]) : stored[f][k] = u,
           stored'[f] = stored[f] \/ \E v \in Updates : stored'[f] = Append(stored[f], v)
    PROVE  \E k \in 1 .. Len(stored'[f]) : stored'[f][k] = u
<1>1. CASE stored'[f] = stored[f]
  BY <1>1
<1>2. CASE \E v \in Updates : stored'[f] = Append(stored[f], v)
  <2>1. PICK v \in Updates : stored'[f] = Append(stored[f], v)
    BY <1>2
  <2>2. v \in Contents /\ stored[f] \in Seq(Contents)
    BY DEF Contents, TypeOK
  <2>3. /\ Len(stored'[f]) = Len(stored[f]) + 1 /\ Len(stored[f]) \in Nat
        /\ \A k \in 1 .. Len(stored[f]) : stored'[f][k] = stored[f][k]
    BY <2>1, <2>2
  <2> QED
    BY <2>3
<1> QED
  BY <1>1, <1>2

\* The frames on their way, with their type.
LEMMA QueueOfFrames ==
    ASSUME TypeOK
    PROVE  queue \in Seq(Frames) /\ \A i \in 1 .. Len(queue) : queue[i] \in Frames
<1>1. queue \in Seq(Frames)
  BY DEF TypeOK, Frames
<1> HIDE DEF Frames
<1> QED
  BY <1>1

\* Connection.send keeps the queue's type, its bound and what is in it.
LEMMA SendKeeps ==
    ASSUME TypeOK, QueueGenuine, NEW f \in Families, NEW c \in Configuration,
           Genuine(stored, mixed, degraded, f, c), Send(f, c), UNCHANGED <<stored, mixed, degraded>>
    PROVE  /\ queue' \in Seq(Frames) /\ Len(queue') <= Buffer
           /\ missed' \subseteq [of : Families, rev : Nat]
           /\ QueueGenuine'
<1>1. queue \in Seq(Frames) /\ Len(queue) <= Buffer /\ missed \subseteq [of : Families, rev : Nat]
  BY DEF TypeOK, Frames
<1>2. CASE UNCHANGED queue /\ Miss(f, c.rev)
  BY <1>1, <1>2 DEF Miss, Configuration, QueueGenuine
<1>3. CASE /\ Len(queue) < Buffer /\ UNCHANGED missed
           /\ queue' = Append(queue, [of |-> f, rev |-> c.rev, val |-> c.val])
  <2> DEFINE frame == [of |-> f, rev |-> c.rev, val |-> c.val]
  <2>1. frame \in Frames
    BY DEF Frames, Configuration
  <2>2. Genuine(stored, mixed, degraded, frame.of, frame)
    BY DEF Genuine
  <2> HIDE DEF frame
  <2>3. queue' = Append(queue, frame)
    BY <1>3 DEF frame
  <2>4. /\ queue' \in Seq(Frames) /\ Len(queue') = Len(queue) + 1 /\ Len(queue) \in Nat
        /\ \A i \in 1 .. Len(queue) : queue'[i] = queue[i]
        /\ queue'[Len(queue) + 1] = frame
    BY <1>1, <2>1, <2>3
  <2>5. Len(queue') <= Buffer
    BY <1>3, <2>4, NodeConfigAssumption
  <2>6. QueueGenuine'
    <3>1. SUFFICES ASSUME NEW i \in 1 .. Len(queue')
                   PROVE  Genuine(stored, mixed, degraded, queue'[i].of, queue'[i])
      BY DEF QueueGenuine
    <3>2. i \in 1 .. Len(queue) \/ i = Len(queue) + 1
      BY <2>4
    <3> QED
      BY <2>2, <2>4, <3>2 DEF QueueGenuine
  <2> QED
    BY <1>1, <1>3, <2>4, <2>5, <2>6
<1> QED
  BY <1>2, <1>3 DEF Send

----------------------------------------------------------------------------
\* The initial state: nothing is under way, and the node runs nothing.
LEMMA InitConfig == Init => ConfigInv
<1> SUFFICES ASSUME Init PROVE ConfigInv
  OBVIOUS
<1>1. Seed \in Contents
  BY DEF Contents
<1>2. Unread \in Configuration /\ \A f \in Families : Genuine(stored, mixed, degraded, f, Unread)
  <2>1. \A f \in Families : Len(stored[f]) \in Nat
    BY <1>1 DEF Init, Families
  <2> QED
    BY <1>1, <2>1 DEF Unread, Configuration, Genuine
<1>3. stored \in [Families -> Seq(Contents)]
  BY <1>1 DEF Init, Families
<1>4. TypeOK
  <2>1. queue \in Seq(Frames) /\ Len(queue) <= Buffer
    BY NodeConfigAssumption DEF Init
  <2>2. /\ pc \in [Updates -> Phases]
        /\ note \in [Updates -> Configuration]
        /\ applied \in [Families -> Configuration]
    BY <1>2 DEF Init, Phases
  <2>3. made \in 0 .. MaxConns /\ greet \in Greetings
    BY NodeConfigAssumption DEF Init, Greetings
  <2>4. /\ of \in [Updates -> Families] /\ held \in Configuration
        /\ mixed \subseteq Nat /\ degraded \subseteq Nat /\ missed \subseteq [of : Families, rev : Nat] /\ live \in BOOLEAN
    BY <1>2, Zenon DEF Init
  <2> QED
    BY <1>3, <2>1, <2>2, <2>3, <2>4 DEF TypeOK, Frames
<1> QED
  BY <1>2, <1>4 DEF Init, ConfigInv, CommittedStored, NotesGenuine, HeldGenuine, QueueGenuine, AppliedGenuine

----------------------------------------------------------------------------
\* A validated update, or one that is rejected.
LEMMA ResolveKeeps ==
    ASSUME ConfigInv, NEW u \in Updates, Resolve(u) PROVE ConfigInv'
<1>1. /\ pc' \in [Updates -> Phases]
      /\ \A v \in Updates : pc'[v] \in {"committed", "read"} => pc'[v] = pc[v]
  BY DEF ConfigInv, TypeOK, Resolve, Phases
<1> QED
  BY <1>1 DEF ConfigInv, TypeOK, Resolve, connVars, CommittedStored, NotesGenuine, HeldGenuine,
              QueueGenuine, AppliedGenuine

\* What is on its way and what the node runs stay genuine while rows only grow.
LEMMA GrowthKeeps ==
    ASSUME TypeOK, QueueGenuine, AppliedGenuine, HeldGenuine,
           UNCHANGED <<greet, held, queue, applied>>, mixed \subseteq mixed', degraded \subseteq degraded',
           \A f \in Families :
              stored'[f] = stored[f] \/ \E v \in Updates : stored'[f] = Append(stored[f], v)
    PROVE  /\ QueueGenuine' /\ AppliedGenuine' /\ HeldGenuine'
           /\ \A f \in Families, c \in Configuration :
                 Genuine(stored, mixed, degraded, f, c) => Genuine(stored', mixed', degraded', f, c)
<1>1. ASSUME NEW f \in Families, NEW c, c.rev \in Nat, Genuine(stored, mixed, degraded, f, c)
      PROVE  Genuine(stored', mixed', degraded', f, c)
  <2>1. stored[f] \in Seq(Contents)
    BY DEF TypeOK
  <2> QED
    BY <1>1, <2>1, GenuineStays
<1>2. HeldGenuine'
  BY <1>1 DEF HeldGenuine, TypeOK, Configuration, Families
<1>3. QueueGenuine'
  <2>1. SUFFICES ASSUME NEW i \in 1 .. Len(queue)
                 PROVE  Genuine(stored', mixed', degraded', queue[i].of, queue[i])
    BY DEF QueueGenuine
  <2>2. queue[i].of \in Families /\ queue[i].rev \in Nat
    BY QueueOfFrames DEF Frames
  <2> QED
    BY <1>1, <2>2 DEF QueueGenuine
<1>4. AppliedGenuine'
  BY <1>1 DEF AppliedGenuine, TypeOK, Configuration
<1>5. \A f \in Families, c \in Configuration :
         Genuine(stored, mixed, degraded, f, c) => Genuine(stored', mixed', degraded', f, c)
  BY <1>1 DEF Configuration
<1> QED
  BY <1>2, <1>3, <1>4, <1>5

\* The transaction: one row grows, and everything genuine before still is.
LEMMA CommitKeeps ==
    ASSUME ConfigInv, NEW u \in Updates, Commit(u) PROVE ConfigInv'
<1> USE DEF ConfigInv
<1>1. UNCHANGED <<of, note, mixed, degraded, live, made, greet, held, queue, missed, applied>>
  BY DEF Commit, connVars
<1>2. pc' \in [Updates -> Phases] /\ \A v \in Updates : pc'[v] = "read" => pc[v] = "read"
  BY DEF TypeOK, Commit, Phases
<1>3. /\ stored' \in [Families -> Seq(Contents)]
      /\ \A f \in Families :
            stored'[f] = stored[f] \/ \E v \in Updates : stored'[f] = Append(stored[f], v)
  <2>1. CASE stored' = [stored EXCEPT ![of[u]] = Append(@, u)]
    <3>1. of[u] \in Families /\ u \in Contents /\ stored \in [Families -> Seq(Contents)]
      BY DEF TypeOK, Contents
    <3>2. Append(stored[of[u]], u) \in Seq(Contents)
      BY <3>1
    <3> QED
      BY <2>1, <3>1, <3>2
  <2>2. CASE UNCHANGED stored
    BY <2>2 DEF TypeOK
  <2> QED
    BY <2>1, <2>2 DEF Commit
<1>4. /\ QueueGenuine' /\ AppliedGenuine' /\ HeldGenuine'
      /\ \A f \in Families, c \in Configuration :
            Genuine(stored, mixed, degraded, f, c) => Genuine(stored', mixed', degraded', f, c)
  BY <1>1, <1>3, GrowthKeeps
<1>5. TypeOK'
  BY <1>1, <1>2, <1>3 DEF TypeOK
<1>6. NotesGenuine'
  BY <1>1, <1>2, <1>4 DEF NotesGenuine, TypeOK
<1>7. CommittedStored'
  <2>1. SUFFICES ASSUME NEW v \in Updates, pc'[v] = "committed"
                 PROVE  \E k \in 1 .. Len(stored'[of[v]]) : stored'[of[v]][k] = v
    BY <1>1 DEF CommittedStored
  <2>2. of[v] \in Families /\ stored[of[v]] \in Seq(Contents) /\ u \in Contents
    BY DEF TypeOK, Contents
  <2>3. CASE v = u
    <3>1. stored'[of[u]] = Append(stored[of[u]], u)
      BY <2>1, <2>2, <2>3 DEF Commit, TypeOK
    <3>2. /\ Len(stored'[of[u]]) = Len(stored[of[u]]) + 1 /\ Len(stored[of[u]]) \in Nat
          /\ stored'[of[u]][Len(stored[of[u]]) + 1] = u
      BY <2>2, <2>3, <3>1
    <3> QED
      BY <2>3, <3>2
  <2>4. CASE v # u
    <3>1. pc[v] = "committed"
      BY <2>1, <2>4 DEF Commit, TypeOK
    <3> QED
      BY <1>3, <2>2, <3>1, StoredStays DEF CommittedStored
  <2> QED
    BY <2>3, <2>4
<1> QED
  BY <1>4, <1>5, <1>6, <1>7

\* The row read back: its revision was stored with the content it holds, and a
\* binding that takes it for another content leaves the revision mixed.
LEMMA ReadBackKeeps ==
    ASSUME ConfigInv, NEW u \in Updates, ReadBack(u) PROVE ConfigInv'
<1> USE DEF ConfigInv
<1>1. UNCHANGED <<of, degraded, stored, live, made, greet, held, queue, missed, applied>>
  BY DEF ReadBack, connVars
<1>2. /\ pc' \in [Updates -> Phases] /\ pc[u] = "committed" /\ pc'[u] = "read"
      /\ \A v \in Updates : v # u => pc'[v] = pc[v]
  BY DEF TypeOK, ReadBack, Phases
<1>3. of[u] \in Families /\ u \in Contents
  BY DEF TypeOK, Contents
<1>4. mixed \subseteq mixed' /\ mixed' \subseteq Nat
  <2>1. Revision("proxy") \in Nat
    BY DEF TypeOK, Revision, Families
  <2> QED
    BY <2>1 DEF ReadBack, TypeOK
<1>5. /\ QueueGenuine' /\ AppliedGenuine' /\ HeldGenuine'
      /\ \A f \in Families, c \in Configuration :
            Genuine(stored, mixed, degraded, f, c) => Genuine(stored, mixed', degraded, f, c)
  BY <1>1, <1>4, GrowthKeeps
<1>6. /\ note' \in [Updates -> Configuration]
      /\ \A v \in Updates : v # u => note'[v] = note[v]
      /\ Genuine(stored, mixed', degraded, of[u], note'[u])
  <2>1. CASE of[u] = "lookup"
    <3>1. note' = [note EXCEPT ![u] = Row("lookup")]
      BY <2>1 DEF ReadBack
    <3>2. Row("lookup") \in Configuration /\ Genuine(stored, mixed, degraded, "lookup", Row("lookup"))
      BY RowGenuine DEF Families
    <3>3. Genuine(stored, mixed', degraded, "lookup", Row("lookup"))
      BY <1>5, <3>2 DEF Families
    <3> QED
      BY <2>1, <3>1, <3>2, <3>3 DEF TypeOK
  <2>2. CASE of[u] = "proxy"
    <3> DEFINE asked == [Row("proxy") EXCEPT !.val = u]
    <3>1. note' = [note EXCEPT ![u] = asked]
      BY <2>2 DEF ReadBack
    <3>2. Revision("proxy") \in Nat /\ asked = [rev |-> Revision("proxy"), val |-> u]
      BY DEF TypeOK, Revision, Families, Row
    <3>3. asked \in Configuration
      BY <1>3, <3>2 DEF Configuration
    <3>4. Genuine(stored, mixed', degraded, "proxy", asked)
      <4>1. CASE Content("proxy") = u
        BY <3>2, <4>1 DEF Genuine, Content, Revision
      <4>2. CASE Content("proxy") # u
        <5>1. PICK k \in 1 .. Len(stored["proxy"]) : stored["proxy"][k] = u
          BY <1>2, <2>2 DEF CommittedStored
        <5>2. k # Revision("proxy")
          BY <3>2, <4>2, <5>1 DEF Content, Revision
        <5>3. k \in 1 .. Revision("proxy") - 1
          BY <3>2, <5>1, <5>2 DEF Revision
        <5> QED
          BY <2>2, <3>2, <4>2, <5>1, <5>3 DEF Genuine, Revision, ReadBack
      <4> QED
        BY <4>1, <4>2
    <3> HIDE DEF asked
    <3> QED
      BY <2>2, <3>1, <3>3, <3>4 DEF TypeOK
  <2> QED
    BY <1>3, <2>1, <2>2 DEF Families
<1>7. TypeOK'
  BY <1>1, <1>2, <1>4, <1>6 DEF TypeOK
<1>8. NotesGenuine'
  <2>1. ASSUME NEW v \in Updates, v # u, pc'[v] = "read"
        PROVE  Genuine(stored, mixed', degraded, of[v], note'[v])
    BY <1>2, <1>5, <1>6, <2>1 DEF NotesGenuine, TypeOK
  <2> QED
    BY <1>1, <1>6, <2>1 DEF NotesGenuine
<1>9. CommittedStored'
  BY <1>1, <1>2 DEF CommittedStored
<1> QED
  BY <1>5, <1>7, <1>8, <1>9

\* An update that cannot read its row back ends.
LEMMA ReadBackFailsKeeps ==
    ASSUME ConfigInv, NEW u \in Updates, ReadBackFails(u) PROVE ConfigInv'
<1> USE DEF ConfigInv
<1>1. UNCHANGED <<of, note, mixed, degraded, stored, live, made, greet, held, queue, applied>>
  BY DEF ReadBackFails
<1>2. /\ pc' \in [Updates -> Phases]
      /\ \A v \in Updates : pc'[v] \in {"committed", "read"} => pc'[v] = pc[v]
  BY DEF TypeOK, ReadBackFails, Phases
<1>3. missed' \subseteq [of : Families, rev : Nat]
  <2>1. of[u] \in Families /\ Revision(of[u]) \in Nat
    BY DEF TypeOK, Revision
  <2> QED
    BY <2>1 DEF TypeOK, ReadBackFails, Miss
<1>4. TypeOK'
  BY <1>1, <1>2, <1>3 DEF TypeOK
<1> QED
  BY <1>1, <1>2, <1>4 DEF CommittedStored, NotesGenuine, HeldGenuine, QueueGenuine, AppliedGenuine

----------------------------------------------------------------------------
\* What an update read back goes into the queue, is refused by it, or is left to
\* the next reconnect when no connection is found.
LEMMA PushKeeps ==
    ASSUME ConfigInv, NEW u \in Updates, Push(u) PROVE ConfigInv'
<1> USE DEF ConfigInv
<1>1. UNCHANGED <<of, stored, mixed, degraded, live, made, greet, held, applied>>
  BY DEF Push
<1>2. /\ pc' \in [Updates -> Phases] /\ pc[u] = "read"
      /\ \A v \in Updates : pc'[v] \in {"committed", "read"} => pc'[v] = pc[v] /\ v # u
  BY DEF TypeOK, Push, Phases
<1>3. /\ note' \in [Updates -> Configuration]
      /\ \A v \in Updates : v # u => note'[v] = note[v]
  <2>1. Unread \in Configuration
    BY DEF Unread, Configuration, Contents
  <2> QED
    BY <2>1 DEF TypeOK, Push
<1>4. /\ queue' \in Seq(Frames) /\ Len(queue') <= Buffer
      /\ missed' \subseteq [of : Families, rev : Nat] /\ QueueGenuine'
  <2>1. CASE Send(of[u], note[u])
    <3>1. of[u] \in Families /\ note[u] \in Configuration
      BY DEF TypeOK
    <3>2. Genuine(stored, mixed, degraded, of[u], note[u])
      BY <1>2 DEF NotesGenuine
    <3> QED
      BY <1>1, <2>1, <3>1, <3>2, SendKeeps
  <2>2. CASE UNCHANGED <<queue, missed>>
    BY <1>1, <2>2 DEF TypeOK, Frames, QueueGenuine
  <2> QED
    BY <2>1, <2>2 DEF Push
<1>5. TypeOK'
  BY <1>1, <1>2, <1>3, <1>4 DEF TypeOK, Frames
<1>6. CommittedStored' /\ NotesGenuine' /\ HeldGenuine' /\ AppliedGenuine'
  BY <1>1, <1>2, <1>3 DEF CommittedStored, NotesGenuine, HeldGenuine, AppliedGenuine
<1> QED
  BY <1>4, <1>5, <1>6

----------------------------------------------------------------------------
\* A registration or the end of one empties the queue and the handler's hand.
LEMMA ConnectionKeeps ==
    ASSUME ConfigInv, Connect \/ Disconnect PROVE ConfigInv'
<1> USE DEF ConfigInv
<1>1. /\ UNCHANGED <<of, pc, note, mixed, degraded, stored, applied>>
      /\ held' = Unread /\ queue' = << >> /\ missed' = {}
      /\ greet' \in {"none", "readLookup"}
  BY DEF Connect, Connected, Disconnect, updateVars
<1>2. live' \in BOOLEAN
  BY Zenon DEF Connect, Connected, Disconnect
<1>3. made' \in 0 .. MaxConns
  BY NodeConfigAssumption DEF Connect, Connected, Disconnect, TypeOK
<1>4. Unread \in Configuration
  BY DEF Unread, Configuration, Contents
<1>5. queue' \in Seq(Frames) /\ Len(queue') <= Buffer /\ QueueGenuine'
  BY <1>1, NodeConfigAssumption DEF QueueGenuine
<1>6. TypeOK'
  BY <1>1, <1>2, <1>3, <1>4, <1>5 DEF TypeOK, Frames, Greetings
<1>7. CommittedStored' /\ NotesGenuine' /\ HeldGenuine' /\ AppliedGenuine'
  BY <1>1 DEF CommittedStored, NotesGenuine, HeldGenuine, AppliedGenuine
<1> QED
  BY <1>5, <1>6, <1>7

\* The handler takes the row it is about to send, or goes on without it.
LEMMA GreetReadKeeps ==
    ASSUME ConfigInv, LookupConfigFrame \/ ProxyConfigFrame PROVE ConfigInv'
<1> USE DEF ConfigInv
<1>1. /\ UNCHANGED <<of, pc, note, mixed, degraded, stored, live, made, queue, applied>>
      /\ greet' \in Greetings
  BY DEF LookupConfigFrame, ProxyConfigFrame, GreetRead, GreetReadFails, updateVars, Greetings
<1>2. /\ held' \in Configuration /\ missed' \subseteq [of : Families, rev : Nat]
      /\ HeldGenuine'
  <2>1. ASSUME NEW f \in Families, held' = Row(f), UNCHANGED missed,
               greet' = IF f = "lookup" THEN "sendLookup" ELSE "resolveProxy"
        PROVE  /\ held' \in Configuration /\ missed' \subseteq [of : Families, rev : Nat]
               /\ HeldGenuine'
    <3>1. held' \in Configuration /\ Genuine(stored, mixed, degraded, f, held')
      BY <2>1, RowGenuine
    <3> QED
      BY <1>1, <2>1, <3>1 DEF HeldGenuine, TypeOK, Families
  <2>2. ASSUME NEW f \in Families, Miss(f, Revision(f)), UNCHANGED held,
               greet' \in {"readProxy", "done"}
        PROVE  /\ held' \in Configuration /\ missed' \subseteq [of : Families, rev : Nat]
               /\ HeldGenuine'
    <3>1. Revision(f) \in Nat
      BY DEF TypeOK, Revision
    <3> QED
      BY <2>2, <3>1 DEF HeldGenuine, TypeOK, Miss
  <2>3. "lookup" \in Families /\ "proxy" \in Families
    BY DEF Families
  <2> QED
    BY <2>1, <2>2, <2>3 DEF LookupConfigFrame, ProxyConfigFrame, GreetRead, GreetReadFails
<1>3. TypeOK'
  BY <1>1, <1>2 DEF TypeOK
<1>4. CommittedStored' /\ NotesGenuine' /\ QueueGenuine' /\ AppliedGenuine'
  BY <1>1 DEF CommittedStored, NotesGenuine, QueueGenuine, AppliedGenuine
<1> QED
  BY <1>2, <1>3, <1>4

\* The pool resolves the binding the handler holds, or the handler holds direct
\* at a revision that is degraded from now on.
LEMMA ResolveSafeKeeps ==
    ASSUME ConfigInv, ResolveSafe PROVE ConfigInv'
<1> USE DEF ConfigInv
<1>1. /\ UNCHANGED <<of, pc, note, mixed, stored, live, made, queue, missed, applied>>
      /\ greet = "resolveProxy" /\ greet' = "sendProxy"
  BY DEF ResolveSafe
<1>2. held \in Configuration /\ Genuine(stored, mixed, degraded, "proxy", held)
  BY <1>1 DEF TypeOK, HeldGenuine
<1>3. /\ held' \in Configuration /\ held'.rev = held.rev
      /\ degraded \subseteq degraded' /\ degraded' \subseteq Nat
      /\ held' = held \/ (held'.val = Seed /\ held.rev \in degraded')
  <2>1. CASE UNCHANGED <<held, degraded>>
    BY <1>2, <2>1 DEF TypeOK
  <2>2. CASE held' = [held EXCEPT !.val = Seed] /\ degraded' = degraded \cup {held.rev}
    BY <1>2, <2>2 DEF TypeOK, Configuration, Contents
  <2> QED
    BY <2>1, <2>2 DEF ResolveSafe
<1>4. ASSUME NEW f \in Families, NEW c, c.rev \in Nat, Genuine(stored, mixed, degraded, f, c)
      PROVE  Genuine(stored, mixed, degraded', f, c)
  BY <1>3, <1>4 DEF Genuine
<1>5. HeldGenuine'
  <2>1. Genuine(stored, mixed, degraded', "proxy", held')
    BY <1>2, <1>3 DEF Genuine
  <2> QED
    BY <1>1, <2>1 DEF HeldGenuine
<1>6. QueueGenuine'
  <2>1. SUFFICES ASSUME NEW i \in 1 .. Len(queue)
                 PROVE  Genuine(stored, mixed, degraded', queue[i].of, queue[i])
    BY <1>1 DEF QueueGenuine
  <2>2. queue[i].of \in Families /\ queue[i].rev \in Nat
    BY QueueOfFrames DEF Frames
  <2> QED
    BY <1>4, <2>2 DEF QueueGenuine
<1>7. AppliedGenuine' /\ NotesGenuine' /\ CommittedStored'
  BY <1>1, <1>4 DEF AppliedGenuine, NotesGenuine, CommittedStored, TypeOK, Configuration
<1>8. TypeOK'
  BY <1>1, <1>3 DEF TypeOK, Greetings
<1> QED
  BY <1>5, <1>6, <1>7, <1>8

\* The handler sends the row it took.
LEMMA GreetSendKeeps ==
    ASSUME ConfigInv, SendLookupConfig \/ SendProxyConfig PROVE ConfigInv'
<1> USE DEF ConfigInv
<1>1. UNCHANGED <<of, pc, note, mixed, degraded, stored, live, made, applied>> /\ held' = Unread
  BY DEF SendLookupConfig, SendProxyConfig, GreetSend, updateVars
<1>2. greet' \in {"readProxy", "done"}
  BY DEF SendLookupConfig, SendProxyConfig, GreetSend
<1>3. PICK f \in Families : Send(f, held) /\ Genuine(stored, mixed, degraded, f, held)
  BY DEF SendLookupConfig, SendProxyConfig, GreetSend, HeldGenuine, Families
<1>4. /\ queue' \in Seq(Frames) /\ Len(queue') <= Buffer
      /\ missed' \subseteq [of : Families, rev : Nat] /\ QueueGenuine'
  <2>1. held \in Configuration
    BY DEF TypeOK
  <2> QED
    BY <1>1, <1>3, <2>1, SendKeeps
<1>5. Unread \in Configuration
  BY DEF Unread, Configuration, Contents
<1>6. TypeOK'
  BY <1>1, <1>2, <1>4, <1>5 DEF TypeOK, Frames, Greetings
<1>7. CommittedStored' /\ NotesGenuine' /\ HeldGenuine' /\ AppliedGenuine'
  BY <1>1, <1>2 DEF CommittedStored, NotesGenuine, HeldGenuine, AppliedGenuine
<1> QED
  BY <1>4, <1>6, <1>7

\* The node takes the first frame, and runs it when its revision is above.
LEMMA NodeReceivesKeeps ==
    ASSUME ConfigInv, NodeReceives PROVE ConfigInv'
<1> USE DEF ConfigInv
<1>1. UNCHANGED <<of, pc, note, mixed, degraded, stored, live, made, greet, held, missed>>
  BY DEF NodeReceives, updateVars
<1>2. /\ queue # << >> /\ queue' = Tail(queue)
      /\ queue \in Seq(Frames) /\ \A i \in 1 .. Len(queue) : queue[i] \in Frames
  BY QueueOfFrames DEF NodeReceives
<1>3. /\ queue' \in Seq(Frames) /\ Len(queue') = Len(queue) - 1 /\ Len(queue) \in Nat
      /\ \A i \in 1 .. Len(queue') : i + 1 \in 1 .. Len(queue) /\ queue'[i] = queue[i + 1]
      /\ 1 \in 1 .. Len(queue) /\ Head(queue) = queue[1]
  <2> HIDE DEF Frames
  <2> QED
    BY <1>2
<1>4. Len(queue') <= Buffer
  BY <1>3, NodeConfigAssumption DEF TypeOK
<1>5. QueueGenuine'
  BY <1>1, <1>3 DEF QueueGenuine
<1>6. applied' \in [Families -> Configuration] /\ AppliedGenuine'
  <2> DEFINE c == queue[1]
  <2>1. /\ c \in Frames /\ Genuine(stored, mixed, degraded, c.of, c)
        /\ \/ applied' = [applied EXCEPT ![c.of] = [rev |-> c.rev, val |-> c.val]]
           \/ applied' = applied
    BY <1>2, <1>3 DEF QueueGenuine, NodeReceives
  <2> HIDE DEF c
  <2> DEFINE run == [rev |-> c.rev, val |-> c.val]
  <2>2. c.of \in Families /\ run \in Configuration
    BY <2>1 DEF Frames, Configuration
  <2>3. Genuine(stored, mixed, degraded, c.of, run)
    BY <2>1 DEF Genuine
  <2> HIDE DEF run
  <2>4. CASE applied' = [applied EXCEPT ![c.of] = run]
    BY <1>1, <2>2, <2>3, <2>4 DEF TypeOK, AppliedGenuine
  <2>5. CASE applied' = applied
    BY <1>1, <2>5 DEF TypeOK, AppliedGenuine
  <2> QED
    BY <2>1, <2>4, <2>5 DEF run
<1>7. TypeOK'
  BY <1>1, <1>3, <1>4, <1>6 DEF TypeOK, Frames
<1>8. CommittedStored' /\ NotesGenuine' /\ HeldGenuine'
  BY <1>1 DEF CommittedStored, NotesGenuine, HeldGenuine
<1> QED
  BY <1>5, <1>6, <1>7, <1>8

----------------------------------------------------------------------------
\* Every step of every call, handler and of the node keeps the invariant.
LEMMA NextKeepsConfig == ConfigInv /\ [Next]_vars => ConfigInv'
<1> SUFFICES ASSUME ConfigInv, [Next]_vars PROVE ConfigInv'
  OBVIOUS
<1>1. CASE \E u \in Updates : Update(u)
  BY <1>1, ResolveKeeps, CommitKeeps, ReadBackKeeps, ReadBackFailsKeeps, PushKeeps DEF Update
<1>2. CASE Connect \/ Disconnect
  BY <1>2, ConnectionKeeps
<1>3. CASE Greet
  BY <1>3, GreetReadKeeps, ResolveSafeKeeps, GreetSendKeeps DEF Greet
<1>4. CASE NodeReceives
  BY <1>4, NodeReceivesKeeps
<1>5. CASE UNCHANGED vars
  BY <1>5 DEF vars, updateVars, connVars, ConfigInv, TypeOK, CommittedStored, NotesGenuine,
              HeldGenuine, QueueGenuine, AppliedGenuine
<1> QED
  BY <1>1, <1>2, <1>3, <1>4, <1>5 DEF Next

\* Every variable keeps its type and the downstream queue its bound, however
\* updates, reconnects and a full queue (Connection.send) interleave.
THEOREM ConfigTypeCorrect == Spec => []TypeOK
<1>1. ConfigInv => TypeOK
  BY DEF ConfigInv
<1> QED
  BY <1>1, InitConfig, NextKeepsConfig, PTL DEF Spec

\* A node never runs a content under a revision that was stored with another,
\* whatever the order in which overlapping updates commit, read back and push,
\* connections come and go, and reads fail.  Two cases are left to a binding: the
\* earlier binding that update_node_proxy_config pushes at a mixed revision, and
\* direct at a revision node_proxy_config_frame degraded.
THEOREM RunsAsStored == Spec => []RunsWhatWasStored
<1>1. ConfigInv => RunsWhatWasStored
  <2> SUFFICES ASSUME ConfigInv PROVE RunsWhatWasStored
    OBVIOUS
  <2>1. \A f \in Families : Genuine(stored, mixed, degraded, f, applied[f])
    BY DEF ConfigInv, AppliedGenuine
  <2> QED
    BY <2>1 DEF RunsWhatWasStored, Genuine, Revision
<1> QED
  BY <1>1, InitConfig, NextKeepsConfig, PTL DEF Spec

----------------------------------------------------------------------------
(***************************************************************************)
(* A connected node gets to the last revision.                             *)
(***************************************************************************)

\* Connection.send leaves what is queued, and queues the frame or misses it.
LEMMA SendReaches ==
    ASSUME TypeOK, NEW g \in Families, NEW c \in Configuration, Send(g, c)
    PROVE  /\ missed \subseteq missed'
           /\ \A i \in 1 .. Len(queue) : i \in 1 .. Len(queue') /\ queue'[i] = queue[i]
           /\ \/ [of |-> g, rev |-> c.rev] \in missed'
              \/ \E i \in 1 .. Len(queue') : queue'[i].of = g /\ queue'[i].rev = c.rev
<1>1. queue \in Seq(Frames)
  BY DEF TypeOK, Frames
<1>2. CASE UNCHANGED queue /\ Miss(g, c.rev)
  BY <1>2 DEF Miss
<1>3. CASE /\ UNCHANGED missed
           /\ queue' = Append(queue, [of |-> g, rev |-> c.rev, val |-> c.val])
  <2> DEFINE frame == [of |-> g, rev |-> c.rev, val |-> c.val]
  <2>1. frame \in Frames /\ frame.of = g /\ frame.rev = c.rev
    BY DEF Frames, Configuration
  <2> HIDE DEF frame, Frames
  <2>2. queue' = Append(queue, frame)
    BY <1>3 DEF frame
  <2>3. /\ \A i \in 1 .. Len(queue) : i \in 1 .. Len(queue') /\ queue'[i] = queue[i]
        /\ Len(queue) + 1 \in 1 .. Len(queue') /\ queue'[Len(queue) + 1] = frame
    BY <1>1, <2>1, <2>2
  <2> QED
    BY <1>3, <2>1, <2>3
<1> QED
  BY <1>2, <1>3 DEF Send

LEMMA InitReach == Init => ReachInv
BY DEF Init, ReachInv, Reaching, Blank

\* The call whose commit makes a revision the last one will push it.
LEMMA UpdateReaches ==
    ASSUME ConfigInv, ReachInv, NEW u \in Updates, Resolve(u) \/ Commit(u) \/ ReadBack(u)
    PROVE  ReachInv'
<1> SUFFICES ASSUME NEW f \in Families PROVE Reaching(f)' /\ Blank(f)'
  BY DEF ReachInv
<1>1. /\ Reaching(f) /\ Blank(f) /\ of[u] \in Families /\ pc \in [Updates -> Phases]
      /\ note \in [Updates -> Configuration]
      /\ UNCHANGED <<of, live, greet, held, queue, missed, applied>>
  BY DEF ReachInv, ConfigInv, TypeOK, Resolve, Commit, ReadBack, connVars
<1>2. Blank(f)'
  BY <1>1 DEF Blank
<1>3. CASE Resolve(u)
  <2>1. Revision(f)' = Revision(f) /\ note' = note /\ pc[u] = "idle"
        /\ \A v \in Updates : v # u => pc'[v] = pc[v]
    BY <1>1, <1>3 DEF Resolve, Revision
  <2>2. Carried(f) => Carried(f)'
    BY <1>1, <2>1 DEF Carried
  <2> QED
    BY <1>1, <1>2, <2>1, <2>2 DEF Reaching, Unsent, Queued, Greeted
<1>4. CASE Commit(u)
  <2>1. pc[u] = "resolved" /\ note' = note /\ \A v \in Updates : v # u => pc'[v] = pc[v]
    BY <1>1, <1>4 DEF Commit
  <2>2. CASE stored'[f] = stored[f]
    <3>1. Revision(f)' = Revision(f)
      BY <2>2 DEF Revision
    <3>2. Carried(f) => Carried(f)'
      BY <1>1, <2>1, <3>1 DEF Carried
    <3> QED
      BY <1>1, <1>2, <3>1, <3>2 DEF Reaching, Unsent, Queued, Greeted
  <2>3. CASE stored'[f] # stored[f]
    <3>1. f = of[u] /\ pc'[u] = "committed"
      BY <1>1, <1>4, <2>3 DEF Commit, ConfigInv, TypeOK
    <3>2. Carried(f)'
      BY <1>1, <3>1 DEF Carried
    <3> QED
      BY <1>2, <3>2 DEF Reaching
  <2> QED
    BY <2>2, <2>3
<1>5. CASE ReadBack(u)
  <2>1. /\ Revision(f)' = Revision(f) /\ pc'[u] = "read"
        /\ \A v \in Updates : v # u => pc'[v] = pc[v] /\ note'[v] = note[v]
    BY <1>1, <1>5 DEF ReadBack, Revision
  <2>2. of[u] = f => note'[u].rev = Revision(f)
    BY <1>1, <1>5 DEF ReadBack, Row, Families
  <2>3. Carried(f) => Carried(f)'
    <3> SUFFICES ASSUME Carried(f) PROVE Carried(f)'
      OBVIOUS
    <3>1. PICK v \in Updates : /\ of[v] = f
                               /\ pc[v] = "committed" \/ (pc[v] = "read" /\ note[v].rev = Revision(f))
      BY DEF Carried
    <3>2. of'[v] = f /\ (pc'[v] = "committed" \/ (pc'[v] = "read" /\ note'[v].rev = Revision(f)'))
      BY <1>1, <2>1, <2>2, <3>1
    <3> QED
      BY <3>2 DEF Carried
  <2> QED
    BY <1>1, <1>2, <2>1, <2>3 DEF Reaching, Unsent, Queued, Greeted
<1> QED
  BY <1>3, <1>4, <1>5

\* An update that cannot read its row back leaves the connection without it.
LEMMA ReadBackFailsReaches ==
    ASSUME ConfigInv, ReachInv, NEW u \in Updates, ReadBackFails(u) PROVE ReachInv'
<1> SUFFICES ASSUME NEW f \in Families PROVE Reaching(f)' /\ Blank(f)'
  BY DEF ReachInv
<1>1. /\ Reaching(f) /\ Blank(f) /\ pc \in [Updates -> Phases] /\ Revision(f)' = Revision(f)
      /\ UNCHANGED <<of, note, live, greet, held, queue, applied>>
  BY DEF ReachInv, ConfigInv, TypeOK, ReadBackFails, Revision
<1>2. Blank(f)'
  BY <1>1 DEF Blank
<1>3. CASE ~live
  BY <1>1, <1>2, <1>3 DEF Reaching
<1>4. CASE live
  <2>1. missed' = missed \cup {[of |-> of[u], rev |-> Revision(of[u])]}
        /\ \A v \in Updates : v # u => pc'[v] = pc[v]
    BY <1>1, <1>4 DEF ReadBackFails, Miss
  <2>2. Carried(f) => Carried(f)' \/ Unsent(f, Revision(f))'
    <3>1. CASE of[u] = f
      BY <1>1, <2>1, <3>1 DEF Unsent
    <3>2. CASE of[u] # f
      BY <1>1, <2>1, <3>2 DEF Carried
    <3> QED
      BY <3>1, <3>2
  <2>3. Unsent(f, Revision(f)) => Unsent(f, Revision(f))'
    BY <1>1, <2>1 DEF Unsent
  <2> QED
    BY <1>1, <1>2, <2>2, <2>3 DEF Reaching, Queued, Greeted
<1> QED
  BY <1>3, <1>4

\* What an update read back is pushed to the connection, or its queue misses it.
LEMMA PushReaches ==
    ASSUME ConfigInv, ReachInv, NEW u \in Updates, Push(u) PROVE ReachInv'
<1> SUFFICES ASSUME NEW f \in Families PROVE Reaching(f)' /\ Blank(f)'
  BY DEF ReachInv
<1>1. /\ Reaching(f) /\ Blank(f) /\ of[u] \in Families /\ note[u] \in Configuration
      /\ UNCHANGED <<of, stored, live, greet, held, applied>> /\ Revision(f)' = Revision(f)
  BY DEF ReachInv, ConfigInv, TypeOK, Push, Revision
<1>2. Blank(f)'
  BY <1>1 DEF Blank
<1>3. CASE ~live
  BY <1>1, <1>2, <1>3 DEF Reaching
<1>4. CASE live
  <2>1. /\ missed \subseteq missed'
        /\ \A i \in 1 .. Len(queue) : i \in 1 .. Len(queue') /\ queue'[i] = queue[i]
        /\ \/ [of |-> of[u], rev |-> note[u].rev] \in missed'
           \/ \E i \in 1 .. Len(queue') : queue'[i].of = of[u] /\ queue'[i].rev = note[u].rev
    BY <1>1, <1>4, SendReaches DEF Push, ConfigInv
  <2>2. Queued(f) => Queued(f)'
    BY <1>1, <2>1 DEF Queued
  <2>3. Carried(f) => Carried(f)' \/ Queued(f)' \/ Unsent(f, Revision(f))'
    <3> SUFFICES ASSUME Carried(f) PROVE Carried(f)' \/ Queued(f)' \/ Unsent(f, Revision(f))'
      OBVIOUS
    <3>1. PICK v \in Updates : /\ of[v] = f
                               /\ pc[v] = "committed" \/ (pc[v] = "read" /\ note[v].rev = Revision(f))
      BY DEF Carried
    <3>2. CASE v = u
      <4>1. of[u] = f /\ note[u].rev = Revision(f)
        BY <3>1, <3>2 DEF Push
      <4> QED
        BY <1>1, <2>1, <4>1 DEF Queued, Unsent
    <3>3. CASE v # u
      <4>1. pc'[v] = pc[v] /\ note'[v] = note[v]
        BY <3>3 DEF Push, ConfigInv, TypeOK
      <4>2. of'[v] = f /\ (pc'[v] = "committed" \/ (pc'[v] = "read" /\ note'[v].rev = Revision(f)'))
        BY <1>1, <3>1, <4>1
      <4> QED
        BY <4>2 DEF Carried
    <3> QED
      BY <3>2, <3>3
  <2>4. Greeted(f) => Greeted(f)'
    BY <1>1 DEF Greeted
  <2>5. Unsent(f, Revision(f)) => Unsent(f, Revision(f))'
    BY <1>1, <2>1 DEF Unsent
  <2> QED
    BY <1>1, <1>2, <2>2, <2>3, <2>4, <2>5 DEF Reaching
<1> QED
  BY <1>3, <1>4

\* A new connection's handler reads every row.
LEMMA ConnectionReaches ==
    ASSUME ConfigInv, ReachInv, Connect \/ Disconnect PROVE ReachInv'
<1> SUFFICES ASSUME NEW f \in Families PROVE Reaching(f)' /\ Blank(f)'
  BY DEF ReachInv
<1>1. Blank(f)'
  BY DEF ReachInv, Blank, Connect, Connected, Disconnect
<1>2. CASE Connect
  <2>1. Greeted(f)'
    BY <1>2 DEF Greeted, Connect, Connected
  <2> QED
    BY <1>1, <2>1 DEF Reaching
<1>3. CASE Disconnect
  BY <1>1, <1>3 DEF Reaching, Disconnect
<1> QED
  BY <1>2, <1>3

\* It holds the row it read until it sends it, and what it cannot read or send its
\* connection is left without.
LEMMA GreetReaches ==
    ASSUME ConfigInv, ReachInv, Greet PROVE ReachInv'
<1> SUFFICES ASSUME NEW f \in Families PROVE Reaching(f)' /\ Blank(f)'
  BY DEF ReachInv
<1>1. /\ Reaching(f) /\ Blank(f) /\ UNCHANGED <<of, pc, note, stored, live, applied>>
      /\ Revision(f)' = Revision(f) /\ f \in {"lookup", "proxy"}
  BY DEF ReachInv, Revision, Greet, LookupConfigFrame, ProxyConfigFrame, GreetRead,
         GreetReadFails, ResolveSafe, SendLookupConfig, SendProxyConfig, GreetSend,
         updateVars, Families
<1>2. Blank(f)'
  BY <1>1 DEF Blank
<1>3. Carried(f) => Carried(f)'
  BY <1>1 DEF Carried
<1>4. ASSUME missed \subseteq missed',
             \A i \in 1 .. Len(queue) : i \in 1 .. Len(queue') /\ queue'[i] = queue[i],
             Greeted(f) => Greeted(f)' \/ Queued(f)' \/ Unsent(f, Revision(f))'
      PROVE  Reaching(f)'
  <2>1. Queued(f) => Queued(f)'
    BY <1>1, <1>4 DEF Queued
  <2>2. Unsent(f, Revision(f)) => Unsent(f, Revision(f))'
    BY <1>1, <1>4 DEF Unsent
  <2> QED
    BY <1>1, <1>3, <1>4, <2>1, <2>2 DEF Reaching
<1>5. ASSUME NEW g \in Families, NEW from, NEW to, GreetRead(from, to, g),
             <<from, to, g>> \in {<<"readLookup", "sendLookup", "lookup">>,
                                  <<"readProxy", "resolveProxy", "proxy">>}
      PROVE  Reaching(f)'
  <2>1. UNCHANGED <<queue, missed>> /\ (Greeted(f) => Greeted(f)')
    BY <1>1, <1>5 DEF Greeted, GreetRead, Row
  <2> QED
    BY <1>4, <2>1
<1>6. ASSUME NEW g \in Families, NEW from, NEW to, GreetReadFails(from, to, g),
             <<from, to, g>> \in {<<"readLookup", "readProxy", "lookup">>,
                                  <<"readProxy", "done", "proxy">>}
      PROVE  Reaching(f)'
  <2>1. UNCHANGED queue /\ missed \subseteq missed'
    BY <1>6 DEF GreetReadFails, Miss
  <2>2. Greeted(f) => Greeted(f)' \/ Unsent(f, Revision(f))'
    BY <1>1, <1>6 DEF Greeted, Unsent, GreetReadFails, Miss
  <2> QED
    BY <1>4, <2>1, <2>2
<1>7. CASE ResolveSafe
  <2>1. held'.rev = held.rev
    BY <1>7 DEF ResolveSafe, ConfigInv, TypeOK, Configuration
  <2>2. UNCHANGED <<queue, missed>> /\ (Greeted(f) => Greeted(f)')
    BY <1>1, <1>7, <2>1 DEF Greeted, ResolveSafe
  <2> QED
    BY <1>2, <1>4, <2>2
<1>8. ASSUME NEW g \in Families, NEW from, NEW to, GreetSend(from, to, g),
             <<from, to, g>> \in {<<"sendLookup", "readProxy", "lookup">>,
                                  <<"sendProxy", "done", "proxy">>}
      PROVE  Reaching(f)'
  <2>1. /\ missed \subseteq missed'
        /\ \A i \in 1 .. Len(queue) : i \in 1 .. Len(queue') /\ queue'[i] = queue[i]
        /\ \/ [of |-> g, rev |-> held.rev] \in missed'
           \/ \E i \in 1 .. Len(queue') : queue'[i].of = g /\ queue'[i].rev = held.rev
    BY <1>8, SendReaches DEF GreetSend, ConfigInv, TypeOK
  <2>2. Greeted(f) => Greeted(f)' \/ Queued(f)' \/ Unsent(f, Revision(f))'
    <3>1. CASE f = g
      <4>1. Greeted(f) => held.rev = Revision(f)
        BY <1>1, <1>8, <3>1 DEF Greeted, GreetSend
      <4> QED
        BY <1>1, <2>1, <3>1, <4>1 DEF Queued, Unsent
    <3>2. CASE f # g
      BY <1>1, <1>8, <3>2 DEF Greeted, GreetSend
    <3> QED
      BY <3>1, <3>2
  <2> QED
    BY <1>4, <2>1, <2>2
<1>9. "lookup" \in Families /\ "proxy" \in Families
  BY DEF Families
<1>10. CASE LookupConfigFrame \/ ProxyConfigFrame
  BY <1>2, <1>5, <1>6, <1>9, <1>10 DEF LookupConfigFrame, ProxyConfigFrame
<1>11. CASE SendLookupConfig \/ SendProxyConfig
  BY <1>2, <1>8, <1>9, <1>11 DEF SendLookupConfig, SendProxyConfig
<1> QED
  BY <1>2, <1>7, <1>10, <1>11 DEF Greet

\* A revision the node takes is the one it runs, if it is not past it.
LEMMA NodeReceivesReaches ==
    ASSUME ConfigInv, ReachInv, NodeReceives PROVE ReachInv'
<1> SUFFICES ASSUME NEW f \in Families PROVE Reaching(f)' /\ Blank(f)'
  BY DEF ReachInv
<1>1. /\ Reaching(f) /\ Blank(f) /\ UNCHANGED <<of, pc, note, stored, live, greet, held, missed>>
      /\ Revision(f)' = Revision(f) /\ Revision(f) \in Nat
      /\ applied \in [Families -> Configuration]
  BY DEF ReachInv, ConfigInv, TypeOK, NodeReceives, Revision, updateVars
<1>2. /\ queue # << >> /\ queue' = Tail(queue)
      /\ queue \in Seq(Frames) /\ \A i \in 1 .. Len(queue) : queue[i] \in Frames
  BY QueueOfFrames DEF NodeReceives, ConfigInv
<1>3. /\ 1 \in 1 .. Len(queue) /\ Head(queue) = queue[1] /\ Len(queue) \in Nat
      /\ \A i \in 1 .. Len(queue) : i = 1 \/ (i - 1 \in 1 .. Len(queue') /\ queue'[i - 1] = queue[i])
  <2> HIDE DEF Frames
  <2> QED
    BY <1>2
<1> DEFINE c == queue[1]
<1>4. /\ c \in Frames
      /\ applied' = IF c.rev > applied[c.of].rev
                      THEN [applied EXCEPT ![c.of] = [rev |-> c.rev, val |-> c.val]] ELSE applied
  BY <1>2, <1>3 DEF NodeReceives
<1> HIDE DEF c
<1>5. c.rev \in Nat /\ c.of \in Families /\ applied[f].rev \in Nat /\ applied'[f].rev \in Nat
      /\ applied[f].rev <= applied'[f].rev /\ (c.of = f => c.rev <= applied'[f].rev)
      /\ (applied'[f] = applied[f] \/ applied'[f].rev > 0)
  <2>1. c.rev \in Nat /\ c.of \in Families /\ applied[f].rev \in Nat /\ applied[c.of].rev \in Nat
    BY <1>1, <1>4 DEF Frames, Configuration
  <2>2. CASE c.rev > applied[c.of].rev /\ c.of = f
    <3>1. applied'[f].rev = c.rev
      BY <1>1, <1>4, <2>2
    <3> QED
      BY <2>1, <2>2, <3>1
  <2>3. CASE c.rev > applied[c.of].rev /\ c.of # f
    <3>1. applied'[f] = applied[f]
      BY <1>1, <1>4, <2>3
    <3> QED
      BY <2>1, <2>3, <3>1
  <2>4. CASE ~(c.rev > applied[c.of].rev)
    BY <1>4, <2>1, <2>4
  <2> QED
    BY <2>2, <2>3, <2>4
<1>6. Blank(f)'
  BY <1>1, <1>5 DEF Blank
<1>7. Queued(f) => Queued(f)' \/ Revision(f) <= applied'[f].rev
  <2> SUFFICES ASSUME Queued(f) PROVE Queued(f)' \/ Revision(f) <= applied'[f].rev
    OBVIOUS
  <2>1. PICK i \in 1 .. Len(queue) : queue[i].of = f /\ queue[i].rev = Revision(f)
    BY DEF Queued
  <2>2. CASE i = 1
    BY <1>5, <2>1, <2>2 DEF c
  <2>3. CASE i # 1
    <3>1. i - 1 \in 1 .. Len(queue') /\ queue'[i - 1].of = f /\ queue'[i - 1].rev = Revision(f)'
      BY <1>1, <1>3, <2>1, <2>3
    <3> QED
      BY <3>1 DEF Queued
  <2> QED
    BY <2>2, <2>3
<1>8. (Carried(f) => Carried(f)') /\ (Greeted(f) => Greeted(f)')
  BY <1>1 DEF Carried, Greeted
<1>9. Revision(f) <= applied[f].rev => Revision(f) <= applied'[f].rev
  BY <1>1, <1>5
<1>10. Reaching(f)'
  BY <1>1, <1>7, <1>8, <1>9 DEF Reaching, Unsent
<1> QED
  BY <1>6, <1>10

LEMMA NextReaches == ConfigInv /\ ReachInv /\ [Next]_vars => ReachInv'
<1> SUFFICES ASSUME ConfigInv, ReachInv, [Next]_vars PROVE ReachInv'
  OBVIOUS
<1>1. CASE \E u \in Updates : Update(u)
  BY <1>1, UpdateReaches, ReadBackFailsReaches, PushReaches DEF Update
<1>2. CASE Connect \/ Disconnect
  BY <1>2, ConnectionReaches
<1>3. CASE Greet
  BY <1>3, GreetReaches
<1>4. CASE NodeReceives
  BY <1>4, NodeReceivesReaches
<1>5. CASE UNCHANGED vars
  BY <1>5 DEF vars, updateVars, connVars, ReachInv, Reaching, Blank, Unsent, Queued, Carried, Greeted,
              Revision
<1> QED
  BY <1>1, <1>2, <1>3, <1>4, <1>5 DEF Next

\* Once nothing is under way a connected node runs the row as stored: an update
\* that meets a reconnect is read by the connection's handler or pushed to the
\* new connection.  The exceptions are a revision the connection was not sent (a
\* full queue, a read-back or a snapshot that failed and was swallowed), and a
\* binding at a revision overlapping updates mixed or a snapshot degraded.
THEOREM RunsTheRow == Spec => []SettledIsLedger
<1>1. ConfigInv /\ ReachInv => SettledIsLedger
  <2> SUFFICES ASSUME ConfigInv, ReachInv, NEW f \in Families,
                      live, greet = "done", queue = << >>, ~InFlight(f),
                      [of |-> f, rev |-> Revision(f)] \notin missed,
                      ~(f = "proxy" /\ Revision(f) \in mixed \cup degraded)
               PROVE  applied[f] = Row(f)
    BY DEF SettledIsLedger
  <2>1. ~Queued(f) /\ ~Carried(f) /\ ~Greeted(f)
    <3>1. Len(queue) = 0
      OBVIOUS
    <3> QED
      BY <3>1 DEF Queued, Carried, Greeted, InFlight
  <2>2. /\ Revision(f) \in Nat /\ applied[f] \in Configuration
        /\ stored[f] \in Seq(Contents) /\ Genuine(stored, mixed, degraded, f, applied[f])
    BY DEF ConfigInv, TypeOK, AppliedGenuine, Revision
  <2>3. applied[f].rev = Revision(f) /\ applied[f] = [rev |-> applied[f].rev, val |-> applied[f].val]
    BY <2>1, <2>2 DEF ReachInv, Reaching, Unsent, Genuine, Revision, Configuration
  <2>4. CASE Revision(f) = 0
    <3>1. stored[f] = << >>
      BY <2>2, <2>4 DEF Revision
    <3> QED
      BY <2>3, <2>4, <3>1 DEF ReachInv, Blank, Unread, Row, Content
  <2>5. CASE Revision(f) > 0
    <3>1. applied[f].val = stored[f][Revision(f)] /\ stored[f] # << >>
      BY <2>2, <2>3, <2>5 DEF Genuine, Revision
    <3> QED
      BY <2>3, <3>1 DEF Row, Content
  <2> QED
    BY <2>2, <2>4, <2>5
<1> QED
  BY <1>1, InitConfig, NextKeepsConfig, InitReach, NextReaches, PTL DEF Spec

-----------------------------------------------------------------------------
(***************************************************************************)
(* TerminalCommands, for any browsers and commands and any number of       *)
(* bridges and entries.  What an agent is told is not inductive: the       *)
(* invariant follows a command from its entry over the bridge it types     *)
(* into to the browser whose output loop feeds that entry.                 *)
(***************************************************************************)

\* CommandsTypeOK without the count of an entry's lock holders.
CmdTyped ==
    /\ cpc \in [Command -> {"idle", "adopt", "notify", "waiting", "leaving", "done"}]
    /\ centry \in [Command -> {0} \cup Entry]
    /\ cterm \in [Command -> {0} \cup Term]
    /\ fut \in [Command -> {"none", "pending", "ok", "closed", "interrupted", "cancelled"}]
    /\ result \in [Command -> Outcome \cup {"none"}]
    /\ printed \subseteq Command
EntryTyped ==
    /\ active \in {0} \cup Entry
    /\ esess \in [Entry -> {0} \cup Term]
    /\ dead \subseteq Entry
    /\ slot \in [Entry -> Command \cup {None}]
HostTyped ==
    /\ host \in {0} \cup Term
    /\ life \in [Term -> {"none", "open", "closed"}]
    /\ finishing \subseteq Term /\ retiring \subseteq Term
    /\ sub \in [Term -> Browser \cup {None}]
    /\ replay \in [Term -> SUBSET Command]
TabTyped ==
    /\ bpc \in [Browser -> {"idle", "greeted", "open", "ending", "done"}]
    /\ bterm \in [Browser -> {0} \cup Term]
    /\ agent \in [Browser -> {0} \cup Entry]
    /\ bq \in [Browser -> SUBSET Command]

\* A command holds its entry's lock from its start to its last message; the entry
\* collects for it until it ends.
Held == {"notify", "waiting", "leaving"}
Collected == {"notify", "waiting"}
CommandFine(k) ==
    /\ cpc[k] \in Held => centry[k] \in Entry /\ esess[centry[k]] \in Term
    /\ cpc[k] \in Collected => slot[centry[k]] = k /\ fut[k] \notin {"none", "cancelled"}
    /\ cpc[k] \in {"adopt", "waiting"} => cterm[k] \in Term
    /\ Waits(k) => centry[k] = active
EntryFine ==
    /\ \A e \in Entry : slot[e] # None => centry[slot[e]] = e /\ cpc[slot[e]] \in Collected
    /\ active # 0 => esess[active] \in Term
OneHolder ==
    \A j, k \in Command : cpc[j] \in Held /\ cpc[k] \in Held /\ centry[j] = centry[k] => j = k
CmdInv ==
    /\ CmdTyped /\ EntryTyped /\ HostTyped /\ TabTyped
    /\ (\A k \in Command : CommandFine(k)) /\ EntryFine /\ OneHolder

\* Bridges are made in order; the open one is the registry's, a pump that is to
\* end has a closed one, and a browser that attached has one.
MadeTo(n) == \A t \in Term : life[t] = "none" <=> t > n
OpenFine ==
    /\ \E n \in 0 .. MaxTerm : MadeTo(n)
    /\ \A t \in Term : life[t] = "open" => host = t
    /\ \A t \in finishing : life[t] = "closed"
    /\ host # 0 => life[host] # "none"
    /\ \A b \in Browser : bpc[b] # "idle" => bterm[b] \in Term /\ life[bterm[b]] # "none"

\* What a command waits for will come: GoneIsTold without the pump, which ends
\* the wait only while the registry still holds its bridge.
TellingFine ==
    \A k \in Command :
        Waits(k) /\ cpc[k] = "waiting" /\ life[cterm[k]] = "closed" =>
            \/ cterm[k] \in retiring
            \/ \E b \in Browser : bpc[b] = "ending" /\ bterm[b] = cterm[k]

\* A marker that is kept, queued or has ended a command was printed.
MarkersFine ==
    /\ \A t \in Term : replay[t] \subseteq printed
    /\ \A b \in Browser : bq[b] \subseteq printed
    /\ \A k \in Command : "ok" \in {fut[k], result[k]} => k \in printed
CmdFine == CmdInv /\ OpenFine /\ TellingFine /\ MarkersFine

-----------------------------------------------------------------------------
\* No browser has attached and no command was posted initially.
LEMMA InitCommands == CommandsInit => CmdFine
<1> SUFFICES ASSUME CommandsInit PROVE CmdFine
  OBVIOUS
<1>1. CmdTyped /\ EntryTyped /\ HostTyped /\ TabTyped
  BY DEF CommandsInit, CmdTyped, EntryTyped, HostTyped, TabTyped, Outcome
<1>2. (\A k \in Command : CommandFine(k)) /\ EntryFine /\ OneHolder
  BY DEF CommandsInit, CommandFine, EntryFine, OneHolder, Waits, Held, Collected
<1>3. MadeTo(0) /\ 0 \in 0 .. MaxTerm
  BY TerminalCommandsAssumption DEF CommandsInit, MadeTo, Term
<1>4. OpenFine /\ TellingFine /\ MarkersFine
  BY <1>3 DEF CommandsInit, OpenFine, TellingFine, MarkersFine, Waits
<1> QED
  BY <1>1, <1>2, <1>4 DEF CmdFine, CmdInv

\* Bridges close and browsers move on, but none is made.
LEMMA NoneMade ==
    ASSUME OpenFine, \A t \in Term : life'[t] = "none" <=> life[t] = "none"
    PROVE  \E n \in 0 .. MaxTerm : MadeTo(n)'
BY DEF OpenFine, MadeTo

\* A command that waits is the one its id's entry collects for.
LEMMA WaiterRuns ==
    ASSUME CmdInv, NEW k \in Command, Waits(k)
    PROVE  active \in Entry /\ active # 0 /\ slot[active] = k /\ Running(active) = {k}
<1>1. centry[k] = active /\ centry[k] \in Entry /\ slot[active] = k
  BY DEF CmdInv, CommandFine, Waits, Held, Collected
<1>2. k # None /\ active # 0
  BY <1>1, TerminalCommandsAssumption DEF Entry
<1> QED
  BY <1>1, <1>2 DEF Running

\* The collected commands are commands.
LEMMA RunningIsCommand ==
    ASSUME EntryTyped, NEW e \in {0} \cup Entry
    PROVE  Running(e) \subseteq Command
BY DEF EntryTyped, Running, Entry

\* What the failing of some commands does.
LEMMA FailFine ==
    ASSUME CmdTyped, NEW K, NEW why \in {"ok", "closed", "interrupted"}, Fail(K, why)
    PROVE  /\ fut' \in [Command -> {"none", "pending", "ok", "closed", "interrupted", "cancelled"}]
           /\ \A k \in Command : /\ fut'[k] # fut[k] => fut'[k] = why /\ k \in K
                                 /\ fut'[k] = "pending" => fut[k] = "pending" /\ k \notin K
                                 /\ fut[k] \notin {"none", "cancelled"} =>
                                        fut'[k] \notin {"none", "cancelled"}
BY DEF CmdTyped, Fail

\* A step that leaves the commands and the entries alone, or ends some waits,
\* keeps what is said of them.
LEMMA WaitsEnd ==
    ASSUME CmdInv, UNCHANGED <<cpc, centry, cterm, result, printed, esess, slot>>,
           active' \in {0, active}, dead' \subseteq Entry,
           fut' \in [Command -> {"none", "pending", "ok", "closed", "interrupted", "cancelled"}],
           \A k \in Command :
               /\ Waits(k)' => Waits(k) /\ active' = active
               /\ fut[k] \notin {"none", "cancelled"} => fut'[k] \notin {"none", "cancelled"}
    PROVE  /\ CmdTyped' /\ EntryTyped'
           /\ (\A k \in Command : CommandFine(k)') /\ EntryFine' /\ OneHolder'
<1>1. CmdTyped' /\ EntryTyped'
  BY DEF CmdInv, CmdTyped, EntryTyped
<1>2. ASSUME NEW k \in Command PROVE CommandFine(k)'
  BY DEF CmdInv, CommandFine, Held, Collected
<1>3. EntryFine' /\ OneHolder'
  BY DEF CmdInv, EntryFine, OneHolder
<1> QED
  BY <1>1, <1>2, <1>3

\* Retirement fails whatever waits on the id.
LEMMA RetireFine ==
    ASSUME CmdInv, Retire, UNCHANGED <<cpc, centry, cterm, result, printed, esess, slot>>
    PROVE  /\ CmdTyped' /\ EntryTyped'
           /\ (\A k \in Command : CommandFine(k)') /\ EntryFine' /\ OneHolder'
           /\ \A k \in Command : ~Waits(k)' /\ (fut'[k] = "ok" => fut[k] = "ok")
<1>1. active' = 0 /\ dead' = dead \cup ({active} \ {0}) /\ Fail(Running(active), "closed")
  BY DEF Retire, CloseEntry
<1>2. CmdTyped /\ EntryTyped
  BY DEF CmdInv
<1>3. /\ fut' \in [Command -> {"none", "pending", "ok", "closed", "interrupted", "cancelled"}]
      /\ \A k \in Command : /\ fut'[k] # fut[k] => fut'[k] = "closed" /\ k \in Running(active)
                            /\ fut'[k] = "pending" => fut[k] = "pending" /\ k \notin Running(active)
                            /\ fut[k] \notin {"none", "cancelled"} =>
                                   fut'[k] \notin {"none", "cancelled"}
  BY <1>1, <1>2, FailFine
<1>4. ASSUME NEW k \in Command PROVE ~Waits(k)'
  <2> SUFFICES ASSUME Waits(k)' PROVE FALSE
    OBVIOUS
  <2>1. Waits(k) /\ k \notin Running(active)
    BY <1>3 DEF Waits
  <2> QED
    BY <2>1, WaiterRuns
<1>5. dead' \subseteq Entry /\ active' \in {0, active}
  BY <1>1, <1>2 DEF EntryTyped
<1> QED
  BY <1>3, <1>4, <1>5, WaitsEnd

\* So does cancel_command, and the entry stays.
LEMMA CancelFine ==
    ASSUME CmdInv, CancelCommand,
           UNCHANGED <<cpc, centry, cterm, result, printed, esess, slot, active, dead>>
    PROVE  /\ CmdTyped' /\ EntryTyped'
           /\ (\A k \in Command : CommandFine(k)') /\ EntryFine' /\ OneHolder'
           /\ \A k \in Command : ~Waits(k)' /\ (fut'[k] = "ok" => fut[k] = "ok")
<1>2. CmdTyped /\ EntryTyped
  BY DEF CmdInv
<1>3. /\ fut' \in [Command -> {"none", "pending", "ok", "closed", "interrupted", "cancelled"}]
      /\ \A k \in Command : /\ fut'[k] # fut[k] => fut'[k] = "interrupted" /\ k \in Running(active)
                            /\ fut'[k] = "pending" => fut[k] = "pending" /\ k \notin Running(active)
                            /\ fut[k] \notin {"none", "cancelled"} =>
                                   fut'[k] \notin {"none", "cancelled"}
  BY <1>2, FailFine DEF CancelCommand
<1>4. ASSUME NEW k \in Command PROVE ~Waits(k)'
  <2> SUFFICES ASSUME Waits(k)' PROVE FALSE
    OBVIOUS
  <2>1. Waits(k) /\ k \notin Running(active)
    BY <1>3 DEF Waits
  <2> QED
    BY <2>1, WaiterRuns
<1>5. dead' \subseteq Entry /\ active' \in {0, active}
  BY <1>2 DEF EntryTyped
<1> QED
  BY <1>3, <1>4, <1>5, WaitsEnd

-----------------------------------------------------------------------------
\* Closing a bridge: it is not open any more, others stay as they are.
LEMMA CloseFine ==
    ASSUME HostTyped, NEW t \in Term, Close(t)
    PROVE  /\ life' \in [Term -> {"none", "open", "closed"}] /\ finishing' \subseteq Term
           /\ sub' \in [Term -> Browser \cup {None}]
           /\ life'[t] = "closed" /\ \A u \in Term \ {t} : life'[u] = life[u]
           /\ finishing' \subseteq finishing \cup {t}
           /\ life[t] # "none" => \A u \in Term : life'[u] = "none" <=> life[u] = "none"
BY DEF HostTyped, Close

\* The commands and entries are as they were.
LEMMA CommandsRest ==
    ASSUME CmdInv, UNCHANGED <<entryVars, cmdVars, printed>>
    PROVE  /\ CmdTyped' /\ EntryTyped'
           /\ (\A k \in Command : CommandFine(k)') /\ EntryFine' /\ OneHolder'
           /\ \A k \in Command : Waits(k)' <=> Waits(k)
BY DEF CmdInv, CmdTyped, EntryTyped, CommandFine, EntryFine, OneHolder, Waits, entryVars, cmdVars

\* If nobody waits any more there is nothing to tell.
LEMMA NobodyWaits ==
    ASSUME \A k \in Command : ~Waits(k)'
    PROVE  TellingFine'
BY DEF TellingFine

\* Where the bridge of a new attachment comes from.
LEMMA AttachFrom ==
    ASSUME CmdInv, OpenFine, NEW b \in Browser, Attach(b)
    PROVE  /\ host' \in Term /\ life' = [life EXCEPT ![host'] = "open"]
           /\ life[host'] # "closed" /\ \A t \in Term \ {host'} : life[t] # "open"
           /\ \E n \in 0 .. MaxTerm : MadeTo(n)'
<1>1. HostTyped
  BY DEF CmdInv
<1>2. CASE Bridged /\ UNCHANGED <<host, life>>
  <2>1. \E n \in 0 .. MaxTerm : MadeTo(n)'
    BY <1>2 DEF OpenFine, MadeTo
  <2> QED
    BY <1>1, <1>2, <2>1 DEF Bridged, HostTyped, OpenFine
<1>3. CASE /\ ~Bridged /\ \E t \in Term : life[t] = "none"
           /\ host' = Cardinality({t \in Term : life[t] # "none"}) + 1
           /\ life' = [life EXCEPT ![host'] = "open"]
  <2> DEFINE Made == {t \in Term : life[t] # "none"}
  <2>1. PICK n \in 0 .. MaxTerm : \A t \in Term : life[t] = "none" <=> t > n
    BY DEF OpenFine, MadeTo
  <2>2. n \in Nat /\ Made = 1 .. n
    BY <2>1, TerminalCommandsAssumption DEF Term
  <2>3. Cardinality(Made) = n
    <3>1. Cardinality(1 .. n) = n
      BY <2>2, FS_Interval
    <3> QED
      BY <2>2, <3>1
  <2>4. host' = n + 1
    BY <1>3, <2>3
  <2>5. n < MaxTerm
    BY <1>3, <2>1, TerminalCommandsAssumption DEF Term
  <2>6. host' \in Term /\ life[host'] = "none"
    BY <2>1, <2>2, <2>4, <2>5, TerminalCommandsAssumption DEF Term
  <2>7. \A t \in Term : life'[t] = "none" <=> t > n + 1
    BY <1>1, <1>3, <2>1, <2>2, <2>4, <2>6 DEF HostTyped, Term
  <2>8. \A t \in Term : life[t] # "open"
    BY <1>3, <1>1 DEF Bridged, OpenFine, HostTyped, Term
  <2> QED
    <3>1. n + 1 \in 0 .. MaxTerm /\ MadeTo(n + 1)'
      BY <2>2, <2>5, <2>7, TerminalCommandsAssumption DEF MadeTo
    <3> QED
      BY <1>3, <2>6, <2>8, <3>1
<1>4. \/ Bridged /\ UNCHANGED <<host, life>>
      \/ /\ ~Bridged /\ \E t \in Term : life[t] = "none"
         /\ host' = Cardinality({t \in Term : life[t] # "none"}) + 1
         /\ life' = [life EXCEPT ![host'] = "open"]
  BY DEF Attach
<1> QED
  BY <1>2, <1>3, <1>4

LEMMA AttachKeeps ==
    ASSUME CmdFine, NEW b \in Browser, Attach(b)
    PROVE  CmdFine'
<1>1. CmdInv /\ OpenFine /\ TellingFine /\ MarkersFine /\ HostTyped /\ TabTyped
  BY DEF CmdFine, CmdInv
<1>2. /\ host' \in Term /\ life' = [life EXCEPT ![host'] = "open"]
      /\ life[host'] # "closed" /\ \A t \in Term \ {host'} : life[t] # "open"
      /\ \E n \in 0 .. MaxTerm : MadeTo(n)'
  BY <1>1, AttachFrom
<1>3. /\ CmdTyped' /\ EntryTyped'
      /\ (\A k \in Command : CommandFine(k)') /\ EntryFine' /\ OneHolder'
      /\ \A k \in Command : Waits(k)' <=> Waits(k)
  BY <1>1, CommandsRest DEF Attach
<1>4. HostTyped' /\ TabTyped'
  BY <1>1, <1>2 DEF HostTyped, TabTyped, Attach
<1>5. OpenFine'
  BY <1>1, <1>2 DEF OpenFine, HostTyped, TabTyped, Attach
<1>6. TellingFine'
  BY <1>1, <1>2, <1>3 DEF TellingFine, CmdInv, CommandFine, HostTyped, TabTyped, Attach, cmdVars
<1>7. MarkersFine'
  BY <1>1, <1>2 DEF MarkersFine, TabTyped, Attach, cmdVars
<1> QED
  BY <1>3, <1>4, <1>5, <1>6, <1>7 DEF CmdFine, CmdInv

LEMMA BindKeeps ==
    ASSUME CmdFine, NEW b \in Browser, Bind(b)
    PROVE  CmdFine'
<1>1. /\ CmdInv /\ OpenFine /\ TellingFine /\ MarkersFine /\ HostTyped /\ TabTyped
      /\ CmdTyped /\ EntryTyped /\ EntryFine
  BY DEF CmdFine, CmdInv
<1>2. bterm[b] \in Term
  BY <1>1 DEF OpenFine, Bind
<1>3. PICK e \in Entry : GetOrCreate(bterm[b], e) /\ agent' = [agent EXCEPT ![b] = e]
  BY DEF Bind
<1>4. /\ active' = e /\ esess' = [esess EXCEPT ![e] = bterm[b]]
      /\ active # 0 => active = e
  BY <1>3 DEF GetOrCreate
<1>5. \A k \in Command : (Waits(k)' <=> Waits(k)) /\ (Waits(k) => active' = active)
  BY <1>1, <1>4, WaiterRuns DEF Bind, Waits, cmdVars
<1>6. CmdTyped' /\ EntryTyped' /\ HostTyped' /\ TabTyped'
  BY <1>1, <1>2, <1>3, <1>4
     DEF CmdTyped, EntryTyped, HostTyped, TabTyped, Bind, hostVars, cmdVars
<1>7. \A k \in Command : CommandFine(k)'
  BY <1>1, <1>2, <1>4, <1>5 DEF CmdInv, EntryTyped, CommandFine, Bind, cmdVars, Held
<1>8. EntryFine' /\ OneHolder'
  BY <1>1, <1>2, <1>4 DEF CmdInv, EntryTyped, EntryFine, OneHolder, Bind, cmdVars
<1>9. OpenFine' /\ MarkersFine'
  BY <1>1, NoneMade DEF OpenFine, MarkersFine, TabTyped, Bind, hostVars, cmdVars
<1>10. TellingFine'
  BY <1>1, <1>5 DEF TellingFine, TabTyped, Bind, hostVars, cmdVars
<1> QED
  BY <1>6, <1>7, <1>8, <1>9, <1>10 DEF CmdFine, CmdInv

\* Steps of a browser's coroutine that touch no command and no entry.
LEMMA BrowserRests ==
    ASSUME CmdFine, NEW b \in Browser, GreetFails(b) \/ Leave(b) \/ CloseFrame(b)
    PROVE  CmdFine'
<1>1. CmdInv /\ OpenFine /\ TellingFine /\ MarkersFine /\ HostTyped /\ TabTyped
  BY DEF CmdFine, CmdInv
<1>2. bterm[b] \in Term
  BY <1>1 DEF OpenFine, GreetFails, Leave, CloseFrame
<1>3. /\ CmdTyped' /\ EntryTyped'
      /\ (\A k \in Command : CommandFine(k)') /\ EntryFine' /\ OneHolder'
      /\ \A k \in Command : Waits(k)' <=> Waits(k)
  BY <1>1, CommandsRest DEF GreetFails, Leave, CloseFrame
<1>4. \/ UNCHANGED hostVars
      \/ Close(bterm[b]) /\ UNCHANGED <<host, retiring, replay>> /\ bpc' = [bpc EXCEPT ![b] = "ending"]
  BY DEF GreetFails, Leave, CloseFrame
<1>5. /\ UNCHANGED <<bterm, agent, bq, cmdVars, printed>>
      /\ \E p \in {"ending", "done"} : bpc' = [bpc EXCEPT ![b] = p]
      /\ bpc[b] \in {"greeted", "open"}
  BY DEF GreetFails, Leave, CloseFrame
<1>6. HostTyped' /\ OpenFine'
  BY <1>1, <1>2, <1>4, <1>5, CloseFine, NoneMade DEF HostTyped, TabTyped, OpenFine, hostVars
<1>7. TabTyped' /\ MarkersFine'
  BY <1>1, <1>4, <1>5 DEF TabTyped, MarkersFine, hostVars, cmdVars
<1>8. TellingFine'
  <2>1. CASE UNCHANGED hostVars
    BY <1>1, <1>3, <1>5, <2>1 DEF TellingFine, TabTyped, hostVars, cmdVars
  <2>2. CASE /\ Close(bterm[b]) /\ UNCHANGED <<host, retiring, replay>>
             /\ bpc' = [bpc EXCEPT ![b] = "ending"]
    BY <1>1, <1>2, <1>3, <1>5, <2>2, CloseFine
       DEF TellingFine, CmdInv, CommandFine, TabTyped, cmdVars
  <2> QED
    BY <1>4, <2>1, <2>2
<1> QED
  BY <1>3, <1>6, <1>7, <1>8 DEF CmdFine, CmdInv

\* A marker read from a browser's queue ends its own command, or nothing.
LEMMA ReadOutputKeeps ==
    ASSUME CmdFine, NEW b \in Browser, ReadOutput(b)
    PROVE  CmdFine'
<1>1. /\ CmdInv /\ OpenFine /\ TellingFine /\ MarkersFine /\ HostTyped /\ TabTyped
      /\ CmdTyped /\ EntryTyped
  BY DEF CmdFine, CmdInv
<1>2. PICK q \in bq[b] : bq' = [bq EXCEPT ![b] = @ \ {q}] /\ Fail(EndedBy(agent[b], q), "ok")
  BY DEF ReadOutput
<1>3. q \in printed /\ q \in Command
  BY <1>1, <1>2 DEF MarkersFine, TabTyped
<1>4. /\ fut' \in [Command -> {"none", "pending", "ok", "closed", "interrupted", "cancelled"}]
      /\ \A k \in Command : /\ fut'[k] # fut[k] => fut'[k] = "ok" /\ k = q
                            /\ fut'[k] = "pending" => fut[k] = "pending"
                            /\ fut[k] \notin {"none", "cancelled"} =>
                                   fut'[k] \notin {"none", "cancelled"}
  BY <1>1, <1>2, FailFine DEF EndedBy
<1>5. \A k \in Command : Waits(k)' => Waits(k) /\ active' = active
  BY <1>4 DEF Waits, ReadOutput, entryVars
<1>6. /\ CmdTyped' /\ EntryTyped'
      /\ (\A k \in Command : CommandFine(k)') /\ EntryFine' /\ OneHolder'
  BY <1>1, <1>4, <1>5, WaitsEnd DEF ReadOutput, entryVars, EntryTyped
<1>7. HostTyped' /\ TabTyped' /\ OpenFine'
  BY <1>1, <1>2, NoneMade DEF HostTyped, TabTyped, OpenFine, ReadOutput, hostVars
<1>8. TellingFine'
  BY <1>1, <1>5 DEF TellingFine, ReadOutput, hostVars
<1>9. MarkersFine'
  BY <1>1, <1>2, <1>3, <1>4 DEF MarkersFine, TabTyped, ReadOutput, hostVars
<1> QED
  BY <1>6, <1>7, <1>8, <1>9 DEF CmdFine, CmdInv

\* A browser's end retires the id's entry if its bridge is closed; otherwise the
\* command does not wait for it.
LEMMA EndBridgeKeeps ==
    ASSUME CmdFine, NEW b \in Browser, EndBridge(b)
    PROVE  CmdFine'
<1>1. /\ CmdInv /\ OpenFine /\ TellingFine /\ MarkersFine /\ HostTyped /\ TabTyped
  BY DEF CmdFine, CmdInv
<1>2. bterm[b] \in Term
  BY <1>1 DEF OpenFine, EndBridge
<1>3. HostTyped' /\ TabTyped' /\ OpenFine'
  BY <1>1, <1>2, NoneMade DEF HostTyped, TabTyped, OpenFine, EndBridge
<1>4. CASE life[bterm[b]] = "closed"
  <2>1. /\ CmdTyped' /\ EntryTyped'
        /\ (\A k \in Command : CommandFine(k)') /\ EntryFine' /\ OneHolder'
        /\ \A k \in Command : ~Waits(k)' /\ (fut'[k] = "ok" => fut[k] = "ok")
    BY <1>1, <1>4, RetireFine DEF EndBridge
  <2>2. TellingFine' /\ MarkersFine'
    BY <1>1, <2>1, NobodyWaits DEF MarkersFine, TabTyped, EndBridge
  <2> QED
    BY <1>3, <2>1, <2>2 DEF CmdFine, CmdInv
<1>5. CASE life[bterm[b]] # "closed"
  <2>1. UNCHANGED <<entryVars, cmdVars, printed>>
    BY <1>5 DEF EndBridge, entryVars, cmdVars
  <2>2. /\ CmdTyped' /\ EntryTyped'
        /\ (\A k \in Command : CommandFine(k)') /\ EntryFine' /\ OneHolder'
        /\ \A k \in Command : Waits(k)' <=> Waits(k)
    BY <1>1, <2>1, CommandsRest
  <2>3. TellingFine'
    BY <1>1, <1>5, <2>1, <2>2 DEF TellingFine, TabTyped, EndBridge, cmdVars
  <2>4. MarkersFine'
    BY <1>1, <2>1 DEF MarkersFine, TabTyped, EndBridge, cmdVars
  <2> QED
    BY <1>3, <2>2, <2>3, <2>4 DEF CmdFine, CmdInv
<1> QED
  BY <1>4, <1>5

-----------------------------------------------------------------------------
\* A pump, a shell or a retirement ends: the waits end, or nothing happens to them.
LEMMA TermKeeps ==
    ASSUME CmdFine, NEW t \in Term, TermStep(t)
    PROVE  CmdFine'
<1>1. /\ CmdInv /\ OpenFine /\ TellingFine /\ MarkersFine /\ HostTyped /\ TabTyped
  BY DEF CmdFine, CmdInv
<1>2. UNCHANGED <<cpc, centry, cterm, result, printed, esess, slot, replay, browserVars>>
  BY DEF TermStep, PumpEnds, ShellExits, FireRetired
<1>3. HostTyped' /\ TabTyped' /\ OpenFine'
  <2>1. CASE PumpEnds(t)
    BY <1>1, <2>1, NoneMade DEF HostTyped, TabTyped, OpenFine, PumpEnds, Finished, browserVars, Term
  <2>2. CASE ShellExits(t)
    BY <1>1, <2>2, NoneMade DEF HostTyped, TabTyped, OpenFine, ShellExits, Finished, browserVars
  <2>3. CASE FireRetired(t)
    BY <1>1, <2>3, NoneMade DEF HostTyped, TabTyped, OpenFine, FireRetired, browserVars
  <2> QED
    BY <2>1, <2>2, <2>3 DEF TermStep
<1>4. CASE Retire
  <2>1. /\ CmdTyped' /\ EntryTyped'
        /\ (\A k \in Command : CommandFine(k)') /\ EntryFine' /\ OneHolder'
        /\ \A k \in Command : ~Waits(k)' /\ (fut'[k] = "ok" => fut[k] = "ok")
    BY <1>1, <1>2, <1>4, RetireFine
  <2>2. TellingFine' /\ MarkersFine'
    BY <1>1, <1>2, <2>1, NobodyWaits DEF MarkersFine, browserVars
  <2> QED
    BY <1>3, <2>1, <2>2 DEF CmdFine, CmdInv
<1>5. CASE PumpEnds(t) /\ host # t
  <2>1. UNCHANGED <<entryVars, cmdVars, printed, life, retiring>>
    BY <1>5 DEF PumpEnds, Finished, entryVars, cmdVars
  <2>2. /\ CmdTyped' /\ EntryTyped'
        /\ (\A k \in Command : CommandFine(k)') /\ EntryFine' /\ OneHolder'
        /\ \A k \in Command : Waits(k)' <=> Waits(k)
    BY <1>1, <2>1, CommandsRest
  <2>3. TellingFine' /\ MarkersFine'
    BY <1>1, <1>2, <2>1, <2>2 DEF TellingFine, MarkersFine, cmdVars, browserVars
  <2> QED
    BY <1>3, <2>2, <2>3 DEF CmdFine, CmdInv
<1>6. (PumpEnds(t) /\ host = t) \/ ShellExits(t) \/ FireRetired(t) => Retire
  BY <1>1 DEF PumpEnds, ShellExits, FireRetired, Finished, OpenFine
<1> QED
  BY <1>4, <1>5, <1>6 DEF TermStep

\* The registry's bridge is popped and closed.
LEMMA PopFine ==
    ASSUME HostTyped, TabTyped, OpenFine, host \in Term, Close(host), host' = 0,
           retiring' = retiring \cup {host}, UNCHANGED <<replay, browserVars>>
    PROVE  HostTyped' /\ TabTyped' /\ OpenFine'
<1>1. /\ life' \in [Term -> {"none", "open", "closed"}] /\ finishing' \subseteq Term
      /\ sub' \in [Term -> Browser \cup {None}]
      /\ life'[host] = "closed" /\ \A u \in Term \ {host} : life'[u] = life[u]
      /\ finishing' \subseteq finishing \cup {host}
      /\ life[host] # "none" => \A u \in Term : life'[u] = "none" <=> life[u] = "none"
  BY CloseFine
<1>2. HostTyped' /\ TabTyped'
  BY <1>1 DEF HostTyped, TabTyped, browserVars
<1>3. /\ \A u \in Term : life'[u] = "none" <=> life[u] = "none"
      /\ \E n \in 0 .. MaxTerm : MadeTo(n)'
  <2>1. \A u \in Term : life'[u] = "none" <=> life[u] = "none"
    BY <1>1 DEF OpenFine, Term
  <2> QED
    BY <2>1, NoneMade
<1>4. \A t \in Term : life'[t] # "open"
  BY <1>1 DEF OpenFine
<1>5. \A t \in finishing' : life'[t] = "closed"
  BY <1>1 DEF OpenFine, HostTyped
<1> QED
  BY <1>2, <1>3, <1>4, <1>5 DEF OpenFine, browserVars

\* A deletion tells the command first; the reaper finds nobody at work.
LEMMA DeleteKeeps ==
    ASSUME CmdFine, Delete
    PROVE  CmdFine' /\ \A k \in Command : ~Waits(k)'
<1>1. /\ CmdInv /\ OpenFine /\ TellingFine /\ MarkersFine /\ HostTyped /\ TabTyped
  BY DEF CmdFine, CmdInv
<1>2. host \in Term
  BY <1>1 DEF HostTyped, Delete
<1>3. /\ CmdTyped' /\ EntryTyped'
      /\ (\A k \in Command : CommandFine(k)') /\ EntryFine' /\ OneHolder'
      /\ \A k \in Command : ~Waits(k)' /\ (fut'[k] = "ok" => fut[k] = "ok")
  BY <1>1, CancelFine DEF Delete, entryVars
<1>4. HostTyped' /\ TabTyped' /\ OpenFine'
  BY <1>1, <1>2, PopFine DEF Delete
<1>5. TellingFine' /\ MarkersFine'
  BY <1>1, <1>3, NobodyWaits DEF MarkersFine, Delete, browserVars
<1> QED
  BY <1>3, <1>4, <1>5 DEF CmdFine, CmdInv

LEMMA ReapKeeps ==
    ASSUME CmdFine, Reap
    PROVE  CmdFine' /\ (life[host] = "open" => \A k \in Command : ~Waits(k)')
<1>1. /\ CmdInv /\ OpenFine /\ TellingFine /\ MarkersFine /\ HostTyped /\ TabTyped
  BY DEF CmdFine, CmdInv
<1>2. host \in Term
  BY <1>1 DEF HostTyped, Reap
<1>3. /\ CmdTyped' /\ EntryTyped'
      /\ (\A k \in Command : CommandFine(k)') /\ EntryFine' /\ OneHolder'
      /\ \A k \in Command : Waits(k)' <=> Waits(k)
  BY <1>1, CommandsRest DEF Reap
<1>4. HostTyped' /\ TabTyped' /\ OpenFine'
  BY <1>1, <1>2, PopFine DEF Reap
<1>5. life[host] = "open" => \A k \in Command : ~Waits(k)
  BY <1>1, WaiterRuns DEF Reap, Abandoned
<1>6. MarkersFine'
  BY <1>1 DEF MarkersFine, Reap, browserVars, cmdVars
<1>7. TellingFine'
  BY <1>1, <1>2, <1>3, CloseFine DEF TellingFine, CmdInv, CommandFine, HostTyped, Reap, browserVars, cmdVars
<1> QED
  BY <1>3, <1>4, <1>5, <1>6, <1>7 DEF CmdFine, CmdInv

LEMMA InterruptKeeps ==
    ASSUME CmdFine, Interrupt
    PROVE  CmdFine'
<1>1. /\ CmdInv /\ OpenFine /\ TellingFine /\ MarkersFine /\ HostTyped /\ TabTyped
  BY DEF CmdFine, CmdInv
<1>2. /\ CmdTyped' /\ EntryTyped'
      /\ (\A k \in Command : CommandFine(k)') /\ EntryFine' /\ OneHolder'
      /\ \A k \in Command : ~Waits(k)' /\ (fut'[k] = "ok" => fut[k] = "ok")
  <2>1. UNCHANGED <<cpc, centry, cterm, result, printed, esess, slot, active, dead>> /\ CancelCommand
    BY DEF Interrupt, entryVars
  <2> QED
    BY <1>1, <2>1, CancelFine
<1>3. HostTyped' /\ TabTyped' /\ OpenFine'
  BY <1>1, NoneMade DEF HostTyped, TabTyped, OpenFine, Interrupt, hostVars, browserVars
<1>4. TellingFine' /\ MarkersFine'
  BY <1>1, <1>2, NobodyWaits DEF MarkersFine, Interrupt, hostVars, browserVars
<1> QED
  BY <1>2, <1>3, <1>4 DEF CmdFine, CmdInv

-----------------------------------------------------------------------------
\* A command that starts on the id's entry: it takes a free lock, so nobody else
\* waits, or is refused.
LEMMA StartFine ==
    ASSUME CmdInv, NEW k \in Command, cpc[k] \in {"idle", "adopt"}, NEW e \in Entry, Start(k, e),
           active' = e, active # 0 => active = e,
           esess' \in [Entry -> {0} \cup Term], esess'[e] \in Term,
           \A x \in Entry : esess[x] \in Term => esess'[x] \in Term,
           dead' = dead, printed' = printed,
           cterm' \in [Command -> {0} \cup Term], \A j \in Command \ {k} : cterm'[j] = cterm[j]
    PROVE  /\ CmdTyped' /\ EntryTyped'
           /\ (\A j \in Command : CommandFine(j)') /\ EntryFine' /\ OneHolder'
           /\ \A j \in Command : "ok" \in {fut'[j], result'[j]} => "ok" \in {fut[j], result[j]}
           /\ \A j \in Command : Waits(j)' /\ cpc'[j] = "waiting" =>
                 Waits(j) /\ cpc[j] = "waiting" /\ j # k
<1>1. CmdTyped /\ EntryTyped /\ EntryFine /\ OneHolder /\ k # None
  BY TerminalCommandsAssumption DEF CmdInv
<1>2. \A j \in Command : CommandFine(j)
  BY DEF CmdInv
<1>3. \A j \in Command : Waits(j) => active = e /\ centry[j] = e
  BY WaiterRuns, <1>2 DEF CommandFine
<1>4. CASE e \in dead \/ Locked(e)
  <2>1. /\ result' = [result EXCEPT ![k] = "refused"] /\ cpc' = [cpc EXCEPT ![k] = "done"]
        /\ UNCHANGED <<slot, centry, fut>>
    BY <1>4 DEF Start, Answer
  <2>2. CmdTyped' /\ EntryTyped'
    BY <1>1, <2>1 DEF CmdTyped, EntryTyped, Outcome
  <2>3. \A j \in Command : CommandFine(j)'
    BY <1>1, <1>2, <1>3, <2>1 DEF CmdTyped, CommandFine, Waits, Held, Collected
  <2>4. EntryFine' /\ OneHolder'
    BY <1>1, <2>1 DEF CmdTyped, EntryTyped, EntryFine, OneHolder, Held, Collected
  <2> QED
    BY <1>1, <2>1, <2>2, <2>3, <2>4 DEF CmdTyped, Waits
<1>5. CASE ~(e \in dead \/ Locked(e))
  <2>1. /\ slot' = [slot EXCEPT ![e] = k] /\ centry' = [centry EXCEPT ![k] = e]
        /\ fut' = [fut EXCEPT ![k] = "pending"] /\ cpc' = [cpc EXCEPT ![k] = "notify"]
        /\ UNCHANGED result
    BY <1>5 DEF Start
  <2>2. \A j \in Command : cpc[j] \in Held => centry[j] # e
    BY <1>5 DEF Locked, Held
  <2>3. \A j \in Command : ~Waits(j)
    BY <1>3, <2>2 DEF Waits, Held
  <2>4. slot[e] = None
    BY <1>1, <2>2 DEF EntryFine, EntryTyped, Collected, Held
  <2>5. CmdTyped' /\ EntryTyped'
    BY <1>1, <2>1 DEF CmdTyped, EntryTyped
  <2>6. ASSUME NEW j \in Command PROVE CommandFine(j)'
    <3>1. CASE j = k
      BY <1>1, <2>1, <3>1 DEF CmdTyped, EntryTyped, CommandFine, Waits, Held, Collected
    <3>2. CASE j # k
      <4>1. /\ cpc'[j] = cpc[j] /\ centry'[j] = centry[j] /\ cterm'[j] = cterm[j] /\ fut'[j] = fut[j]
        BY <1>1, <2>1, <3>2 DEF CmdTyped
      <4>2. ~Waits(j)' /\ (cpc[j] \in Held => slot'[centry[j]] = slot[centry[j]])
        BY <1>1, <2>1, <2>2, <2>3, <4>1 DEF EntryTyped, Waits
      <4> QED
        BY <1>2, <4>1, <4>2 DEF CommandFine, Held, Collected
    <3> QED
      BY <3>1, <3>2
  <2>7. EntryFine' /\ OneHolder'
    BY <1>1, <2>1, <2>2, <2>4
       DEF CmdTyped, EntryTyped, EntryFine, OneHolder, Held, Collected
  <2> QED
    BY <1>1, <2>1, <2>3, <2>5, <2>6, <2>7 DEF CmdTyped, Waits
<1> QED
  BY <1>4, <1>5

LEMMA PostKeeps ==
    ASSUME CmdFine, NEW k \in Command, Post(k)
    PROVE  CmdFine'
<1>1. /\ CmdInv /\ OpenFine /\ TellingFine /\ MarkersFine /\ HostTyped /\ TabTyped
      /\ CmdTyped /\ EntryTyped /\ EntryFine
  BY DEF CmdFine, CmdInv
<1>2. active \in Entry /\ esess[active] \in Term
  BY <1>1 DEF Post, EntryTyped, EntryFine
<1>3. /\ CmdTyped' /\ EntryTyped'
      /\ (\A j \in Command : CommandFine(j)') /\ EntryFine' /\ OneHolder'
      /\ \A j \in Command : "ok" \in {fut'[j], result'[j]} => "ok" \in {fut[j], result[j]}
      /\ \A j \in Command : Waits(j)' /\ cpc'[j] = "waiting" =>
            Waits(j) /\ cpc[j] = "waiting" /\ j # k
  BY <1>1, <1>2, StartFine DEF Post, CmdTyped, EntryTyped
<1>4. HostTyped' /\ TabTyped' /\ OpenFine'
  BY <1>1, NoneMade DEF HostTyped, TabTyped, OpenFine, Post, hostVars, browserVars
<1>5. TellingFine' /\ MarkersFine'
  BY <1>1, <1>3 DEF TellingFine, MarkersFine, Post, hostVars, browserVars
<1> QED
  BY <1>3, <1>4, <1>5 DEF CmdFine, CmdInv

LEMMA AdoptKeeps ==
    ASSUME CmdFine, NEW k \in Command, Adopt(k)
    PROVE  CmdFine'
<1>1. /\ CmdInv /\ OpenFine /\ TellingFine /\ MarkersFine /\ HostTyped /\ TabTyped
      /\ CmdTyped /\ EntryTyped /\ EntryFine
  BY DEF CmdFine, CmdInv
<1>2. PICK e \in Entry : GetOrCreate(cterm[k], e) /\ Start(k, e)
  BY DEF Adopt
<1>3. cterm[k] \in Term /\ cpc[k] = "adopt"
  BY <1>1 DEF CmdInv, CommandFine, Adopt
<1>4. /\ active' = e /\ esess' = [esess EXCEPT ![e] = cterm[k]]
      /\ active # 0 => active = e
      /\ cterm' = [cterm EXCEPT ![k] = 0]
  BY <1>2 DEF GetOrCreate, Adopt
<1>5. /\ esess' \in [Entry -> {0} \cup Term] /\ esess'[e] \in Term
      /\ \A x \in Entry : esess[x] \in Term => esess'[x] \in Term
      /\ cterm' \in [Command -> {0} \cup Term] /\ \A j \in Command \ {k} : cterm'[j] = cterm[j]
  BY <1>1, <1>3, <1>4 DEF EntryTyped, CmdTyped
<1>6. /\ CmdTyped' /\ EntryTyped'
      /\ (\A j \in Command : CommandFine(j)') /\ EntryFine' /\ OneHolder'
      /\ \A j \in Command : "ok" \in {fut'[j], result'[j]} => "ok" \in {fut[j], result[j]}
      /\ \A j \in Command : Waits(j)' /\ cpc'[j] = "waiting" =>
            Waits(j) /\ cpc[j] = "waiting" /\ j # k
  BY <1>1, <1>2, <1>3, <1>4, <1>5, StartFine DEF Adopt
<1>7. HostTyped' /\ TabTyped' /\ OpenFine'
  BY <1>1, NoneMade DEF HostTyped, TabTyped, OpenFine, Adopt, hostVars, browserVars
<1>8. TellingFine' /\ MarkersFine'
  BY <1>1, <1>5, <1>6 DEF TellingFine, MarkersFine, Adopt, hostVars, browserVars
<1> QED
  BY <1>6, <1>7, <1>8 DEF CmdFine, CmdInv

\* A post that finds no entry, and the end of a command's run.
LEMMA PostUnseenKeeps ==
    ASSUME CmdFine, NEW k \in Command, PostUnseen(k) \/ Unlock(k)
    PROVE  CmdFine'
<1>1. /\ CmdInv /\ OpenFine /\ TellingFine /\ MarkersFine /\ HostTyped /\ TabTyped
      /\ CmdTyped /\ EntryTyped /\ EntryFine /\ OneHolder
  BY DEF CmdFine, CmdInv
<1>2. /\ UNCHANGED <<hostVars, entryVars, browserVars, centry, fut, printed>>
      /\ cpc[k] \notin Collected /\ \E p \in {"adopt", "done"} : cpc' = [cpc EXCEPT ![k] = p]
      /\ cterm' = cterm \/ (cterm' = [cterm EXCEPT ![k] = host] /\ host \in Term)
      /\ cpc'[k] = "adopt" => cterm'[k] \in Term
      /\ result' = result \/ result' = [result EXCEPT ![k] = "refused"]
  BY <1>1 DEF PostUnseen, Unlock, Answer, Bridged, HostTyped, CmdTyped, Collected
<1>3. CmdTyped' /\ EntryTyped'
  BY <1>1, <1>2 DEF CmdTyped, EntryTyped, entryVars, Outcome
<1>4. \A j \in Command : Waits(j)' <=> Waits(j)
  BY <1>1, <1>2 DEF CmdTyped, Waits, Collected
<1>5. \A j \in Command : CommandFine(j)'
  BY <1>1, <1>2, <1>4 DEF CmdInv, CmdTyped, CommandFine, entryVars, Held, Collected
<1>6. EntryFine' /\ OneHolder'
  BY <1>1, <1>2 DEF CmdTyped, EntryTyped, EntryFine, OneHolder, entryVars, Held, Collected
<1>7. HostTyped' /\ TabTyped' /\ OpenFine'
  BY <1>1, <1>2, NoneMade DEF HostTyped, TabTyped, OpenFine, hostVars, browserVars
<1>8. TellingFine' /\ MarkersFine'
  BY <1>1, <1>2, <1>4 DEF TellingFine, MarkersFine, CmdTyped, hostVars, browserVars, Collected
<1> QED
  BY <1>3, <1>5, <1>6, <1>7, <1>8 DEF CmdFine, CmdInv

\* A command that ends: its entry collects no more.
LEMMA EndsFine ==
    ASSUME CmdFine, NEW k \in Command, cpc[k] \in Collected, NEW what \in Outcome, Ends(k, what),
           what = "ok" => fut[k] = "ok",
           fut' = fut \/ fut' = [fut EXCEPT ![k] = "cancelled"],
           UNCHANGED <<hostVars, active, esess, dead, browserVars, centry, cterm, printed>>
    PROVE  CmdFine'
<1>1. /\ CmdInv /\ OpenFine /\ TellingFine /\ MarkersFine /\ HostTyped /\ TabTyped
      /\ CmdTyped /\ EntryTyped /\ EntryFine /\ OneHolder
  BY DEF CmdFine, CmdInv
<1>2. /\ result' = [result EXCEPT ![k] = what] /\ cpc' = [cpc EXCEPT ![k] = "leaving"]
      /\ slot' = [slot EXCEPT ![centry[k]] = None]
      /\ centry[k] \in Entry /\ slot[centry[k]] = k
  BY <1>1 DEF Ends, CmdInv, CommandFine, Held, Collected
<1>3. CmdTyped' /\ EntryTyped'
  BY <1>1, <1>2 DEF CmdTyped, EntryTyped, Outcome
<1>4. \A j \in Command : (Waits(j)' => Waits(j)) /\ (j # k => cpc'[j] = cpc[j])
  BY <1>1, <1>2 DEF CmdTyped, Waits
<1>5. ASSUME NEW j \in Command PROVE CommandFine(j)'
  <2>1. CommandFine(j)
    BY <1>1 DEF CmdInv
  <2>2. CASE j = k
    BY <1>1, <1>2, <2>1, <2>2 DEF CmdTyped, CommandFine, Waits, Held, Collected
  <2>3. CASE j # k
    <3>1. cpc[j] \in Collected => centry[j] # centry[k]
      BY <1>1, <2>3 DEF OneHolder, Held, Collected
    <3> QED
      BY <1>1, <1>2, <1>4, <2>1, <2>3, <3>1 DEF CmdTyped, EntryTyped, CommandFine, Waits, Held, Collected
  <2> QED
    BY <2>2, <2>3
<1>6. EntryFine'
  BY <1>1, <1>2 DEF CmdTyped, EntryTyped, EntryFine, Collected
<1>7. OneHolder'
  BY <1>1, <1>2 DEF CmdTyped, OneHolder, Held, Collected
<1>8. HostTyped' /\ TabTyped' /\ OpenFine'
  BY <1>1, NoneMade DEF HostTyped, TabTyped, OpenFine, hostVars, browserVars
<1>9. TellingFine'
  BY <1>1, <1>2, <1>4 DEF TellingFine, CmdTyped, hostVars, browserVars
<1>10. MarkersFine'
  BY <1>1, <1>2 DEF MarkersFine, CmdTyped, hostVars, browserVars
<1> QED
  BY <1>3, <1>5, <1>6, <1>7, <1>8, <1>9, <1>10 DEF CmdFine, CmdInv

LEMMA RunKeeps ==
    ASSUME CmdFine, NEW k \in Command, Submit(k) \/ Resume(k) \/ Timeout(k)
    PROVE  CmdFine'
<1>1. /\ CmdInv /\ OpenFine /\ TellingFine /\ MarkersFine /\ HostTyped /\ TabTyped
      /\ CmdTyped /\ EntryTyped /\ EntryFine /\ OneHolder /\ CommandFine(k)
  BY DEF CmdFine, CmdInv
<1>2. CASE Resume(k)
  <2>1. fut[k] \in Outcome /\ (fut[k] = "ok" => fut[k] = "ok")
    BY <1>1, <1>2 DEF Resume, CmdTyped, CommandFine, Collected, Outcome
  <2> QED
    BY <1>2, <2>1, EndsFine DEF Resume, Collected
<1>3. CASE Timeout(k)
  BY <1>3, EndsFine DEF Timeout, Collected, Outcome
<1>4. CASE Submit(k) /\ Ends(k, "disconnected") /\ UNCHANGED cterm
  BY <1>4, EndsFine DEF Submit, Collected, Outcome
<1>5. CASE /\ Submit(k) /\ life[esess[centry[k]]] = "open"
           /\ cterm' = [cterm EXCEPT ![k] = esess[centry[k]]]
           /\ cpc' = [cpc EXCEPT ![k] = "waiting"]
           /\ UNCHANGED <<slot, result>>
  <2>1. /\ centry[k] \in Entry /\ esess[centry[k]] \in Term /\ cpc[k] = "notify"
        /\ UNCHANGED <<hostVars, active, esess, dead, browserVars, centry, fut, printed>>
    BY <1>1, <1>5 DEF Submit, CommandFine, Held
  <2>2. CmdTyped' /\ EntryTyped'
    BY <1>1, <1>5, <2>1 DEF CmdTyped, EntryTyped
  <2>3. \A j \in Command : Waits(j)' <=> Waits(j)
    BY <1>1, <1>5, <2>1 DEF CmdTyped, Waits
  <2>4. \A j \in Command : CommandFine(j)'
    BY <1>1, <1>5, <2>1, <2>3 DEF CmdInv, CmdTyped, CommandFine, Held, Collected
  <2>5. EntryFine' /\ OneHolder'
    BY <1>1, <1>5, <2>1 DEF CmdTyped, EntryTyped, EntryFine, OneHolder, Held, Collected
  <2>6. HostTyped' /\ TabTyped' /\ OpenFine'
    BY <1>1, <2>1, NoneMade DEF HostTyped, TabTyped, OpenFine, hostVars, browserVars
  <2>7. TellingFine' /\ MarkersFine'
    BY <1>1, <1>5, <2>1, <2>3 DEF TellingFine, MarkersFine, CmdTyped, hostVars, browserVars
  <2> QED
    BY <2>2, <2>4, <2>5, <2>6, <2>7 DEF CmdFine, CmdInv
<1> QED
  BY <1>2, <1>3, <1>4, <1>5 DEF Submit

LEMMA PrintsKeeps ==
    ASSUME CmdFine, NEW k \in Command, Prints(k)
    PROVE  CmdFine'
<1>1. /\ CmdInv /\ OpenFine /\ TellingFine /\ MarkersFine /\ HostTyped /\ TabTyped
      /\ CmdTyped /\ EntryTyped /\ EntryFine /\ OneHolder
  BY DEF CmdFine, CmdInv
<1>2. CmdTyped' /\ EntryTyped' /\ HostTyped' /\ TabTyped'
  BY <1>1 DEF CmdTyped, EntryTyped, HostTyped, TabTyped, Prints, entryVars, cmdVars
<1>3. \A j \in Command : Waits(j)' <=> Waits(j)
  BY DEF Waits, Prints, cmdVars
<1>4. (\A j \in Command : CommandFine(j)') /\ EntryFine' /\ OneHolder'
  BY <1>1, <1>3 DEF CmdInv, CommandFine, EntryFine, OneHolder, Prints, entryVars, cmdVars
<1>5. OpenFine'
  BY <1>1, NoneMade DEF OpenFine, Prints
<1>6. TellingFine'
  BY <1>1, <1>3 DEF TellingFine, Prints, cmdVars
<1>7. MarkersFine'
  BY <1>1 DEF MarkersFine, HostTyped, TabTyped, Prints, cmdVars
<1> QED
  BY <1>2, <1>4, <1>5, <1>6, <1>7 DEF CmdFine, CmdInv

-----------------------------------------------------------------------------
LEMMA NextCommands == CmdFine /\ [CommandsNext]_commandVars => CmdFine'
<1> SUFFICES ASSUME CmdFine, [CommandsNext]_commandVars PROVE CmdFine'
  OBVIOUS
<1>1. CASE UNCHANGED commandVars
  <2>1. /\ CmdInv /\ OpenFine /\ TellingFine /\ MarkersFine /\ HostTyped /\ TabTyped
        /\ UNCHANGED <<hostVars, entryVars, browserVars, cmdVars, printed>>
    BY <1>1 DEF CmdFine, CmdInv, commandVars
  <2>2. /\ CmdTyped' /\ EntryTyped'
        /\ (\A j \in Command : CommandFine(j)') /\ EntryFine' /\ OneHolder'
        /\ \A j \in Command : Waits(j)' <=> Waits(j)
    BY <2>1, CommandsRest
  <2>3. HostTyped' /\ TabTyped' /\ OpenFine' /\ TellingFine' /\ MarkersFine'
    BY <2>1, <2>2, NoneMade
       DEF HostTyped, TabTyped, OpenFine, TellingFine, MarkersFine, hostVars, browserVars, cmdVars
  <2> QED
    BY <2>2, <2>3 DEF CmdFine, CmdInv
<1>2. ASSUME NEW b \in Browser, BrowserStep(b) PROVE CmdFine'
  BY <1>2, AttachKeeps, BindKeeps, BrowserRests, ReadOutputKeeps, EndBridgeKeeps DEF BrowserStep
<1>3. ASSUME NEW t \in Term, TermStep(t) PROVE CmdFine'
  BY <1>3, TermKeeps
<1>4. ASSUME NEW k \in Command, CommandStep(k) PROVE CmdFine'
  BY <1>4, PostKeeps, PostUnseenKeeps, AdoptKeeps, RunKeeps, PrintsKeeps DEF CommandStep
<1> QED
  BY <1>1, <1>2, <1>3, <1>4, DeleteKeeps, ReapKeeps, InterruptKeeps DEF CommandsNext

LEMMA CommandsInvariant == CommandsSpec => []CmdFine
<1>1. CommandsInit => CmdFine
  BY InitCommands
<1>2. CmdFine /\ [CommandsNext]_commandVars => CmdFine'
  BY NextCommands
<1> QED
  BY <1>1, <1>2, PTL DEF CommandsSpec

\* Every reachable state is well typed; at most one command holds an entry's lock.
THEOREM CommandsTypeCorrect == CommandsSpec => []CommandsTypeOK
<1>1. CmdFine => CommandsTypeOK
  <2> SUFFICES ASSUME CmdFine PROVE CommandsTypeOK
    OBVIOUS
  <2>1. CmdTyped /\ EntryTyped /\ HostTyped /\ TabTyped /\ OneHolder
    BY DEF CmdFine, CmdInv
  <2>2. ASSUME NEW e \in Entry
        PROVE  Cardinality({k \in Command : centry[k] = e
                   /\ cpc[k] \in {"notify", "waiting", "leaving"}}) <= 1
    <3> DEFINE H == {k \in Command : centry[k] = e /\ cpc[k] \in {"notify", "waiting", "leaving"}}
    <3>1. CASE H = {}
      BY <3>1, FS_EmptySet
    <3>2. CASE H # {}
      <4>1. PICK k : k \in H
        BY <3>2
      <4>2. H = {k}
        BY <2>1, <4>1 DEF OneHolder, Held
      <4>3. Cardinality({k}) = 1
        BY FS_Singleton
      <4> QED
        BY <4>2, <4>3
    <3> QED
      BY <3>1, <3>2
  <2> DEFINE Locks(e) == {k \in Command : centry[k] = e
                              /\ cpc[k] \in {"notify", "waiting", "leaving"}}
  <2>3. (\A e \in Entry : Cardinality(Locks(e)) <= 1) => CommandsTypeOK
    BY <2>1 DEF CommandsTypeOK, CmdTyped, EntryTyped, HostTyped, TabTyped
  <2> QED
    BY <2>2, <2>3
<1> QED
  BY <1>1, CommandsInvariant, PTL

\* ActiveTerminalRegistry: a command that waits is the one the id's entry
\* collects for, whatever attaches, adopts, detaches and is retired meanwhile.
THEOREM AddressableCommands == CommandsSpec => []RunningIsAddressable
<1>1. CmdFine => RunningIsAddressable
  BY WaiterRuns DEF CmdFine, RunningIsAddressable
<1> QED
  BY <1>1, CommandsInvariant, PTL

\* on_retired: a command whose shell is gone is still to be told.
THEOREM GoneCommandsTold == CommandsSpec => []GoneIsTold
<1>1. CmdFine => GoneIsTold
  BY DEF CmdFine, TellingFine, GoneIsTold
<1> QED
  BY <1>1, CommandsInvariant, PTL

\* observe_output: success means that the command's own marker was printed.
THEOREM OkCommandsFinished == CommandsSpec => []OkIsFinished
<1>1. CmdFine => OkIsFinished
  BY DEF CmdFine, MarkersFine, OkIsFinished
<1> QED
  BY <1>1, CommandsInvariant, PTL

\* _reap_loop and close_node_terminal: no live terminal is taken away from a
\* command that waits in it and has not been told.
THEOREM SparedWork == CommandsSpec => WorkIsSpared
<1> DEFINE A == \A t \in retiring' \ retiring :
          life[t] = "open" => \A k \in Command : cterm[k] = t => ~Waits(k)'
<1>1. CmdFine /\ [CommandsNext]_commandVars => [A]_commandVars
  <2> SUFFICES ASSUME CmdFine, [CommandsNext]_commandVars,
                      NEW t \in retiring' \ retiring, life[t] = "open"
               PROVE  \A k \in Command : ~Waits(k)'
    OBVIOUS
  <2>1. CASE Delete
    BY <2>1, DeleteKeeps
  <2>2. CASE Reap
    BY <2>2, ReapKeeps DEF Reap
  <2>3. retiring' \subseteq retiring \/ Delete \/ Reap
    BY DEF CommandsNext, commandVars, hostVars, BrowserStep, TermStep, CommandStep, Attach, Bind, GreetFails,
           ReadOutput, Leave, CloseFrame, EndBridge, PumpEnds, ShellExits, FireRetired, Post,
           PostUnseen, Adopt, Submit, Resume, Timeout, Unlock, Prints, Interrupt
  <2> QED
    BY <2>1, <2>2, <2>3
<1> QED
  BY <1>1, CommandsInvariant, PTL DEF CommandsSpec, WorkIsSpared
==============================================================================

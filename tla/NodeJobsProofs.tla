---------------------------- MODULE NodeJobsProofs ----------------------------
(***************************************************************************)
(* Proofs about NodeJobs, for any jobs of each family and any capacities.  *)
(***************************************************************************)
EXTENDS NodeJobs, TLAPS

Snapshot == [status : {"none", "running"} \cup Terminal, shown : 0 .. MaxEvents,
             events : Seq(1 .. MaxEvents)]
Order == {"start", "cancel"} \X Job
Report == ({"ack"} \X Job \X {"ok", "error"}) \cup ({"event"} \X Job \X (1 .. MaxEvents))
             \cup ({"result"} \X Job \X Ended)

\* TypeOK, with the state's functions.
Typed ==
    /\ made \in 0 .. MaxConn /\ cur \in {0, made}
    /\ snap \in [Conn -> [Job -> Snapshot]]
    /\ acks \in [Conn -> SUBSET Job]
    /\ down \in [Conn -> Seq(Order)] /\ \A c \in Conn : Len(down[c]) <= Buffer
    /\ up \in [Conn -> Seq(Report)]
    /\ pc \in [Job -> Phase]
    /\ via \in [Job -> 0 .. MaxConn]
    /\ run \in [Job -> {"none", "busy", "refused"} \cup Ended]
    /\ seq \in [Job -> 0 .. MaxEvents]
    /\ on \in [Job -> 0 .. MaxConn]
    /\ folded \subseteq ToolJob

\* A job has one snapshot, on the connection its call dispatched to, and the
\* node knows of no job whose start it has not taken.
Called(j) ==
    /\ via[j] <= made
    /\ pc[j] = "idle" => via[j] = 0 /\ run[j] = "none"
    /\ run[j] = "none" => seq[j] = 0
    /\ on[j] # 0 <=> run[j] \in Ended
    /\ via[j] # 0 => snap[via[j]][j].status # "none"
    /\ \A c \in Conn : c # via[j] => snap[c][j] = NoSnap

\* A start is sent once, and is on its way until the node takes it.
StartedOnce(j) ==
    \A c \in Conn : \A i \in 1 .. Len(down[c]) :
        down[c][i] = <<"start", j>> =>
            /\ pc[j] # "idle" /\ run[j] = "none"
            /\ \A d \in Conn : \A k \in 1 .. Len(down[d]) :
                   down[d][k] = <<"start", j>> => c = d /\ i = k

\* Report i of queue q is of type t and about job j.
Says(q, i, t, j) == q[i][1] = t /\ q[i][2] = j

\* An event or a result is about a job the node has run, a result is its verdict.
Reported(j) ==
    \A c \in Conn : \A i \in 1 .. Len(up[c]) :
        /\ Says(up[c], i, "event", j) => run[j] # "none"
        /\ Says(up[c], i, "result", j) => run[j] = up[c][i][3]

\* A finished snapshot has the verdict the node reached.
ShownTruth(j) ==
    \A c \in Conn :
        /\ snap[c][j].status = "completed" => run[j] = "ok"
        /\ snap[c][j].status = "failed" => run[j] = "broken"

\* A result on the connection of the dispatch is in its snapshot or on its way.
Arrives(j) ==
    on[j] # 0 /\ on[j] = via[j] =>
        \/ snap[via[j]][j].status \in Terminal
        \/ \E i \in 1 .. Len(up[via[j]]) : Says(up[via[j]], i, "result", j)

\* Event n of job j is in queue q.
Queued(q, n, j) == \E i \in 1 .. Len(q) : Says(q, i, "event", j) /\ q[i][3] = n

\* The events of job j in queue q come in order and without a gap after event n.
Follow(q, n, j) ==
    /\ \A i, k \in 1 .. Len(q) :
           Says(q, i, "event", j) /\ Says(q, k, "event", j) /\ i < k => q[i][3] < q[k][3]
    /\ \A i \in 1 .. Len(q) : Says(q, i, "event", j) =>
           n < q[i][3] /\ \A m \in n + 1 .. q[i][3] : Queued(q, m, j)

\* They are the events after n up to event top.
Reach(q, n, top, j) ==
    /\ n <= top
    /\ \A i \in 1 .. Len(q) : Says(q, i, "event", j) => q[i][3] <= top
    /\ \A m \in n + 1 .. top : Queued(q, m, j)

\* On the connection of the dispatch, events follow the one the snapshot shows;
\* while it is the node's connection, up to the last one sent.
InOrder(j) ==
    via[j] # 0 =>
        LET q == up[via[j]]   n == snap[via[j]][j].shown
        IN Follow(q, n, j) /\ (cur = via[j] => Reach(q, n, seq[j], j))

\* What a snapshot that shows event n lists: the last EventCap events.
Newest(n) == [i \in 1 .. (IF n < EventCap THEN n ELSE EventCap)
                |-> n - (IF n < EventCap THEN n ELSE EventCap) + i]
Listed(j) ==
    \A c \in Conn : snap[c][j].events = IF j \in IosJob THEN << >> ELSE Newest(snap[c][j].shown)

JobFine(j) ==
    /\ Called(j) /\ StartedOnce(j) /\ Reported(j) /\ ShownTruth(j)
    /\ Arrives(j) /\ InOrder(j) /\ Listed(j)

JobInv == Typed /\ \A j \in Job : JobFine(j)

----------------------------------------------------------------------------
(***************************************************************************)
(* Queues and snapshots.                                                   *)
(***************************************************************************)

\* A queue that a frame is added to.
LEMMA Grows ==
    ASSUME NEW S, NEW q \in Seq(S), NEW f \in S
    PROVE  /\ Append(q, f) \in Seq(S) /\ Len(Append(q, f)) = Len(q) + 1 /\ Len(q) \in Nat
           /\ \A i \in 1 .. Len(q) : i \in 1 .. Len(Append(q, f)) /\ Append(q, f)[i] = q[i]
           /\ Len(q) + 1 \in 1 .. Len(Append(q, f)) /\ Append(q, f)[Len(q) + 1] = f
           /\ \A i \in 1 .. Len(Append(q, f)) : i \in 1 .. Len(q) \/ i = Len(q) + 1
OBVIOUS

\* A queue whose first frame is taken.
LEMMA Shrinks ==
    ASSUME NEW S, NEW q \in Seq(S), q # << >>
    PROVE  /\ Tail(q) \in Seq(S) /\ Len(Tail(q)) = Len(q) - 1 /\ Len(q) \in Nat
           /\ Head(q) = q[1] /\ 1 \in 1 .. Len(q) /\ q[1] \in S
           /\ \A i \in 1 .. Len(Tail(q)) : i + 1 \in 2 .. Len(q) /\ Tail(q)[i] = q[i + 1]
           /\ \A i \in 2 .. Len(q) : i - 1 \in 1 .. Len(Tail(q)) /\ Tail(q)[i - 1] = q[i]
OBVIOUS

\* The next event is listed after the ones before it, the oldest gives way.
LEMMA NextIsListed ==
    ASSUME NEW s \in Snapshot, NEW j \in Job \ IosJob, s.events = Newest(s.shown),
           NEW k \in 1 .. MaxEvents, k = s.shown + 1
    PROVE  UpdateEvent(s, j, k).events = Newest(UpdateEvent(s, j, k).shown)
<1> DEFINE m == s.shown
<1> DEFINE all == Append(s.events, k)
<1>1. m \in Nat /\ k = m + 1 /\ EventCap \in Nat \ {0} /\ s.events \in Seq(1 .. MaxEvents)
  BY NodeJobsAssumption DEF Snapshot
<1>2. CASE s.status = "none"
  BY <1>2 DEF UpdateEvent
<1>3. CASE s.status # "none"
  <2>1. UpdateEvent(s, j, k) = [s EXCEPT !.shown = k, !.events = IF Len(all) > EventCap
                                                                 THEN Tail(all) ELSE all]
    BY <1>3 DEF UpdateEvent
  <2>2. /\ UpdateEvent(s, j, k).shown = m + 1
        /\ UpdateEvent(s, j, k).events = IF Len(all) > EventCap THEN Tail(all) ELSE all
    BY <2>1 DEF Snapshot
  <2>3. /\ all \in Seq(1 .. MaxEvents) /\ Len(all) = Len(s.events) + 1
        /\ \A i \in 1 .. Len(s.events) : all[i] = s.events[i]
        /\ all[Len(s.events) + 1] = k
    BY <1>1, Grows
  <2> HIDE DEF all
  <2>4. CASE m < EventCap
    <3>1. Len(s.events) = m /\ \A i \in 1 .. m : s.events[i] = i
      BY <1>1, <2>4 DEF Newest
    <3>2. all = [i \in 1 .. m + 1 |-> i]
      <4>1. Len(all) = m + 1 /\ all = [i \in 1 .. Len(all) |-> all[i]]
        BY <1>1, <2>3, <3>1
      <4>2. ASSUME NEW i \in 1 .. m + 1 PROVE all[i] = i
        <5>1. CASE i = m + 1
          BY <1>1, <2>3, <3>1, <5>1
        <5>2. CASE i <= m
          <6>1. i \in 1 .. m
            BY <1>1, <5>2
          <6> QED
            BY <2>3, <3>1, <6>1
        <5> QED
          BY <1>1, <5>1, <5>2
      <4> QED
        BY <4>1, <4>2
    <3>3. Newest(m + 1) = [i \in 1 .. m + 1 |-> i]
      BY <1>1, <2>4 DEF Newest
    <3> QED
      <4>1. Len(all) = m + 1 /\ ~(Len(all) > EventCap)
        BY <1>1, <2>3, <2>4, <3>1
      <4> QED
        BY <2>2, <3>2, <3>3, <4>1
  <2>5. CASE m >= EventCap
    <3>1. Len(s.events) = EventCap /\ \A i \in 1 .. EventCap : s.events[i] = m - EventCap + i
      BY <1>1, <2>5 DEF Newest
    <3>2. /\ all # << >> /\ Len(Tail(all)) = EventCap /\ Tail(all) \in Seq(1 .. MaxEvents)
          /\ \A i \in 1 .. EventCap : Tail(all)[i] = all[i + 1]
      <4>1. Len(all) = EventCap + 1 /\ all # << >>
        BY <1>1, <2>3, <3>1
      <4>2. /\ Tail(all) \in Seq(1 .. MaxEvents) /\ Len(Tail(all)) = Len(all) - 1
            /\ \A i \in 1 .. Len(Tail(all)) : Tail(all)[i] = all[i + 1]
        BY <2>3, <4>1, Shrinks
      <4> QED
        BY <1>1, <4>1, <4>2
    <3>3. \A i \in 1 .. EventCap : Tail(all)[i] = m + 1 - EventCap + i
      <4> SUFFICES ASSUME NEW i \in 1 .. EventCap PROVE all[i + 1] = m + 1 - EventCap + i
        BY <3>2
      <4>1. CASE i = EventCap
        BY <1>1, <2>3, <3>1, <4>1, SMTT(40)
      <4>2. CASE i < EventCap
        <5>1. i + 1 \in 1 .. EventCap /\ m - EventCap + (i + 1) = m + 1 - EventCap + i
          <6>1. m \in Int /\ EventCap \in Int /\ i \in Int /\ 1 <= i
            BY <1>1
          <6> QED
            BY <4>2, <6>1
        <5> QED
          BY <2>3, <3>1, <5>1
      <4> QED
        BY <1>1, <4>1, <4>2
    <3>4. Newest(m + 1) = [i \in 1 .. EventCap |-> m + 1 - EventCap + i]
      BY <1>1, <2>5 DEF Newest
    <3>5. Tail(all) = Newest(m + 1)
      <4>1. Tail(all) = [i \in 1 .. EventCap |-> Tail(all)[i]]
        <5>1. PICK t \in Seq(1 .. MaxEvents) : t = Tail(all)
          BY <3>2
        <5>2. t = [i \in 1 .. Len(t) |-> t[i]]
          OBVIOUS
        <5> QED
          BY <3>2, <5>1, <5>2
      <4> QED
        BY <3>3, <3>4, <4>1
    <3>6. Len(all) > EventCap
      BY <1>1, <2>3, <3>1
    <3> QED
      BY <2>2, <3>5, <3>6
  <2> QED
    BY <1>1, <2>4, <2>5
<1> QED
  BY <1>2, <1>3

\* What reports make of a snapshot is a snapshot.
LEMMA SnapshotTypes ==
    ASSUME NEW s \in Snapshot, NEW j \in Job
    PROVE  /\ \A k \in 1 .. MaxEvents : UpdateEvent(s, j, k) \in Snapshot
           /\ \A v \in Ended : DeliverResult(s, v) \in Snapshot
<1>1. ASSUME NEW k \in 1 .. MaxEvents PROVE UpdateEvent(s, j, k) \in Snapshot
  <2>1. s.events \in Seq(1 .. MaxEvents)
    BY DEF Snapshot
  <2>2. PICK all \in Seq(1 .. MaxEvents) : all = Append(s.events, k) /\ all # << >>
    <3>1. /\ Append(s.events, k) \in Seq(1 .. MaxEvents)
          /\ Len(Append(s.events, k)) = Len(s.events) + 1 /\ Len(s.events) \in Nat
      BY <2>1
    <3>2. Append(s.events, k) # << >>
      BY <3>1
    <3> QED
      BY <3>1, <3>2
  <2>3. Tail(all) \in Seq(1 .. MaxEvents)
    BY <2>2
  <2>4. PICK e \in Seq(1 .. MaxEvents) :
           e = IF j \in IosJob THEN s.events ELSE IF Len(all) > EventCap THEN Tail(all) ELSE all
    BY <2>1, <2>2, <2>3
  <2>5. UpdateEvent(s, j, k) \in {s, [s EXCEPT !.shown = k, !.events = e]}
    BY <2>2, <2>4 DEF UpdateEvent
  <2>6. k \in 0 .. MaxEvents
    BY NodeJobsAssumption
  <2> QED
    BY <2>4, <2>5, <2>6 DEF Snapshot
<1>2. ASSUME NEW v \in Ended PROVE DeliverResult(s, v) \in Snapshot
  BY DEF DeliverResult, Snapshot, Terminal
<1> QED
  BY <1>1, <1>2

----------------------------------------------------------------------------
(***************************************************************************)
(* Reports.                                                                *)
(***************************************************************************)

\* The node does not take back that it runs a job, or the verdict it reached.
Onward ==
    \A j \in Job :
        /\ run[j] \in Ended => run'[j] = run[j]
        /\ run[j] # "none" => run'[j] # "none"

\* So a report that was true stays true, wherever it moves in its queue.
LEMMA ReportStays ==
    ASSUME Typed, Onward, NEW j \in Job, Reported(j), NEW c \in Conn, NEW i \in 1 .. Len(up[c]),
           NEW d \in Conn, NEW k \in 1 .. Len(up'[d]), up'[d][k] = up[c][i]
    PROVE  /\ Says(up'[d], k, "event", j) => run'[j] # "none"
           /\ Says(up'[d], k, "result", j) => run'[j] = up'[d][k][3]
<1>1. /\ Says(up[c], i, "event", j) => run[j] # "none"
      /\ Says(up[c], i, "result", j) => run[j] = up[c][i][3]
  BY DEF Reported
<1>2. up[c][i][1] = "result" => up[c][i][3] \in Ended
  <2>1. up[c] \in Seq(Report)
    BY DEF Typed
  <2>2. up[c][i] \in Report
    <3> HIDE DEF Report
    <3> QED
      BY <2>1
  <2> QED
    BY <2>2 DEF Report
<1>3. /\ run[j] # "none" => run'[j] # "none"
      /\ run[j] \in Ended => run'[j] = run[j]
  BY DEF Onward
<1> QED
  BY <1>1, <1>2, <1>3 DEF Says

\* A report is added to the queue of the node's connection.
LEMMA Emitted ==
    ASSUME Typed, cur # 0, NEW f \in Report, Emit(f)
    PROVE  /\ cur \in Conn /\ up' \in [Conn -> Seq(Report)]
           /\ \A c \in Conn : /\ Len(up[c]) \in Nat
                              /\ c # cur => up'[c] = up[c]
                              /\ \A i \in 1 .. Len(up[c]) :
                                    i \in 1 .. Len(up'[c]) /\ up'[c][i] = up[c][i]
           /\ Len(up[cur]) + 1 \in 1 .. Len(up'[cur]) /\ up'[cur][Len(up[cur]) + 1] = f
           /\ \A i \in 1 .. Len(up'[cur]) : i \in 1 .. Len(up[cur]) \/ i = Len(up[cur]) + 1
<1> HIDE DEF Report
<1>1. cur \in Conn
  BY NodeJobsAssumption DEF Typed, Conn
<1>2. up \in [Conn -> Seq(Report)] /\ up' = [up EXCEPT ![cur] = Append(up[cur], f)]
  BY DEF Typed, Emit
<1>3. up[cur] \in Seq(Report)
  BY <1>1, <1>2
<1>4. up'[cur] = Append(up[cur], f) /\ \A c \in Conn : c # cur => up'[c] = up[c]
  BY <1>1, <1>2
<1>5. /\ Append(up[cur], f) \in Seq(Report) /\ Len(up[cur]) \in Nat
      /\ \A i \in 1 .. Len(up[cur]) :
            i \in 1 .. Len(Append(up[cur], f)) /\ Append(up[cur], f)[i] = up[cur][i]
      /\ Len(up[cur]) + 1 \in 1 .. Len(Append(up[cur], f))
      /\ Append(up[cur], f)[Len(up[cur]) + 1] = f
      /\ \A i \in 1 .. Len(Append(up[cur], f)) : i \in 1 .. Len(up[cur]) \/ i = Len(up[cur]) + 1
  BY <1>3, Grows
<1>6. \A c \in Conn : Len(up[c]) \in Nat
  BY <1>2
<1>7. up' \in [Conn -> Seq(Report)]
  BY <1>2, <1>5
<1> QED
  BY <1>1, <1>4, <1>5, <1>6, <1>7

----------------------------------------------------------------------------
(***************************************************************************)
(* Events in a queue.                                                      *)
(***************************************************************************)

LEMMA ReportTypes ==
    ASSUME NEW f \in Report
    PROVE  /\ f[2] \in Job
           /\ f[1] = "event" => f[3] \in 1 .. MaxEvents
           /\ f[1] = "result" => f[3] \in Ended
BY DEF Report

\* A report that is no event of job j leaves its events as they are.
LEMMA OtherAdded ==
    ASSUME NEW q \in Seq(Report), NEW f \in Report, NEW j \in Job, ~(f[1] = "event" /\ f[2] = j)
    PROVE  /\ \A n : Follow(q, n, j) => Follow(Append(q, f), n, j)
           /\ \A n, top : Reach(q, n, top, j) => Reach(Append(q, f), n, top, j)
<1> HIDE DEF Report
<1> DEFINE p == Append(q, f)
<1>1. /\ \A i \in 1 .. Len(q) : i \in 1 .. Len(p) /\ p[i] = q[i]
      /\ Len(q) + 1 \in 1 .. Len(p) /\ p[Len(q) + 1] = f
      /\ \A i \in 1 .. Len(p) : i \in 1 .. Len(q) \/ i = Len(q) + 1
  BY Grows
<1> HIDE DEF p
<1>2. ASSUME NEW i \in 1 .. Len(p), Says(p, i, "event", j)
      PROVE  i \in 1 .. Len(q) /\ Says(q, i, "event", j) /\ p[i] = q[i]
  BY <1>1, <1>2 DEF Says
<1>3. \A n : Queued(q, n, j) => Queued(p, n, j)
  BY <1>1 DEF Queued, Says
<1>4. ASSUME NEW n, Follow(q, n, j) PROVE Follow(p, n, j)
  BY <1>2, <1>3, <1>4 DEF Follow
<1>5. ASSUME NEW n, NEW top, Reach(q, n, top, j) PROVE Reach(p, n, top, j)
  BY <1>2, <1>3, <1>5 DEF Reach
<1> QED
  BY <1>4, <1>5 DEF p

\* The next event of job j follows the ones before it.
LEMMA NextAdded ==
    ASSUME NEW q \in Seq(Report), NEW j \in Job, NEW n \in Nat, NEW top \in Nat,
           NEW f \in Report, f = <<"event", j, top + 1>>, Follow(q, n, j), Reach(q, n, top, j)
    PROVE  Follow(Append(q, f), n, j) /\ Reach(Append(q, f), n, top + 1, j)
<1> HIDE DEF Report
<1> DEFINE p == Append(q, f)
<1>1. /\ \A i \in 1 .. Len(q) : i \in 1 .. Len(p) /\ p[i] = q[i]
      /\ Len(q) + 1 \in 1 .. Len(p) /\ p[Len(q) + 1] = f
      /\ Len(q) \in Nat /\ Len(p) = Len(q) + 1
      /\ \A i \in 1 .. Len(p) : i \in 1 .. Len(q) \/ i = Len(q) + 1
  BY Grows
<1> HIDE DEF p
<1>2. ASSUME NEW i \in 1 .. Len(p), Says(p, i, "event", j)
      PROVE  \/ i = Len(q) + 1 /\ p[i][3] = top + 1
             \/ /\ i \in 1 .. Len(q) /\ Says(q, i, "event", j) /\ p[i] = q[i]
                /\ p[i][3] <= top /\ p[i][3] \in Nat
  <2>1. CASE i = Len(q) + 1
    BY <1>1, <2>1
  <2>2. CASE i \in 1 .. Len(q)
    <3>1. Says(q, i, "event", j) /\ p[i] = q[i] /\ q[i] \in Report
      BY <1>1, <1>2, <2>2 DEF Says
    <3>2. q[i][3] \in 1 .. MaxEvents
      BY <3>1, ReportTypes DEF Says
    <3>3. q[i][3] <= top
      BY <2>2, <3>1 DEF Reach
    <3> QED
      BY <2>2, <3>1, <3>2, <3>3
  <2> QED
    BY <1>1, <2>1, <2>2
<1>3. \A m : Queued(q, m, j) => Queued(p, m, j)
  BY <1>1 DEF Queued, Says
<1>4. Queued(p, top + 1, j)
  BY <1>1 DEF Queued, Says
<1>5. \A m \in n + 1 .. top + 1 : Queued(p, m, j)
  <2> SUFFICES ASSUME NEW m \in n + 1 .. top + 1, m # top + 1 PROVE Queued(p, m, j)
    BY <1>4
  <2>1. m \in n + 1 .. top
    OBVIOUS
  <2> QED
    BY <1>3, <2>1 DEF Reach
<1>6. Reach(p, n, top + 1, j)
  BY <1>2, <1>5 DEF Reach
<1>7. ASSUME NEW i \in 1 .. Len(p), NEW k \in 1 .. Len(p),
             Says(p, i, "event", j), Says(p, k, "event", j), i < k
      PROVE  p[i][3] < p[k][3]
  <2>1. i # Len(q) + 1
    BY <1>1, <1>7
  <2>2. i \in 1 .. Len(q) /\ Says(q, i, "event", j) /\ p[i] = q[i] /\ p[i][3] <= top /\ p[i][3] \in Nat
    BY <1>2, <1>7, <2>1
  <2>3. CASE k = Len(q) + 1
    <3>1. p[k][3] = top + 1
      BY <1>1, <2>3
    <3> QED
      BY <2>2, <3>1
  <2>4. CASE k # Len(q) + 1
    <3>1. k \in 1 .. Len(q) /\ Says(q, k, "event", j) /\ p[k] = q[k]
      BY <1>2, <1>7, <2>4
    <3> QED
      BY <1>7, <2>2, <3>1 DEF Follow
  <2> QED
    BY <2>3, <2>4
<1>8. ASSUME NEW i \in 1 .. Len(p), Says(p, i, "event", j)
      PROVE  n < p[i][3] /\ \A m \in n + 1 .. p[i][3] : Queued(p, m, j)
  <2>1. CASE i = Len(q) + 1 /\ p[i][3] = top + 1
    BY <1>5, <2>1 DEF Reach
  <2>2. CASE i \in 1 .. Len(q) /\ Says(q, i, "event", j) /\ p[i] = q[i]
    BY <1>3, <2>2 DEF Follow
  <2> QED
    BY <1>2, <1>8, <2>1, <2>2
<1> QED
  BY <1>6, <1>7, <1>8 DEF Follow, p

\* An event still queued behind the first report is queued when that is taken.
LEMMA TailQueued ==
    ASSUME NEW q \in Seq(Report), q # << >>, NEW j \in Job, NEW m, Queued(q, m, j),
           ~(Says(q, 1, "event", j) /\ q[1][3] = m)
    PROVE  Queued(Tail(q), m, j)
<1> HIDE DEF Report
<1> DEFINE p == Tail(q)
<1>1. Len(q) \in Nat /\ \A i \in 2 .. Len(q) : i - 1 \in 1 .. Len(p) /\ p[i - 1] = q[i]
  BY Shrinks
<1> HIDE DEF p
<1>2. PICK i \in 1 .. Len(q) : Says(q, i, "event", j) /\ q[i][3] = m
  BY DEF Queued
<1>3. i \in 2 .. Len(q)
  <2>1. i # 1
    BY <1>2
  <2> QED
    BY <1>1, <2>1
<1>4. i - 1 \in 1 .. Len(p) /\ Says(p, i - 1, "event", j) /\ p[i - 1][3] = m
  BY <1>1, <1>2, <1>3 DEF Says
<1> QED
  BY <1>4 DEF Queued, p

\* A report that is no event of job j is taken, and leaves its events as they are.
LEMMA OtherTaken ==
    ASSUME NEW q \in Seq(Report), q # << >>, NEW j \in Job, ~Says(q, 1, "event", j)
    PROVE  /\ \A n : Follow(q, n, j) => Follow(Tail(q), n, j)
           /\ \A n, top : Reach(q, n, top, j) => Reach(Tail(q), n, top, j)
<1> HIDE DEF Report
<1>1. \A m : Queued(q, m, j) => Queued(Tail(q), m, j)
  BY TailQueued
<1> DEFINE p == Tail(q)
<1>2. /\ Len(q) \in Nat /\ Len(p) = Len(q) - 1
      /\ \A i \in 1 .. Len(p) : i + 1 \in 2 .. Len(q) /\ p[i] = q[i + 1]
  BY Shrinks
<1>3. \A m : Queued(q, m, j) => Queued(p, m, j)
  BY <1>1
<1> HIDE DEF p
<1>4. ASSUME NEW i \in 1 .. Len(p), Says(p, i, "event", j)
      PROVE  i + 1 \in 1 .. Len(q) /\ Says(q, i + 1, "event", j) /\ p[i] = q[i + 1]
  BY <1>2, <1>4 DEF Says
<1>5. ASSUME NEW n, Follow(q, n, j) PROVE Follow(p, n, j)
  <2>1. ASSUME NEW i \in 1 .. Len(p), NEW k \in 1 .. Len(p),
               Says(p, i, "event", j), Says(p, k, "event", j), i < k
        PROVE  p[i][3] < p[k][3]
    <3>1. i + 1 < k + 1
      BY <1>2, <2>1
    <3> QED
      BY <1>4, <1>5, <2>1, <3>1 DEF Follow
  <2>2. ASSUME NEW i \in 1 .. Len(p), Says(p, i, "event", j)
        PROVE  n < p[i][3] /\ \A m \in n + 1 .. p[i][3] : Queued(p, m, j)
    BY <1>3, <1>4, <1>5, <2>2 DEF Follow
  <2> QED
    BY <2>1, <2>2 DEF Follow
<1>6. ASSUME NEW n, NEW top, Reach(q, n, top, j) PROVE Reach(p, n, top, j)
  BY <1>3, <1>4, <1>6 DEF Reach
<1> QED
  BY <1>5, <1>6 DEF p

\* An event of job j is taken: it is the one after event n.
LEMMA NextTaken ==
    ASSUME NEW q \in Seq(Report), q # << >>, NEW j \in Job, NEW n \in Nat,
           Says(q, 1, "event", j), Follow(q, n, j)
    PROVE  /\ q[1][3] = n + 1
           /\ Follow(Tail(q), n + 1, j)
           /\ \A top : Reach(q, n, top, j) => Reach(Tail(q), n + 1, top, j)
<1> HIDE DEF Report
<1> DEFINE p == Tail(q)
<1>1. /\ Len(q) \in Nat /\ Len(p) = Len(q) - 1 /\ 1 \in 1 .. Len(q) /\ q[1] \in Report
      /\ \A i \in 1 .. Len(p) : i + 1 \in 2 .. Len(q) /\ p[i] = q[i + 1]
  BY Shrinks
<1>2. \A m : m # q[1][3] /\ Queued(q, m, j) => Queued(p, m, j)
  BY TailQueued
<1> HIDE DEF p
<1>3. q[1][3] \in Nat /\ n < q[1][3]
  <2>1. q[1][3] \in 1 .. MaxEvents
    BY <1>1, ReportTypes DEF Says
  <2> QED
    BY <1>1, <2>1 DEF Follow
<1>4. q[1][3] = n + 1
  <2> SUFFICES ASSUME n + 1 < q[1][3] PROVE FALSE
    BY <1>3
  <2>1. n + 1 \in n + 1 .. q[1][3]
    BY <1>3
  <2>2. Queued(q, n + 1, j)
    BY <1>1, <2>1 DEF Follow
  <2>3. PICK i \in 1 .. Len(q) : Says(q, i, "event", j) /\ q[i][3] = n + 1
    BY <2>2 DEF Queued
  <2>4. i # 1
    BY <2>3
  <2>5. 1 < i
    BY <1>1, <2>4
  <2>6. q[1][3] < q[i][3]
    BY <1>1, <2>3, <2>5 DEF Follow
  <2> QED
    BY <1>3, <2>3, <2>6
<1>5. ASSUME NEW i \in 1 .. Len(p), Says(p, i, "event", j)
      PROVE  i + 1 \in 1 .. Len(q) /\ 1 < i + 1 /\ Says(q, i + 1, "event", j) /\ p[i] = q[i + 1]
  BY <1>1, <1>5 DEF Says
<1>6. Follow(p, n + 1, j)
  <2>1. ASSUME NEW i \in 1 .. Len(p), NEW k \in 1 .. Len(p),
               Says(p, i, "event", j), Says(p, k, "event", j), i < k
        PROVE  p[i][3] < p[k][3]
    <3>1. i + 1 < k + 1
      BY <1>1, <2>1
    <3> QED
      BY <1>5, <2>1, <3>1 DEF Follow
  <2>2. ASSUME NEW i \in 1 .. Len(p), Says(p, i, "event", j)
        PROVE  n + 1 < p[i][3] /\ \A m \in n + 1 + 1 .. p[i][3] : Queued(p, m, j)
    <3>1. n + 1 < p[i][3]
      BY <1>1, <1>4, <1>5, <2>2 DEF Follow
    <3>2. ASSUME NEW m \in n + 1 + 1 .. p[i][3] PROVE Queued(p, m, j)
      <4>1. p[i][3] = q[i + 1][3] /\ \A l \in n + 1 .. q[i + 1][3] : Queued(q, l, j)
        BY <1>5, <2>2 DEF Follow
      <4>2. m \in n + 1 .. q[i + 1][3] /\ m # n + 1
        BY <4>1
      <4> QED
        BY <1>2, <1>4, <4>1, <4>2
    <3> QED
      BY <3>1, <3>2
  <2> QED
    BY <2>1, <2>2 DEF Follow
<1>7. ASSUME NEW top, Reach(q, n, top, j) PROVE Reach(p, n + 1, top, j)
  <2>1. n + 1 <= top
    BY <1>1, <1>4, <1>7 DEF Reach
  <2>2. \A i \in 1 .. Len(p) : Says(p, i, "event", j) => p[i][3] <= top
    BY <1>5, <1>7 DEF Reach
  <2>3. ASSUME NEW m \in n + 1 + 1 .. top PROVE Queued(p, m, j)
    <3>1. m \in n + 1 .. top /\ m # n + 1
      OBVIOUS
    <3> QED
      BY <1>2, <1>4, <1>7, <3>1 DEF Reach
  <2> QED
    BY <2>1, <2>2, <2>3 DEF Reach
<1> QED
  BY <1>4, <1>6, <1>7 DEF p

\* A queue without events of job j, and none was sent.
LEMMA NoEvents ==
    ASSUME NEW q, NEW j, \A i \in 1 .. Len(q) : ~Says(q, i, "event", j)
    PROVE  Follow(q, 0, j) /\ Reach(q, 0, 0, j)
BY DEF Follow, Reach

----------------------------------------------------------------------------
(***************************************************************************)
(* The calls and the connections.                                          *)
(***************************************************************************)

\* What a step leaves alone when it moves no report and touches no snapshot.
CallsOnly ==
    /\ UNCHANGED <<snap, up, via, run, seq, on>>
    /\ made' \in Nat /\ made <= made'
    /\ cur' = cur \/ cur' = 0 \/ cur' > made
    /\ \A j \in Job : pc'[j] = "idle" => pc[j] = "idle"

\* Such a step keeps all that is said of a job but where its start is.
LEMMA CallsKeep ==
    ASSUME Typed, CallsOnly, NEW j \in Job, JobFine(j)
    PROVE  Called(j)' /\ Reported(j)' /\ ShownTruth(j)' /\ Arrives(j)' /\ InOrder(j)' /\ Listed(j)'
<1>1. Called(j)'
  <2>1. made \in Nat /\ via[j] \in Nat
    BY NodeJobsAssumption DEF Typed
  <2>2. Called(j) /\ UNCHANGED <<snap, via, run, seq, on>> /\ made <= made' /\ made' \in Nat
    BY DEF JobFine, CallsOnly
  <2>3. pc'[j] = "idle" => pc[j] = "idle"
    BY DEF CallsOnly
  <2> QED
    BY <2>1, <2>2, <2>3 DEF Called
<1>2. Reported(j)'
  BY DEF JobFine, CallsOnly, Reported
<1>3. ShownTruth(j)'
  BY DEF JobFine, CallsOnly, ShownTruth
<1>4. Arrives(j)'
  BY DEF JobFine, CallsOnly, Arrives
<1>5. InOrder(j)'
  <2>1. made \in Nat /\ via[j] \in Nat /\ via[j] <= made
    BY NodeJobsAssumption DEF Typed, JobFine, Called
  <2>2. via[j] # 0 /\ cur' = via[j] => cur = via[j]
    BY <2>1 DEF CallsOnly
  <2> QED
    BY <2>2 DEF JobFine, CallsOnly, InOrder
<1>6. Listed(j)'
  BY DEF JobFine, CallsOnly, Listed
<1> QED
  BY <1>1, <1>2, <1>3, <1>4, <1>5, <1>6

\* A step that queues no start keeps where the others are.
LEMMA StartsKept ==
    ASSUME NEW j \in Job, StartedOnce(j), run'[j] = run[j], pc'[j] = "idle" => pc[j] = "idle",
           \A c \in Conn : \A i \in 1 .. Len(down'[c]) : down'[c][i] = <<"start", j>> =>
               i \in 1 .. Len(down[c]) /\ down[c][i] = <<"start", j>>
    PROVE  StartedOnce(j)'
BY SMTT(40) DEF StartedOnce

\* A function of two arguments changed at one place.
LEMMA OneChange ==
    ASSUME NEW S, NEW T, NEW V, NEW f \in [S -> [T -> V]], NEW c \in S, NEW j \in T, NEW v \in V
    PROVE  LET g == [f EXCEPT ![c][j] = v]
           IN /\ g \in [S -> [T -> V]] /\ g[c][j] = v
              /\ \A d \in S, i \in T : d # c \/ i # j => g[d][i] = f[d][i]
OBVIOUS

\* A connection that is the node's.
LEMMA Online ==
    ASSUME Typed, cur # 0 PROVE cur \in Conn /\ cur = made
BY NodeJobsAssumption DEF Typed, Conn

\* A frame is queued on the node's connection.
LEMMA OrderAdded ==
    ASSUME Typed, cur # 0, Room(cur), NEW f \in Order, down' = [down EXCEPT ![cur] = Append(@, f)]
    PROVE  /\ down' \in [Conn -> Seq(Order)] /\ \A c \in Conn : Len(down'[c]) <= Buffer
           /\ \A c \in Conn : \A i \in 1 .. Len(down'[c]) :
                  \/ i \in 1 .. Len(down[c]) /\ down'[c][i] = down[c][i]
                  \/ c = cur /\ i = Len(down[cur]) + 1 /\ down'[c][i] = f
<1> HIDE DEF Order
<1>1. cur \in Conn /\ down[cur] \in Seq(Order) /\ down \in [Conn -> Seq(Order)]
  BY Online DEF Typed
<1>2. down'[cur] = Append(down[cur], f) /\ \A c \in Conn : c # cur => down'[c] = down[c]
  BY <1>1
<1> DEFINE p == Append(down[cur], f)
<1>3. /\ p \in Seq(Order) /\ Len(p) = Len(down[cur]) + 1 /\ Len(down[cur]) \in Nat
      /\ \A i \in 1 .. Len(down[cur]) : p[i] = down[cur][i]
      /\ p[Len(down[cur]) + 1] = f
      /\ \A i \in 1 .. Len(p) : i \in 1 .. Len(down[cur]) \/ i = Len(down[cur]) + 1
  BY <1>1, Grows
<1>4. down' = [down EXCEPT ![cur] = p]
  OBVIOUS
<1> HIDE DEF p
<1>5. down' \in [Conn -> Seq(Order)]
  BY <1>1, <1>3, <1>4
<1>6. down'[cur] = p
  BY <1>1, <1>4
<1>7. ASSUME NEW c \in Conn PROVE Len(down'[c]) <= Buffer
  <2>1. CASE c = cur
    BY <1>3, <1>6, <2>1, NodeJobsAssumption DEF Room
  <2>2. CASE c # cur
    BY <1>2, <2>2 DEF Typed
  <2> QED
    BY <2>1, <2>2
<1>8. ASSUME NEW c \in Conn, NEW i \in 1 .. Len(down'[c])
      PROVE  \/ i \in 1 .. Len(down[c]) /\ down'[c][i] = down[c][i]
             \/ c = cur /\ i = Len(down[cur]) + 1 /\ down'[c][i] = f
  <2>1. CASE c = cur
    BY <1>3, <1>6, <2>1
  <2>2. CASE c # cur
    BY <1>2, <2>2
  <2> QED
    BY <2>1, <2>2
<1> QED
  BY <1>5, <1>7, <1>8

\* The rest of an action that moves no report: its types and its orders.
LEMMA CallStep ==
    ASSUME JobInv, CallsOnly, Typed', \A j \in Job : StartedOnce(j)'
    PROVE  JobInv'
<1>1. ASSUME NEW j \in Job PROVE JobFine(j)'
  <2>1. JobFine(j) /\ StartedOnce(j)'
    BY DEF JobInv
  <2>2. Called(j)' /\ Reported(j)' /\ ShownTruth(j)' /\ Arrives(j)' /\ InOrder(j)' /\ Listed(j)'
    BY <2>1, CallsKeep DEF JobInv
  <2> QED
    BY <2>1, <2>2 DEF JobFine
<1> QED
  BY <1>1 DEF JobInv

\* No start is queued by a step that leaves the queues to the node.
LEMMA SameOrders ==
    ASSUME JobInv, CallsOnly, UNCHANGED down
    PROVE  \A j \in Job : StartedOnce(j)'
<1> SUFFICES ASSUME NEW j \in Job PROVE StartedOnce(j)'
  OBVIOUS
<1>1. StartedOnce(j) /\ run'[j] = run[j] /\ (pc'[j] = "idle" => pc[j] = "idle")
  BY DEF JobInv, JobFine, CallsOnly
<1> QED
  BY <1>1, StartsKept

LEMMA TimeoutKeeps ==
    ASSUME JobInv, NEW j \in Job, Timeout(j) PROVE JobInv'
<1>1. CallsOnly
  BY NodeJobsAssumption DEF JobInv, Typed, Timeout, CallsOnly, wireVars, nodeVars
<1>2. Typed'
  <2>1. pc' \in [Job -> Phase] /\ acks' \in [Conn -> SUBSET Job]
    BY DEF JobInv, Typed, Timeout, Phase
  <2> QED
    BY <2>1 DEF JobInv, Typed, Timeout, wireVars, nodeVars
<1>3. UNCHANGED down
  BY DEF Timeout, wireVars
<1> QED
  BY <1>1, <1>2, <1>3, SameOrders, CallStep

LEMMA CancelKeeps ==
    ASSUME JobInv, NEW j \in Job, Cancel(j) PROVE JobInv'
<1>1. CallsOnly
  BY NodeJobsAssumption DEF JobInv, Typed, Cancel, CallsOnly, callVars, nodeVars
<1>2. <<"cancel", j>> \in Order
  BY DEF Order
<1>3. /\ down' \in [Conn -> Seq(Order)] /\ \A c \in Conn : Len(down'[c]) <= Buffer
      /\ \A c \in Conn : \A i \in 1 .. Len(down'[c]) :
             \/ i \in 1 .. Len(down[c]) /\ down'[c][i] = down[c][i]
             \/ c = cur /\ i = Len(down[cur]) + 1 /\ down'[c][i] = <<"cancel", j>>
  BY <1>2, OrderAdded DEF JobInv, Cancel
<1>4. Typed'
  BY <1>3 DEF JobInv, Typed, Cancel, callVars, nodeVars
<1>5. ASSUME NEW jj \in Job PROVE StartedOnce(jj)'
  <2>1. StartedOnce(jj) /\ run'[jj] = run[jj] /\ pc'[jj] = pc[jj]
    BY DEF JobInv, JobFine, Cancel, callVars, nodeVars
  <2>2. \A c \in Conn : \A i \in 1 .. Len(down'[c]) : down'[c][i] = <<"start", jj>> =>
            i \in 1 .. Len(down[c]) /\ down[c][i] = <<"start", jj>>
    BY <1>3
  <2> QED
    BY <2>1, <2>2, StartsKept
<1> QED
  BY <1>1, <1>4, <1>5, CallStep

\* A closing connection fails the calls that wait on it.
LEMMA ClosedCalls ==
    ASSUME Typed, NEW c, Close(c)
    PROVE  /\ acks' \in [Conn -> SUBSET Job] /\ pc' \in [Job -> Phase]
           /\ \A j \in Job : pc'[j] = "idle" => pc[j] = "idle"
BY DEF Typed, Close, Phase

LEMMA ConnectKeeps ==
    ASSUME JobInv, Connect PROVE JobInv'
<1>1. made \in Nat /\ made + 1 \in Conn /\ made' = made + 1 /\ cur' = made + 1
  BY NodeJobsAssumption DEF JobInv, Typed, Connect, Conn
<1>2. /\ acks' \in [Conn -> SUBSET Job] /\ pc' \in [Job -> Phase]
      /\ \A j \in Job : pc'[j] = "idle" => pc[j] = "idle"
  BY ClosedCalls DEF JobInv, Connect
<1>3. CallsOnly
  BY <1>1, <1>2 DEF Connect, CallsOnly, nodeVars
<1>4. /\ down' \in [Conn -> Seq(Order)] /\ Len(down'[made + 1]) = 0
      /\ \A c \in Conn : c # made + 1 => down'[c] = down[c]
  <2>1. << >> \in Seq(Order) /\ down \in [Conn -> Seq(Order)]
    BY DEF JobInv, Typed
  <2> HIDE DEF Order
  <2> QED
    BY <1>1, <2>1 DEF Connect
<1>5. Typed'
  <2>1. made' \in 0 .. MaxConn /\ cur' \in {0, made'}
    BY <1>1 DEF Conn
  <2>2. ASSUME NEW c \in Conn PROVE Len(down'[c]) <= Buffer
    <3>1. CASE c = made + 1
      BY <1>4, <3>1, NodeJobsAssumption
    <3>2. CASE c # made + 1
      BY <1>4, <3>2 DEF JobInv, Typed
    <3> QED
      BY <3>1, <3>2
  <2> QED
    BY <1>2, <1>4, <2>1, <2>2 DEF JobInv, Typed, Connect, nodeVars
<1>6. ASSUME NEW j \in Job PROVE StartedOnce(j)'
  <2>1. StartedOnce(j) /\ run'[j] = run[j]
    BY DEF JobInv, JobFine, Connect, nodeVars
  <2>2. ASSUME NEW c \in Conn, NEW i \in 1 .. Len(down'[c]), down'[c][i] = <<"start", j>>
        PROVE  i \in 1 .. Len(down[c]) /\ down[c][i] = <<"start", j>>
    BY <1>4, <2>2
  <2> QED
    BY <1>2, <2>1, <2>2, StartsKept
<1> QED
  BY <1>3, <1>5, <1>6, CallStep

LEMMA DisconnectKeeps ==
    ASSUME JobInv, Disconnect PROVE JobInv'
<1>1. /\ acks' \in [Conn -> SUBSET Job] /\ pc' \in [Job -> Phase]
      /\ \A j \in Job : pc'[j] = "idle" => pc[j] = "idle"
  BY ClosedCalls DEF JobInv, Disconnect
<1>2. CallsOnly /\ UNCHANGED down
  BY <1>1, NodeJobsAssumption DEF JobInv, Typed, Disconnect, CallsOnly, wireVars, nodeVars
<1>3. Typed'
  BY <1>1 DEF JobInv, Typed, Disconnect, wireVars, nodeVars
<1> QED
  BY <1>2, <1>3, SameOrders, CallStep

\* A start is refused, or its snapshot is there before its frame is sent.
LEMMA StartKeeps ==
    ASSUME JobInv, NEW j \in Job, Start(j) PROVE JobInv'
<1> USE DEF JobInv
<1>1. pc[j] = "idle" /\ via[j] = 0 /\ run[j] = "none" /\ seq[j] = 0 /\ on[j] = 0
  BY DEF Start, JobFine, Called, Ended
<1>2. UNCHANGED <<made, cur, up, run, seq, on, folded>>
  BY DEF Start, nodeVars
<1>3. CASE UNCHANGED <<snap, down, acks, via>> /\ pc' = [pc EXCEPT ![j] = "failed"]
  <2>1. CallsOnly /\ UNCHANGED down
    BY <1>2, <1>3, NodeJobsAssumption DEF Typed, CallsOnly
  <2>2. Typed'
    BY <1>2, <1>3 DEF Typed, Phase
  <2> QED
    BY <2>1, <2>2, SameOrders, CallStep
<1>4. CASE cur # 0 /\ InitSnapshot(cur, j) /\ via' = [via EXCEPT ![j] = cur]
  <2>1. cur \in Conn /\ cur = made
    BY <1>4, Online
  <2> DEFINE fresh == [NoSnap EXCEPT !.status = "running"]
  <2>2. fresh \in Snapshot /\ fresh.status = "running" /\ fresh.shown = 0 /\ fresh.events = << >>
    <3>1. << >> \in Seq(1 .. MaxEvents) /\ 0 \in 0 .. MaxEvents
      BY NodeJobsAssumption
    <3> QED
      BY <3>1 DEF Snapshot, NoSnap
  <2>3. /\ snap' \in [Conn -> [Job -> Snapshot]] /\ snap'[cur][j] = fresh
        /\ \A c \in Conn, i \in Job : c # cur \/ i # j => snap'[c][i] = snap[c][i]
    BY <1>4, <2>1, <2>2, OneChange DEF Typed, InitSnapshot
  <2> HIDE DEF fresh
  <2>4. /\ via' \in [Job -> 0 .. MaxConn] /\ via'[j] = cur
        /\ \A i \in Job : i # j => via'[i] = via[i]
    BY <1>4, <2>1, NodeJobsAssumption DEF Typed, Conn
  <2>5. /\ pc' \in [Job -> Phase] /\ pc'[j] # "idle"
        /\ \A i \in Job : i # j => pc'[i] = pc[i]
        /\ acks' \in [Conn -> SUBSET Job]
        /\ UNCHANGED down \/ (Room(cur) /\ down' = [down EXCEPT ![cur] = Append(@, <<"start", j>>)])
    <3>1. pc' = [pc EXCEPT ![j] = "failed"] \/ pc' = [pc EXCEPT ![j] = "waiting"]
      BY <1>4 DEF Start
    <3>2. UNCHANGED acks \/ acks' = [acks EXCEPT ![cur] = @ \cup {j}]
      BY <1>4 DEF Start
    <3>3. UNCHANGED down \/ (Room(cur) /\ down' = [down EXCEPT ![cur] = Append(@, <<"start", j>>)])
      BY <1>4 DEF Start
    <3>4. /\ pc' \in [Job -> Phase] /\ pc'[j] # "idle"
          /\ \A i \in Job : i # j => pc'[i] = pc[i]
      BY <3>1 DEF Typed, Phase
    <3>5. acks' \in [Conn -> SUBSET Job]
      <4>1. acks \in [Conn -> SUBSET Job] /\ acks[cur] \cup {j} \in SUBSET Job
        BY <2>1 DEF Typed
      <4> QED
        BY <3>2, <4>1
    <3> QED
      BY <3>3, <3>4, <3>5
  <2>6. /\ down' \in [Conn -> Seq(Order)] /\ \A c \in Conn : Len(down'[c]) <= Buffer
        /\ \A c \in Conn : \A i \in 1 .. Len(down'[c]) :
               \/ i \in 1 .. Len(down[c]) /\ down'[c][i] = down[c][i]
               \/ c = cur /\ i = Len(down[cur]) + 1 /\ down'[c][i] = <<"start", j>>
    <3>1. CASE UNCHANGED down
      BY <3>1 DEF Typed
    <3>2. CASE Room(cur) /\ down' = [down EXCEPT ![cur] = Append(@, <<"start", j>>)]
      <4>1. <<"start", j>> \in Order
        BY DEF Order
      <4> QED
        BY <1>4, <3>2, <4>1, OrderAdded
    <3> QED
      BY <2>5, <3>1, <3>2
  <2>7. Typed'
    BY <1>2, <2>3, <2>4, <2>5, <2>6 DEF Typed
  <2>8. ASSUME NEW i \in Job, i # j PROVE JobFine(i)'
    <3>1. JobFine(i) /\ UNCHANGED <<made, cur, up, via[i], pc[i], run[i], seq[i], on[i]>>
          /\ \A c \in Conn : snap'[c][i] = snap[c][i]
      BY <1>2, <2>3, <2>4, <2>5, <2>8
    <3>2. via[i] # 0 => via[i] \in Conn
      BY NodeJobsAssumption DEF Typed, Conn
    <3>3. Called(i)'
      BY <3>1, <3>2 DEF JobFine, Called
    <3>4. StartedOnce(i)'
      <4>1. \A c \in Conn : \A k \in 1 .. Len(down'[c]) : down'[c][k] = <<"start", i>> =>
                k \in 1 .. Len(down[c]) /\ down[c][k] = <<"start", i>>
        BY <2>6, <2>8
      <4> QED
        BY <3>1, <4>1, StartsKept DEF JobFine
    <3>5. Reported(i)'
      BY <3>1 DEF JobFine, Reported
    <3>6. ShownTruth(i)'
      BY <3>1 DEF JobFine, ShownTruth
    <3>7. Arrives(i)'
      BY <3>1, <3>2 DEF JobFine, Arrives
    <3>8. InOrder(i)'
      BY <3>1, <3>2 DEF JobFine, InOrder
    <3>9. Listed(i)'
      BY <3>1 DEF JobFine, Listed
    <3> QED
      BY <3>3, <3>4, <3>5, <3>6, <3>7, <3>8, <3>9 DEF JobFine
  <2>9. JobFine(j)'
    <3>1. JobFine(j) /\ UNCHANGED <<made, cur, up, run[j], seq[j], on[j]>>
      BY <1>2
    <3>2. \A c \in Conn : snap[c][j] = NoSnap
      BY <1>1, <2>1, NodeJobsAssumption DEF JobFine, Called, Conn
    <3>3. Called(j)'
      <4>1. via'[j] = cur /\ cur # 0 /\ snap'[cur][j].status # "none"
        BY <1>4, <2>2, <2>3, <2>4
      <4>2. \A c \in Conn : c # via'[j] => snap'[c][j] = NoSnap
        BY <2>3, <2>4, <3>2
      <4>3. via'[j] <= made' /\ pc'[j] # "idle"
        BY <2>1, <2>4, <2>5, <3>1, NodeJobsAssumption DEF Typed
      <4>4. on'[j] = 0 /\ seq'[j] = 0 /\ run'[j] = "none"
        BY <1>1, <3>1
      <4> QED
        BY <4>1, <4>2, <4>3, <4>4 DEF Called, Ended
    <3>4. StartedOnce(j)'
      <4>1. \A c \in Conn : \A i \in 1 .. Len(down[c]) : down[c][i] # <<"start", j>>
        BY <1>1, <3>1 DEF JobFine, StartedOnce
      <4>2. \A c \in Conn : \A i \in 1 .. Len(down'[c]) : down'[c][i] = <<"start", j>> =>
                c = cur /\ i = Len(down[cur]) + 1
        BY <2>6, <4>1
      <4> QED
        BY <1>1, <2>5, <3>1, <4>2 DEF StartedOnce
    <3>5. Reported(j)'
      BY <3>1 DEF JobFine, Reported
    <3>6. ShownTruth(j)'
      <4>1. \A c \in Conn : snap'[c][j].status \in {"none", "running"}
        BY <2>2, <2>3, <3>2 DEF NoSnap
      <4> QED
        BY <4>1 DEF ShownTruth
    <3>7. Arrives(j)'
      BY <1>1, <3>1 DEF Arrives
    <3>8. InOrder(j)'
      <4>1. \A i \in 1 .. Len(up[cur]) : ~Says(up[cur], i, "event", j)
        BY <1>1, <2>1, <3>1 DEF JobFine, Reported
      <4>2. Follow(up[cur], 0, j) /\ Reach(up[cur], 0, 0, j)
        BY <4>1, NoEvents
      <4> QED
        BY <1>1, <2>2, <2>3, <2>4, <3>1, <4>2 DEF InOrder
    <3>9. Listed(j)'
      <4>1. Newest(0) = << >>
        BY NodeJobsAssumption DEF Newest
      <4> QED
        BY <2>2, <2>3, <3>2, <4>1 DEF Listed, NoSnap
    <3> QED
      BY <3>3, <3>4, <3>5, <3>6, <3>7, <3>8, <3>9 DEF JobFine
  <2> QED
    BY <2>7, <2>8, <2>9
<1> QED
  BY <1>3, <1>4 DEF Start

----------------------------------------------------------------------------
(***************************************************************************)
(* The node.                                                               *)
(***************************************************************************)

\* The node sends report f, which says what it has done.
Tells(f) ==
    /\ cur # 0 /\ Emit(f) /\ Onward
    /\ UNCHANGED <<made, cur, snap, pc, via>>
    /\ f[1] = "event" => run'[f[2]] # "none" /\ f[3] = seq[f[2]] + 1
    /\ f[1] = "result" => run'[f[2]] = f[3]
    /\ \A j \in Job :
          /\ seq'[j] = IF f[1] = "event" /\ f[2] = j THEN seq[j] + 1 ELSE seq[j]
          /\ on'[j] = on[j] \/ (on'[j] = cur /\ f[1] = "result" /\ f[2] = j)
          /\ on'[j] # 0 <=> run'[j] \in Ended
          /\ pc[j] = "idle" => run'[j] = "none"

\* What is said of a job stays true when the node sends such a report.
LEMMA TellingKeeps ==
    ASSUME JobInv, NEW f \in Report, Tells(f), NEW j \in Job
    PROVE  Called(j)' /\ Reported(j)' /\ ShownTruth(j)' /\ Arrives(j)' /\ InOrder(j)' /\ Listed(j)'
<1>1. Typed /\ JobFine(j)
  BY DEF JobInv
<1>2. /\ cur \in Conn /\ up' \in [Conn -> Seq(Report)]
      /\ \A c \in Conn : /\ Len(up[c]) \in Nat
                         /\ c # cur => up'[c] = up[c]
                         /\ \A i \in 1 .. Len(up[c]) :
                               i \in 1 .. Len(up'[c]) /\ up'[c][i] = up[c][i]
      /\ Len(up[cur]) + 1 \in 1 .. Len(up'[cur]) /\ up'[cur][Len(up[cur]) + 1] = f
      /\ \A i \in 1 .. Len(up'[cur]) : i \in 1 .. Len(up[cur]) \/ i = Len(up[cur]) + 1
  <2> HIDE DEF Report
  <2> QED
    BY <1>1, Emitted DEF Tells
<1>3. (run'[j] = "none" => run[j] = "none") /\ (run[j] \in Ended => run'[j] = run[j])
  BY DEF Tells, Onward
<1>4. via[j] \in Nat /\ seq[j] \in Nat /\ (via[j] # 0 => via[j] \in Conn)
  BY <1>1, NodeJobsAssumption DEF Typed, Conn
<1>5. Called(j)'
  <2>1. Called(j) /\ UNCHANGED <<made, snap, pc, via>>
    BY <1>1 DEF JobFine, Tells
  <2>2. /\ on'[j] # 0 <=> run'[j] \in Ended
        /\ pc[j] = "idle" => run'[j] = "none"
        /\ run'[j] = "none" => seq'[j] = 0
    BY <1>3, <2>1 DEF Tells, Called
  <2> QED
    BY <2>1, <2>2 DEF Called
<1>6. Reported(j)'
  <2> SUFFICES ASSUME NEW c \in Conn, NEW i \in 1 .. Len(up'[c])
               PROVE  /\ Says(up'[c], i, "event", j) => run'[j] # "none"
                      /\ Says(up'[c], i, "result", j) => run'[j] = up'[c][i][3]
    BY DEF Reported, Says
  <2>1. CASE i \in 1 .. Len(up[c])
    <3>1. up'[c][i] = up[c][i]
      BY <1>2, <2>1
    <3> QED
      BY <1>1, <2>1, <3>1, ReportStays DEF JobFine, Tells
  <2>2. CASE i \notin 1 .. Len(up[c])
    <3>1. up'[c][i] = f
      BY <1>2, <2>2
    <3> QED
      BY <3>1 DEF Tells, Says
  <2> QED
    BY <2>1, <2>2
<1>7. ShownTruth(j)'
  BY <1>1, <1>3 DEF JobFine, ShownTruth, Tells, Ended
<1>8. Arrives(j)'
  <2> SUFFICES ASSUME on'[j] # 0, on'[j] = via'[j]
               PROVE  \/ snap'[via'[j]][j].status \in Terminal
                      \/ \E i \in 1 .. Len(up'[via'[j]]) : Says(up'[via'[j]], i, "result", j)
    BY DEF Arrives, Says
  <2>1. via'[j] = via[j] /\ snap' = snap /\ via[j] \in Conn
    BY <1>4 DEF Tells
  <2>2. CASE on'[j] = on[j]
    BY <1>1, <1>2, <2>1, <2>2, SMTT(40) DEF JobFine, Arrives, Says
  <2>3. CASE on'[j] = cur /\ f[1] = "result" /\ f[2] = j
    BY <1>2, <2>1, <2>3 DEF Says
  <2> QED
    BY <2>2, <2>3 DEF Tells
<1>9. InOrder(j)'
  <2> SUFFICES ASSUME via[j] # 0
               PROVE  LET n == snap[via[j]][j].shown
                      IN /\ Follow(up'[via[j]], n, j)
                         /\ cur = via[j] => Reach(up'[via[j]], n, seq'[j], j)
    BY DEF InOrder, Tells
  <2> DEFINE q == up[via[j]]
  <2> DEFINE n == snap[via[j]][j].shown
  <2>1. /\ via[j] \in Conn /\ q \in Seq(Report) /\ n \in Nat
        /\ Follow(q, n, j) /\ (cur = via[j] => Reach(q, n, seq[j], j))
    <3>1. via[j] \in Conn
      BY <1>4
    <3>2. q \in Seq(Report) /\ snap[via[j]][j] \in Snapshot
      BY <1>1, <3>1 DEF Typed
    <3>3. n \in Nat
      BY <3>2, NodeJobsAssumption DEF Snapshot
    <3> QED
      BY <1>1, <3>1, <3>2, <3>3 DEF JobFine, InOrder
  <2>2. CASE cur # via[j]
    BY <1>2, <2>1, <2>2
  <2>3. CASE cur = via[j]
    <3>1. up'[via[j]] = Append(q, f)
      BY <1>1, <2>1, <2>3 DEF Tells, Emit, Typed
    <3> HIDE DEF q, n, Report
    <3>2. CASE f[1] = "event" /\ f[2] = j
      <4>1. f = <<"event", j, seq[j] + 1>> /\ seq'[j] = seq[j] + 1
        BY <3>2 DEF Tells, Report
      <4>2. Follow(Append(q, f), n, j) /\ Reach(Append(q, f), n, seq[j] + 1, j)
        BY <1>4, <2>1, <2>3, <4>1, NextAdded
      <4> QED
        BY <3>1, <4>1, <4>2 DEF n
    <3>3. CASE ~(f[1] = "event" /\ f[2] = j)
      <4>1. seq'[j] = seq[j]
        BY <3>3 DEF Tells
      <4>2. Follow(Append(q, f), n, j) /\ Reach(Append(q, f), n, seq[j], j)
        BY <2>1, <2>3, <3>3, OtherAdded
      <4> QED
        BY <3>1, <4>1, <4>2 DEF n
    <3> QED
      BY <3>2, <3>3
  <2> QED
    BY <2>2, <2>3
<1>10. Listed(j)'
  BY <1>1 DEF JobFine, Listed, Tells
<1> QED
  BY <1>5, <1>6, <1>7, <1>8, <1>9, <1>10

\* What such a step keeps, with its types and its orders.
LEMMA TellStep ==
    ASSUME JobInv, NEW f \in Report, Tells(f), Typed', \A j \in Job : StartedOnce(j)'
    PROVE  JobInv'
<1>1. ASSUME NEW j \in Job PROVE JobFine(j)'
  BY TellingKeeps DEF JobFine
<1> QED
  BY <1>1 DEF JobInv

LEMMA NodeReportsKeeps ==
    ASSUME JobInv, NEW j \in Job, NodeReports(j) PROVE JobInv'
<1>1. /\ cur # 0 /\ run[j] = "busy" /\ UNCHANGED <<made, cur, snap, down, pc, via, acks, run, on, folded>>
      /\ seq[j] < MaxEvents /\ seq[j] \in Nat /\ seq' = [seq EXCEPT ![j] = seq[j] + 1]
  BY NodeJobsAssumption DEF JobInv, Typed, NodeReports, callVars
<1> DEFINE f == <<"event", j, seq[j] + 1>>
<1>2. f \in Report /\ Emit(f) /\ f[1] = "event" /\ f[2] = j /\ f[3] = seq[j] + 1
  BY <1>1, NodeJobsAssumption DEF Report, NodeReports
<1> HIDE DEF f
<1>3. Onward
  BY <1>1 DEF Onward
<1>4. Tells(f)
  <2>1. ASSUME NEW i \in Job
        PROVE  /\ seq'[i] = IF f[1] = "event" /\ f[2] = i THEN seq[i] + 1 ELSE seq[i]
               /\ on'[i] = on[i]
               /\ on'[i] # 0 <=> run'[i] \in Ended
               /\ pc[i] = "idle" => run'[i] = "none"
    BY <1>1, <1>2 DEF JobInv, JobFine, Called, Typed
  <2> QED
    BY <1>1, <1>2, <1>3, <2>1 DEF Tells
<1>5. Typed'
  <2>1. up' \in [Conn -> Seq(Report)]
    <3> HIDE DEF Report
    <3> QED
      BY <1>1, <1>2, Emitted DEF JobInv
  <2>2. seq' \in [Job -> 0 .. MaxEvents]
    BY <1>1, NodeJobsAssumption DEF JobInv, Typed
  <2> QED
    BY <1>1, <2>1, <2>2 DEF JobInv, Typed
<1>6. ASSUME NEW i \in Job PROVE StartedOnce(i)'
  BY <1>1 DEF JobInv, JobFine, StartedOnce
<1> QED
  BY <1>2, <1>4, <1>5, <1>6, TellStep

\* The node reaches a verdict and says so.
LEMMA VerdictKeeps ==
    ASSUME JobInv, NEW j \in Job, NEW verdict \in Ended, cur # 0, run[j] = "busy",
           run' = [run EXCEPT ![j] = verdict], on' = [on EXCEPT ![j] = cur],
           Emit(<<"result", j, verdict>>), UNCHANGED <<made, cur, snap, pc, via, acks, seq, folded>>,
           down' \in [Conn -> Seq(Order)], \A c \in Conn : Len(down'[c]) <= Buffer,
           \A i \in Job : StartedOnce(i)'
    PROVE  JobInv'
<1> DEFINE f == <<"result", j, verdict>>
<1>1. f \in Report /\ Emit(f) /\ f[1] = "result" /\ f[2] = j /\ f[3] = verdict
  BY DEF Report
<1> HIDE DEF f
<1>2. /\ run'[j] = verdict /\ on'[j] = cur
      /\ \A i \in Job : i # j => run'[i] = run[i] /\ on'[i] = on[i]
      /\ run' \in [Job -> {"none", "busy", "refused"} \cup Ended]
  BY DEF JobInv, Typed
<1>3. Onward
  BY <1>2 DEF Onward, Ended
<1>4. Tells(f)
  <2>1. ASSUME NEW i \in Job
        PROVE  /\ seq'[i] = IF f[1] = "event" /\ f[2] = i THEN seq[i] + 1 ELSE seq[i]
               /\ on'[i] = on[i] \/ (on'[i] = cur /\ f[1] = "result" /\ f[2] = i)
               /\ on'[i] # 0 <=> run'[i] \in Ended
               /\ pc[i] = "idle" => run'[i] = "none"
    <3>1. Called(i)
      BY DEF JobInv, JobFine
    <3>2. seq'[i] = seq[i] /\ f[1] # "event"
      BY <1>1
    <3>3. CASE i = j
      BY <1>1, <1>2, <3>1, <3>2, <3>3 DEF Called
    <3>4. CASE i # j
      BY <1>2, <3>1, <3>2, <3>4 DEF Called
    <3> QED
      BY <3>3, <3>4
  <2>2. f[1] = "event" => run'[f[2]] # "none" /\ f[3] = seq[f[2]] + 1
    BY <1>1
  <2>3. f[1] = "result" => run'[f[2]] = f[3]
    BY <1>1, <1>2
  <2> QED
    BY <1>1, <1>3, <2>1, <2>2, <2>3 DEF Tells
<1>5. Typed'
  <2>1. up' \in [Conn -> Seq(Report)]
    <3> HIDE DEF Report
    <3> QED
      BY <1>1, Emitted DEF JobInv
  <2>2. on' \in [Job -> 0 .. MaxConn]
    <3>1. cur \in 0 .. MaxConn
      BY NodeJobsAssumption DEF JobInv, Typed
    <3> QED
      BY <3>1 DEF JobInv, Typed
  <2> QED
    BY <1>2, <2>1, <2>2 DEF JobInv, Typed
<1> QED
  BY <1>1, <1>4, <1>5, TellStep

LEMMA NodeEndsKeeps ==
    ASSUME JobInv, NEW j \in Job, NodeEnds(j) PROVE JobInv'
<1>1. PICK verdict \in Ended :
         run' = [run EXCEPT ![j] = verdict] /\ Emit(<<"result", j, verdict>>)
  BY DEF NodeEnds
<1>2. /\ cur # 0 /\ run[j] = "busy" /\ on' = [on EXCEPT ![j] = cur]
      /\ UNCHANGED <<made, cur, snap, down, pc, via, acks, seq, folded>>
  BY DEF NodeEnds, callVars
<1>3. down' \in [Conn -> Seq(Order)] /\ \A c \in Conn : Len(down'[c]) <= Buffer
  BY <1>2 DEF JobInv, Typed
<1>4. ASSUME NEW i \in Job PROVE StartedOnce(i)'
  <2>1. StartedOnce(i)
    BY DEF JobInv, JobFine
  <2>2. CASE i = j
    <3>1. \A c \in Conn : \A k \in 1 .. Len(down[c]) : down[c][k] # <<"start", i>>
      BY <1>2, <2>1, <2>2 DEF StartedOnce
    <3> QED
      BY <1>2, <3>1 DEF StartedOnce
  <2>3. CASE i # j
    <3>1. run'[i] = run[i]
      BY <1>1, <2>3 DEF JobInv, Typed
    <3> QED
      BY <1>2, <2>1, <3>1 DEF StartedOnce
  <2> QED
    BY <2>2, <2>3
<1> QED
  BY <1>1, <1>2, <1>3, <1>4, VerdictKeeps

\* The node takes the first order of its connection.
LEMMA OrderTaken ==
    ASSUME Typed, cur # 0, down[cur] # << >>, down' = [down EXCEPT ![cur] = Tail(@)]
    PROVE  /\ cur \in Conn /\ 1 \in 1 .. Len(down[cur])
           /\ Head(down[cur]) = down[cur][1] /\ down[cur][1] \in Order
           /\ down' \in [Conn -> Seq(Order)] /\ \A c \in Conn : Len(down'[c]) <= Buffer
           /\ \A c \in Conn : \A i \in 1 .. Len(down'[c]) :
                  IF c = cur THEN i + 1 \in 2 .. Len(down[c]) /\ down'[c][i] = down[c][i + 1]
                             ELSE i \in 1 .. Len(down[c]) /\ down'[c][i] = down[c][i]
<1> HIDE DEF Order
<1>1. cur \in Conn /\ down[cur] \in Seq(Order) /\ down \in [Conn -> Seq(Order)]
  BY Online DEF Typed
<1>2. down'[cur] = Tail(down[cur]) /\ \A c \in Conn : c # cur => down'[c] = down[c]
  BY <1>1
<1> DEFINE p == Tail(down[cur])
<1>3. /\ p \in Seq(Order) /\ Len(p) = Len(down[cur]) - 1 /\ Len(down[cur]) \in Nat
      /\ Head(down[cur]) = down[cur][1] /\ 1 \in 1 .. Len(down[cur]) /\ down[cur][1] \in Order
      /\ \A i \in 1 .. Len(p) : i + 1 \in 2 .. Len(down[cur]) /\ p[i] = down[cur][i + 1]
  BY <1>1, Shrinks
<1>4. down' = [down EXCEPT ![cur] = p] /\ down'[cur] = p
  BY <1>2
<1> HIDE DEF p
<1>5. down' \in [Conn -> Seq(Order)]
  BY <1>1, <1>3, <1>4
<1>6. ASSUME NEW c \in Conn PROVE Len(down'[c]) <= Buffer
  <2>1. CASE c = cur
    <3>1. Len(down[cur]) <= Buffer
      BY <1>1 DEF Typed
    <3> QED
      BY <1>3, <1>4, <2>1, <3>1, NodeJobsAssumption
  <2>2. CASE c # cur
    BY <1>2, <2>2 DEF Typed
  <2> QED
    BY <2>1, <2>2
<1>7. ASSUME NEW c \in Conn, NEW i \in 1 .. Len(down'[c])
      PROVE  IF c = cur THEN i + 1 \in 2 .. Len(down[c]) /\ down'[c][i] = down[c][i + 1]
                        ELSE i \in 1 .. Len(down[c]) /\ down'[c][i] = down[c][i]
  BY <1>2, <1>3, <1>4
<1> QED
  BY <1>1, <1>3, <1>5, <1>6, <1>7

\* The starts still queued are the ones that were, each in its one place.
LEMMA StartsLeft ==
    ASSUME JobInv, cur # 0, down[cur] # << >>, down' = [down EXCEPT ![cur] = Tail(@)],
           NEW j \in Job, pc'[j] = pc[j], down[cur][1] = <<"start", j>> \/ run'[j] = run[j]
                                         \/ run[j] # "none"
    PROVE  StartedOnce(j)'
<1>1. Typed /\ StartedOnce(j)
  BY DEF JobInv, JobFine
<1>2. /\ cur \in Conn /\ 1 \in 1 .. Len(down[cur]) /\ \A c \in Conn : Len(down[c]) \in Nat
      /\ \A c \in Conn : \A i \in 1 .. Len(down'[c]) :
             IF c = cur THEN i + 1 \in 2 .. Len(down[c]) /\ down'[c][i] = down[c][i + 1]
                        ELSE i \in 1 .. Len(down[c]) /\ down'[c][i] = down[c][i]
  <2>1. \A c \in Conn : Len(down[c]) \in Nat
    <3> HIDE DEF Order
    <3> QED
      BY <1>1 DEF Typed
  <2> QED
    BY <1>1, <2>1, OrderTaken
<1>3. ASSUME NEW c \in Conn, NEW i \in 1 .. Len(down'[c]), down'[c][i] = <<"start", j>>
      PROVE  /\ down[cur][1] # <<"start", j>> /\ run[j] = "none" /\ pc[j] # "idle"
             /\ \A d \in Conn : \A k \in 1 .. Len(down'[d]) :
                    down'[d][k] = <<"start", j>> => c = d /\ i = k
  <2> DEFINE at(d, k) == IF d = cur THEN k + 1 ELSE k
  <2>1. ASSUME NEW d \in Conn, NEW k \in 1 .. Len(down'[d])
        PROVE  /\ at(d, k) \in 1 .. Len(down[d]) /\ down'[d][k] = down[d][at(d, k)]
               /\ d = cur => at(d, k) # 1
    BY <1>2, SMTT(40)
  <2>2. at(c, i) \in 1 .. Len(down[c]) /\ down[c][at(c, i)] = <<"start", j>>
    <3> HIDE DEF at
    <3> QED
      BY <1>3, <2>1
  <2>3. /\ pc[j] # "idle" /\ run[j] = "none"
        /\ \A d \in Conn : \A k \in 1 .. Len(down[d]) :
               down[d][k] = <<"start", j>> => c = d /\ at(c, i) = k
    BY <1>1, <2>2 DEF StartedOnce
  <2>4. down[cur][1] # <<"start", j>>
    BY <1>2, <2>1, <2>3
  <2>5. ASSUME NEW d \in Conn, NEW k \in 1 .. Len(down'[d]), down'[d][k] = <<"start", j>>
        PROVE  c = d /\ i = k
    <3>1. c = d /\ at(c, i) = at(d, k)
      <4> HIDE DEF at
      <4>1. at(d, k) \in 1 .. Len(down[d]) /\ down[d][at(d, k)] = <<"start", j>>
        BY <2>1, <2>5
      <4> QED
        BY <2>3, <4>1
    <3> QED
      BY <3>1
  <2> QED
    BY <2>3, <2>4, <2>5
<1>4. ASSUME NEW c \in Conn, NEW i \in 1 .. Len(down'[c]), down'[c][i] = <<"start", j>>
      PROVE  pc'[j] # "idle" /\ run'[j] = "none"
  BY <1>3, <1>4
<1>5. \A c \in Conn : \A i \in 1 .. Len(down'[c]) :
         down'[c][i] = <<"start", j>> =>
             /\ pc'[j] # "idle" /\ run'[j] = "none"
             /\ \A d \in Conn : \A k \in 1 .. Len(down'[d]) :
                    down'[d][k] = <<"start", j>> => c = d /\ i = k
  <2> SUFFICES ASSUME NEW c \in Conn, NEW i \in 1 .. Len(down'[c]), down'[c][i] = <<"start", j>>
               PROVE  /\ pc'[j] # "idle" /\ run'[j] = "none"
                      /\ \A d \in Conn : \A k \in 1 .. Len(down'[d]) :
                             down'[d][k] = <<"start", j>> => c = d /\ i = k
    OBVIOUS
  <2>1. pc'[j] # "idle" /\ run'[j] = "none"
    BY <1>4
  <2>2. \A d \in Conn : \A k \in 1 .. Len(down'[d]) :
            down'[d][k] = <<"start", j>> => c = d /\ i = k
    BY <1>3, ZenonT(60)
  <2> QED
    BY <2>1, <2>2
<1> QED
  BY <1>5, Zenon DEF StartedOnce

LEMMA NodeTakesKeeps ==
    ASSUME JobInv, NodeTakes PROVE JobInv'
<1>1. /\ cur # 0 /\ down[cur] # << >> /\ down' = [down EXCEPT ![cur] = Tail(@)]
      /\ UNCHANGED <<made, cur, snap, pc, via, acks, seq, folded>>
  BY DEF NodeTakes, callVars
<1>2. /\ cur \in Conn /\ 1 \in 1 .. Len(down[cur])
      /\ Head(down[cur]) = down[cur][1] /\ down[cur][1] \in Order
      /\ down' \in [Conn -> Seq(Order)] /\ \A c \in Conn : Len(down'[c]) <= Buffer
  BY <1>1, OrderTaken DEF JobInv
<1>3. PICK j \in Job : down[cur][1][2] = j /\ down[cur][1] = <<down[cur][1][1], j>>
  BY <1>2 DEF Order
<1>4. Called(j) /\ StartedOnce(j) /\ Typed
  BY DEF JobInv, JobFine
<1>5. CASE down[cur][1][1] = "start"
  <2>1. down[cur][1] = <<"start", j>>
    BY <1>3, <1>5
  <2>2. pc[j] # "idle" /\ run[j] = "none" /\ on[j] = 0
    BY <1>2, <1>4, <2>1 DEF StartedOnce, Called, Ended
  <2>3. PICK w \in {"busy", "refused"}, a \in {"ok", "error"} :
           run' = [run EXCEPT ![j] = w] /\ Emit(<<"ack", j, a>>) /\ UNCHANGED on
    BY <1>2, <1>3, <1>5 DEF NodeTakes
  <2> DEFINE f == <<"ack", j, a>>
  <2>4. f \in Report /\ Emit(f) /\ f[1] = "ack"
    BY <2>3 DEF Report
  <2> HIDE DEF f
  <2>5. /\ run'[j] = w /\ \A i \in Job : i # j => run'[i] = run[i]
        /\ run' \in [Job -> {"none", "busy", "refused"} \cup Ended]
    BY <1>4, <2>3 DEF Typed
  <2>6. Onward
    BY <2>2, <2>5 DEF Onward, Ended
  <2>7. Tells(f)
    <3>1. ASSUME NEW i \in Job
          PROVE  /\ seq'[i] = IF f[1] = "event" /\ f[2] = i THEN seq[i] + 1 ELSE seq[i]
                 /\ on'[i] = on[i]
                 /\ on'[i] # 0 <=> run'[i] \in Ended
                 /\ pc[i] = "idle" => run'[i] = "none"
      <4>1. Called(i)
        BY DEF JobInv, JobFine
      <4>2. CASE i = j
        BY <1>1, <2>2, <2>3, <2>4, <2>5, <4>2 DEF Ended
      <4>3. CASE i # j
        BY <1>1, <2>3, <2>4, <2>5, <4>1, <4>3 DEF Called
      <4> QED
        BY <4>2, <4>3
    <3>2. f[1] # "event" /\ f[1] # "result"
      BY <2>4
    <3> QED
      BY <1>1, <2>4, <2>6, <3>1, <3>2 DEF Tells
  <2>8. Typed'
    <3>1. up' \in [Conn -> Seq(Report)]
      <4> HIDE DEF Report
      <4> QED
        BY <1>1, <1>4, <2>4, Emitted
    <3> QED
      BY <1>1, <1>2, <1>4, <2>3, <2>5, <3>1 DEF Typed
  <2>9. ASSUME NEW i \in Job PROVE StartedOnce(i)'
    <3>1. down[cur][1] = <<"start", i>> \/ run'[i] = run[i]
      BY <2>1, <2>5
    <3> QED
      BY <1>1, <3>1, StartsLeft
  <2> QED
    BY <2>4, <2>7, <2>8, <2>9, TellStep
<1>6. CASE down[cur][1][1] = "cancel" /\ run[j] = "busy"
  <2>1. /\ run' = [run EXCEPT ![j] = "broken"] /\ on' = [on EXCEPT ![j] = cur]
        /\ Emit(<<"result", j, "broken">>)
    BY <1>2, <1>3, <1>6 DEF NodeTakes
  <2>2. ASSUME NEW i \in Job PROVE StartedOnce(i)'
    <3>1. run'[i] = run[i] \/ run[i] # "none"
      BY <1>4, <1>6, <2>1 DEF Typed
    <3> QED
      BY <1>1, <3>1, StartsLeft
  <2>3. "broken" \in Ended
    BY DEF Ended
  <2> QED
    BY <1>1, <1>2, <1>6, <2>1, <2>2, <2>3, VerdictKeeps
<1>7. CASE down[cur][1][1] = "cancel" /\ run[j] # "busy"
  <2>1. UNCHANGED <<run, on, up>>
    BY <1>2, <1>3, <1>7 DEF NodeTakes
  <2>2. ASSUME NEW i \in Job PROVE StartedOnce(i)'
    BY <1>1, <2>1, StartsLeft
  <2>3. CallsOnly
    BY <1>1, <1>4, <2>1, NodeJobsAssumption DEF CallsOnly, Typed
  <2>4. Typed'
    BY <1>1, <1>2, <1>4, <2>1 DEF Typed
  <2> QED
    BY <2>2, <2>3, <2>4, CallStep
<1> QED
  BY <1>2, <1>5, <1>6, <1>7 DEF Order

----------------------------------------------------------------------------
(***************************************************************************)
(* The stream.                                                             *)
(***************************************************************************)

\* The first report of connection c is handled.
LEMMA ReportTaken ==
    ASSUME Typed, NEW c \in Conn, up[c] # << >>, up' = [up EXCEPT ![c] = Tail(@)]
    PROVE  /\ up' \in [Conn -> Seq(Report)] /\ up'[c] = Tail(up[c]) /\ up[c] \in Seq(Report)
           /\ 1 \in 1 .. Len(up[c]) /\ Head(up[c]) = up[c][1] /\ up[c][1] \in Report
           /\ \A d \in Conn : d # c => up'[d] = up[d]
           /\ \A i \in 1 .. Len(up'[c]) : i + 1 \in 2 .. Len(up[c]) /\ up'[c][i] = up[c][i + 1]
           /\ \A i \in 2 .. Len(up[c]) : i - 1 \in 1 .. Len(up'[c]) /\ up'[c][i - 1] = up[c][i]
           /\ Len(up[c]) \in Nat
<1> HIDE DEF Report
<1>1. up[c] \in Seq(Report) /\ up \in [Conn -> Seq(Report)]
  BY DEF Typed
<1>2. up'[c] = Tail(up[c]) /\ \A d \in Conn : d # c => up'[d] = up[d]
  BY <1>1
<1> DEFINE p == Tail(up[c])
<1>3. /\ p \in Seq(Report) /\ Len(up[c]) \in Nat
      /\ Head(up[c]) = up[c][1] /\ 1 \in 1 .. Len(up[c]) /\ up[c][1] \in Report
      /\ \A i \in 1 .. Len(p) : i + 1 \in 2 .. Len(up[c]) /\ p[i] = up[c][i + 1]
      /\ \A i \in 2 .. Len(up[c]) : i - 1 \in 1 .. Len(p) /\ p[i - 1] = up[c][i]
  BY <1>1, Shrinks
<1>4. up' = [up EXCEPT ![c] = p] /\ up'[c] = p
  BY <1>2
<1>5. up' \in [Conn -> Seq(Report)]
  <2> HIDE DEF p
  <2> QED
    BY <1>1, <1>3, <1>4
<1> QED
  BY <1>1, <1>2, <1>3, <1>5

\* What report f makes of the snapshot of its job.
After(s, f) == CASE f[1] = "event"  -> UpdateEvent(s, f[2], f[3])
                 [] f[1] = "result" -> DeliverResult(s, f[3])
                 [] OTHER           -> s

LEMMA AfterReport ==
    ASSUME NEW s \in Snapshot, NEW f \in Report
    PROVE  /\ After(s, f) \in Snapshot
           /\ s.status = "none" => After(s, f) = s
           /\ s.status # "none" => After(s, f).status # "none"
           /\ s.status \in Terminal => After(s, f).status \in Terminal
           /\ f[1] = "event" => After(s, f).status = s.status
           /\ f[1] = "event" /\ s.status # "none" => After(s, f).shown = f[3]
           /\ f[1] # "event" => After(s, f).shown = s.shown /\ After(s, f).events = s.events
           /\ f[1] = "result" /\ s.status # "none" =>
                  After(s, f).status = IF f[3] = "ok" THEN "completed" ELSE "failed"
           /\ f[1] = "ack" => After(s, f) = s
<1> DEFINE t == After(s, f)
<1>1. f[2] \in Job /\ f[1] \in {"ack", "event", "result"}
  BY DEF Report
<1>2. CASE f[1] = "event"
  <2>1. f[3] \in 1 .. MaxEvents /\ t = UpdateEvent(s, f[2], f[3])
    BY <1>2, ReportTypes DEF After
  <2>2. t \in Snapshot
    BY <1>1, <2>1, SnapshotTypes
  <2>3. s.status = "none" => t = s
    BY <2>1 DEF UpdateEvent
  <2>4. s.status # "none" => t.status = s.status /\ t.shown = f[3]
    BY <2>1 DEF UpdateEvent, Snapshot
  <2> HIDE DEF t
  <2> QED
    BY <1>2, <2>2, <2>3, <2>4 DEF t
<1>3. CASE f[1] = "result"
  <2>1. f[3] \in Ended /\ t = DeliverResult(s, f[3])
    BY <1>3, ReportTypes DEF After
  <2>2. t \in Snapshot
    BY <1>1, <2>1, SnapshotTypes
  <2>3. s.status = "none" => t = s
    BY <2>1 DEF DeliverResult
  <2>4. s.status # "none" => /\ t.status = IF f[3] = "ok" THEN "completed" ELSE "failed"
                             /\ t.shown = s.shown /\ t.events = s.events
    BY <2>1 DEF DeliverResult, Snapshot
  <2> HIDE DEF t
  <2> QED
    BY <1>3, <2>2, <2>3, <2>4 DEF t, Terminal
<1>4. CASE f[1] = "ack"
  BY <1>4 DEF After
<1> QED
  BY <1>1, <1>2, <1>3, <1>4

\* The report f that connection c takes, and what becomes of its job's snapshot.
Takes(c, f) ==
    /\ up[c] # << >> /\ f = up[c][1] /\ up' = [up EXCEPT ![c] = Tail(@)]
    /\ snap' = [snap EXCEPT ![c][f[2]] = After(snap[c][f[2]], f)]
    /\ UNCHANGED <<made, cur, down, via, run, seq, on>>
    /\ \A j \in Job : pc'[j] = "idle" => pc[j] = "idle"

\* The snapshots after it.
LEMMA SnapshotTaken ==
    ASSUME Typed, NEW c \in Conn, NEW f \in Report, Takes(c, f)
    PROVE  /\ snap' \in [Conn -> [Job -> Snapshot]]
           /\ snap'[c][f[2]] = After(snap[c][f[2]], f)
           /\ \A d \in Conn, i \in Job : d # c \/ i # f[2] => snap'[d][i] = snap[d][i]
<1>1. f[2] \in Job
  BY ReportTypes
<1>2. snap[c][f[2]] \in Snapshot /\ snap \in [Conn -> [Job -> Snapshot]]
  BY <1>1 DEF Typed
<1>3. After(snap[c][f[2]], f) \in Snapshot
  BY <1>2, AfterReport
<1> QED
  BY <1>1, <1>2, <1>3, OneChange DEF Takes

\* What is said of a job stays true when its stream handles a report.
LEMMA TakingKeeps ==
    ASSUME JobInv, NEW c \in Conn, NEW f \in Report, Takes(c, f), NEW j \in Job
    PROVE  JobFine(j)'
<1>1. Typed /\ JobFine(j)
  BY DEF JobInv
<1>2. UNCHANGED <<made, cur, down, via, run, seq, on>> /\ (pc'[j] = "idle" => pc[j] = "idle")
  BY DEF Takes
<1>3. /\ up' \in [Conn -> Seq(Report)] /\ up'[c] = Tail(up[c]) /\ up[c] \in Seq(Report)
      /\ 1 \in 1 .. Len(up[c]) /\ f = up[c][1] /\ up[c] # << >>
      /\ \A d \in Conn : d # c => up'[d] = up[d]
      /\ \A i \in 1 .. Len(up'[c]) : i + 1 \in 2 .. Len(up[c]) /\ up'[c][i] = up[c][i + 1]
      /\ \A i \in 2 .. Len(up[c]) : i - 1 \in 1 .. Len(up'[c]) /\ up'[c][i - 1] = up[c][i]
      /\ Len(up[c]) \in Nat
  <2> HIDE DEF Report
  <2> QED
    BY <1>1, ReportTaken DEF Takes
<1>4. via[j] # 0 => via[j] \in Conn
  BY <1>1, NodeJobsAssumption DEF Typed, Conn
<1> DEFINE s == snap[c][j]
<1> DEFINE t == snap'[c][j]
<1>5. s \in Snapshot /\ \A d \in Conn : d # c => snap'[d][j] = snap[d][j]
  BY <1>1, SnapshotTaken DEF Typed
<1>6. /\ f[2] # j \/ f[1] = "ack" => t = s
      /\ t \in Snapshot
      /\ s.status = "none" => t = s
      /\ s.status # "none" => t.status # "none"
      /\ s.status \in Terminal => t.status \in Terminal
      /\ f[1] # "result" => t.status = s.status
      /\ ~(f[1] = "event" /\ f[2] = j) => t.shown = s.shown /\ t.events = s.events
      /\ f[1] = "event" /\ f[2] = j /\ s.status # "none" => t.shown = f[3]
      /\ f[1] = "result" /\ f[2] = j /\ s.status # "none" =>
             t.status = IF f[3] = "ok" THEN "completed" ELSE "failed"
      /\ f[2] = j => t = After(s, f)
  <2>1. CASE f[2] = j
    <3>1. t = After(s, f)
      BY <1>1, <2>1, SnapshotTaken
    <3>2. f[1] \in {"ack", "event", "result"}
      BY DEF Report
    <3> HIDE DEF s, t, Report
    <3> QED
      BY <1>5, <2>1, <3>1, <3>2, AfterReport
  <2>2. CASE f[2] # j
    <3>1. t = s
      BY <1>1, <2>2, SnapshotTaken
    <3> HIDE DEF s, t
    <3> QED
      BY <1>5, <2>2, <3>1
  <2> QED
    BY <2>1, <2>2
<1> HIDE DEF Report
<1>7. Called(j)'
  <2>1. \A d \in Conn : snap'[d][j].status = "none" <=> snap[d][j].status = "none"
    BY <1>5, <1>6
  <2>2. \A d \in Conn : snap[d][j] = NoSnap => snap'[d][j] = NoSnap
    BY <1>5, <1>6 DEF NoSnap
  <2> HIDE DEF s, t
  <2> QED
    BY <1>1, <1>2, <1>4, <2>1, <2>2 DEF JobFine, Called
<1>8. StartedOnce(j)'
  <2>1. StartedOnce(j) /\ run'[j] = run[j] /\ UNCHANGED down
    BY <1>1, <1>2 DEF JobFine
  <2> QED
    BY <1>2, <2>1, StartsKept
<1>9. Reported(j)'
  <2> SUFFICES ASSUME NEW d \in Conn, NEW i \in 1 .. Len(up'[d])
               PROVE  /\ Says(up'[d], i, "event", j) => run'[j] # "none"
                      /\ Says(up'[d], i, "result", j) => run'[j] = up'[d][i][3]
    BY DEF Reported, Says
  <2>1. PICK k \in 1 .. Len(up[d]) : up'[d][i] = up[d][k]
    <3>1. CASE d = c
      <4>1. i + 1 \in 1 .. Len(up[c]) /\ up'[c][i] = up[c][i + 1]
        BY <1>3, <3>1
      <4> QED
        BY <3>1, <4>1
    <3>2. CASE d # c
      BY <1>3, <3>2
    <3> QED
      BY <3>1, <3>2
  <2>2. Onward
    BY <1>2 DEF Onward
  <2> QED
    BY <1>1, <2>1, <2>2, ReportStays DEF JobFine
<1>10. ShownTruth(j)'
  <2>1. f[1] = "result" /\ f[2] = j => run[j] = f[3] /\ f[3] \in Ended
    BY <1>1, <1>3, ReportTypes DEF JobFine, Reported, Says
  <2>2. /\ t.status = "completed" => run[j] = "ok"
        /\ t.status = "failed" => run[j] = "broken"
    <3>1. /\ s.status = "completed" => run[j] = "ok"
          /\ s.status = "failed" => run[j] = "broken"
      BY <1>1 DEF JobFine, ShownTruth
    <3> HIDE DEF s, t
    <3>2. CASE f[1] = "result" /\ f[2] = j
      BY <1>6, <2>1, <3>1, <3>2 DEF Ended
    <3>3. CASE ~(f[1] = "result" /\ f[2] = j)
      BY <1>6, <3>1, <3>3
    <3> QED
      BY <3>2, <3>3
  <2> QED
    BY <1>1, <1>2, <1>5, <2>2 DEF JobFine, ShownTruth
<1>11. Arrives(j)'
  <2> SUFFICES ASSUME on[j] # 0, on[j] = via[j]
               PROVE  \/ snap'[via[j]][j].status \in Terminal
                      \/ \E i \in 1 .. Len(up'[via[j]]) : Says(up'[via[j]], i, "result", j)
    BY <1>2 DEF Arrives, Says
  <2>1. CASE via[j] # c
    BY <1>1, <1>3, <1>4, <1>5, <2>1 DEF JobFine, Arrives, Says
  <2>2. CASE via[j] = c /\ s.status \in Terminal
    BY <1>6, <2>2
  <2>3. CASE via[j] = c /\ s.status \notin Terminal
    <3>1. PICK k \in 1 .. Len(up[c]) : Says(up[c], k, "result", j)
      BY <1>1, <2>3 DEF JobFine, Arrives
    <3>2. CASE k = 1
      <4>1. f[1] = "result" /\ f[2] = j /\ s.status # "none"
        BY <1>1, <1>3, <2>3, <3>1, <3>2 DEF JobFine, Called, Says
      <4>2. t.status \in Terminal
        <5> HIDE DEF s, t
        <5> QED
          BY <1>6, <4>1 DEF Terminal
      <4> QED
        BY <2>3, <4>2
    <3>3. CASE k # 1
      <4>1. k \in 2 .. Len(up[c])
        BY <1>3, <3>3
      <4>2. k - 1 \in 1 .. Len(up'[c]) /\ up'[c][k - 1] = up[c][k]
        BY <1>3, <4>1
      <4> QED
        BY <2>3, <3>1, <4>2 DEF Says
    <3> QED
      BY <3>2, <3>3
  <2> QED
    BY <2>1, <2>2, <2>3
<1>12. f[1] = "event" /\ f[2] = j /\ via[j] = c => f[3] = s.shown + 1
  <2> SUFFICES ASSUME f[1] = "event", f[2] = j, via[j] = c PROVE f[3] = s.shown + 1
    OBVIOUS
  <2>1. s.shown \in Nat /\ c # 0
    BY <1>5, NodeJobsAssumption DEF Snapshot, Conn
  <2>2. Follow(up[c], s.shown, j)
    BY <1>1, <2>1 DEF JobFine, InOrder
  <2>3. Says(up[c], 1, "event", j)
    BY <1>3 DEF Says
  <2> HIDE DEF s
  <2> QED
    BY <1>3, <2>1, <2>2, <2>3, NextTaken
<1>13. InOrder(j)'
  <2> SUFFICES ASSUME via[j] # 0
               PROVE  LET n == snap'[via[j]][j].shown
                      IN /\ Follow(up'[via[j]], n, j)
                         /\ cur = via[j] => Reach(up'[via[j]], n, seq[j], j)
    BY <1>2 DEF InOrder
  <2>1. CASE via[j] # c
    BY <1>1, <1>3, <1>4, <1>5, <2>1 DEF JobFine, InOrder
  <2>2. CASE via[j] = c
    <3>1. /\ Follow(up[c], s.shown, j) /\ (cur = c => Reach(up[c], s.shown, seq[j], j))
          /\ s.status # "none" /\ s.shown \in Nat
      BY <1>1, <1>5, <2>2, NodeJobsAssumption DEF JobFine, InOrder, Called, Snapshot
    <3>2. Follow(up'[c], t.shown, j) /\ (cur = c => Reach(up'[c], t.shown, seq[j], j))
      <4> HIDE DEF s, t
      <4>1. CASE f[1] = "event" /\ f[2] = j
        <5>1. Says(up[c], 1, "event", j) /\ t.shown = s.shown + 1
          BY <1>3, <1>6, <1>12, <2>2, <3>1, <4>1 DEF Says
        <5>2. /\ Follow(Tail(up[c]), s.shown + 1, j)
              /\ \A top : Reach(up[c], s.shown, top, j) => Reach(Tail(up[c]), s.shown + 1, top, j)
          BY <1>3, <3>1, <5>1, NextTaken
        <5> QED
          BY <1>3, <3>1, <5>1, <5>2
      <4>2. CASE ~(f[1] = "event" /\ f[2] = j)
        <5>1. ~Says(up[c], 1, "event", j) /\ t.shown = s.shown
          BY <1>3, <1>6, <4>2 DEF Says
        <5>2. /\ \A n : Follow(up[c], n, j) => Follow(Tail(up[c]), n, j)
              /\ \A n, top : Reach(up[c], n, top, j) => Reach(Tail(up[c]), n, top, j)
          BY <1>3, <5>1, OtherTaken
        <5> QED
          BY <1>3, <3>1, <5>1, <5>2
      <4> QED
        BY <4>1, <4>2
    <3> QED
      BY <2>2, <3>2
  <2> QED
    BY <2>1, <2>2
<1>14. Listed(j)'
  <2> DEFINE Lists(e, n) == e = IF j \in IosJob THEN << >> ELSE Newest(n)
  <2> SUFFICES ASSUME NEW d \in Conn PROVE Lists(snap'[d][j].events, snap'[d][j].shown)
    BY DEF Listed, Newest
  <2>1. Lists(snap[d][j].events, snap[d][j].shown)
    BY <1>1 DEF JobFine, Listed
  <2>2. CASE d = c /\ f[1] = "event" /\ f[2] = j /\ via[j] = c
    <3>1. f[3] = s.shown + 1 /\ f[3] \in 1 .. MaxEvents /\ t = UpdateEvent(s, j, f[3])
      BY <1>6, <1>12, <2>2, ReportTypes DEF After
    <3>2. Lists(s.events, s.shown)
      BY <2>1, <2>2
    <3>3. CASE j \notin IosJob
      <4> HIDE DEF s, t
      <4>1. t.events = Newest(t.shown)
        BY <1>5, <3>1, <3>2, <3>3, NextIsListed
      <4> QED
        BY <2>2, <3>3, <4>1 DEF t
    <3>4. CASE j \in IosJob
      <4> HIDE DEF s, t
      <4>1. t.events = s.events
        BY <1>5, <3>1, <3>4 DEF UpdateEvent, Snapshot
      <4> QED
        BY <2>2, <3>2, <3>4, <4>1 DEF t
    <3> QED
      BY <3>3, <3>4
  <2>3. CASE d = c /\ f[1] = "event" /\ f[2] = j /\ via[j] # c
    <3>1. s = NoSnap
      BY <1>1, <2>3 DEF JobFine, Called
    <3>2. t = s
      BY <1>6, <3>1 DEF NoSnap
    <3> QED
      BY <2>1, <2>3, <3>2
  <2>4. CASE d # c \/ ~(f[1] = "event" /\ f[2] = j)
    <3>1. snap'[d][j].events = snap[d][j].events /\ snap'[d][j].shown = snap[d][j].shown
      BY <1>5, <1>6, <2>4
    <3> QED
      BY <2>1, <3>1
  <2> QED
    BY <2>2, <2>3, <2>4
<1> QED
  BY <1>7, <1>8, <1>9, <1>10, <1>11, <1>13, <1>14 DEF JobFine

LEMMA HandleKeeps ==
    ASSUME JobInv, NEW c \in Conn, Handle(c) PROVE JobInv'
<1>1. PICK f : f = up[c][1]
  OBVIOUS
<1>2. /\ up[c] # << >> /\ up' = [up EXCEPT ![c] = Tail(@)]
      /\ UNCHANGED <<made, cur, down, via, run, seq, on>>
  BY DEF Handle, nodeVars
<1>3. /\ up' \in [Conn -> Seq(Report)] /\ Head(up[c]) = f /\ f \in Report
  <2> HIDE DEF Report
  <2> QED
    BY <1>1, <1>2, ReportTaken DEF JobInv
<1>4. f[2] \in Job /\ f[1] \in {"ack", "event", "result"}
  BY <1>3 DEF Report
<1>5. /\ f[1] = "ack" => HandleAck(c, f[2], f[3])
      /\ f[1] = "event" => HandleEvent(c, f[2], f[3])
      /\ f[1] = "result" => HandleResult(c, f[2], f[3])
  BY <1>3 DEF Handle
<1>6. snap' = [snap EXCEPT ![c][f[2]] = After(snap[c][f[2]], f)]
  <2>1. CASE f[1] = "ack"
    <3>1. snap' = snap /\ After(snap[c][f[2]], f) = snap[c][f[2]]
      BY <1>5, <2>1 DEF HandleAck, After
    <3> QED
      BY <1>4, <3>1 DEF JobInv, Typed
  <2>2. CASE f[1] = "event"
    BY <1>5, <2>2 DEF HandleEvent, After
  <2>3. CASE f[1] = "result"
    BY <1>5, <2>3 DEF HandleResult, After
  <2> QED
    BY <1>4, <2>1, <2>2, <2>3
<1>7. /\ pc' \in [Job -> Phase] /\ acks' \in [Conn -> SUBSET Job] /\ folded' \subseteq ToolJob
      /\ \A j \in Job : pc'[j] = "idle" => pc[j] = "idle"
  <2>1. pc \in [Job -> Phase] /\ acks \in [Conn -> SUBSET Job] /\ folded \subseteq ToolJob
    BY DEF JobInv, Typed
  <2>2. CASE f[1] = "ack"
    <3>1. UNCHANGED folded /\ acks' = [acks EXCEPT ![c] = acks[c] \ {f[2]}]
      BY <1>5, <2>2 DEF HandleAck
    <3>2. \/ pc' = pc
          \/ \E p \in {"accepted", "rejected"} : pc' = [pc EXCEPT ![f[2]] = p]
      BY <1>5, <2>2 DEF HandleAck
    <3>3. acks' \in [Conn -> SUBSET Job]
      BY <2>1, <3>1
    <3> QED
      BY <2>1, <3>1, <3>2, <3>3 DEF Phase
  <2>3. CASE f[1] = "event"
    BY <1>5, <2>1, <2>3 DEF HandleEvent
  <2>4. CASE f[1] = "result"
    BY <1>5, <2>1, <2>4 DEF HandleResult
  <2> QED
    BY <1>4, <2>2, <2>3, <2>4
<1>8. Takes(c, f)
  BY <1>1, <1>2, <1>6, <1>7 DEF Takes
<1>9. Typed'
  <2>1. snap' \in [Conn -> [Job -> Snapshot]]
    BY <1>3, <1>8, SnapshotTaken DEF JobInv
  <2> QED
    BY <1>2, <1>3, <1>7, <2>1 DEF JobInv, Typed
<1>10. \A j \in Job : JobFine(j)'
  BY <1>3, <1>8, TakingKeeps
<1> QED
  BY <1>9, <1>10 DEF JobInv

----------------------------------------------------------------------------
(***************************************************************************)
(* The specification.                                                      *)
(***************************************************************************)

LEMMA InitJobs == Init => JobInv
<1> SUFFICES ASSUME Init PROVE JobInv
  OBVIOUS
<1>1. NoSnap \in Snapshot
  <2>1. << >> \in Seq(1 .. MaxEvents) /\ 0 \in 0 .. MaxEvents
    BY NodeJobsAssumption
  <2> QED
    BY <2>1 DEF Snapshot, NoSnap
<1>2. /\ \A c \in Conn : Len(down[c]) = 0 /\ Len(up[c]) = 0
      /\ down \in [Conn -> Seq(Order)] /\ up \in [Conn -> Seq(Report)]
  <2>1. << >> \in Seq(Order) /\ << >> \in Seq(Report)
    OBVIOUS
  <2> HIDE DEF Order, Report
  <2> QED
    BY <2>1 DEF Init
<1>3. Typed
  <2>1. snap \in [Conn -> [Job -> Snapshot]]
    BY <1>1 DEF Init
  <2> QED
    BY <1>2, <2>1, NodeJobsAssumption DEF Init, Typed, Phase
<1>4. ASSUME NEW j \in Job PROVE JobFine(j)
  <2>1. \A c \in Conn : snap[c][j] = NoSnap
    BY DEF Init
  <2>2. via[j] = 0 /\ run[j] = "none" /\ seq[j] = 0 /\ on[j] = 0 /\ made = 0
    BY DEF Init
  <2>3. Called(j)
    BY <2>1, <2>2 DEF Called, Ended
  <2>4. StartedOnce(j) /\ Reported(j)
    BY <1>2 DEF StartedOnce, Reported
  <2>5. ShownTruth(j)
    BY <2>1 DEF ShownTruth, NoSnap
  <2>6. Arrives(j) /\ InOrder(j)
    BY <2>2 DEF Arrives, InOrder
  <2>7. Listed(j)
    <3>1. Newest(0) = << >>
      BY NodeJobsAssumption DEF Newest
    <3> QED
      BY <2>1, <3>1 DEF Listed, NoSnap
  <2> QED
    BY <2>3, <2>4, <2>5, <2>6, <2>7 DEF JobFine
<1> QED
  BY <1>3, <1>4 DEF JobInv

LEMMA StepKeepsJobs == JobInv /\ [Next]_vars => JobInv'
<1> SUFFICES ASSUME JobInv, [Next]_vars PROVE JobInv'
  OBVIOUS
<1>1. ASSUME NEW j \in Job, Start(j) \/ Timeout(j) \/ Cancel(j) \/ NodeReports(j) \/ NodeEnds(j)
      PROVE  JobInv'
  BY <1>1, StartKeeps, TimeoutKeeps, CancelKeeps, NodeReportsKeeps, NodeEndsKeeps
<1>2. ASSUME NEW c \in Conn, Handle(c) PROVE JobInv'
  BY <1>2, HandleKeeps
<1>3. CASE Connect \/ Disconnect \/ NodeTakes
  BY <1>3, ConnectKeeps, DisconnectKeeps, NodeTakesKeeps
<1>4. CASE UNCHANGED vars
  <2>1. CallsOnly /\ UNCHANGED down
    BY <1>4, NodeJobsAssumption DEF JobInv, Typed, CallsOnly, vars, wireVars, callVars, nodeVars
  <2>2. Typed'
    BY <1>4 DEF JobInv, Typed, vars, wireVars, callVars, nodeVars
  <2> QED
    BY <2>1, <2>2, SameOrders, CallStep
<1> QED
  BY <1>1, <1>2, <1>3, <1>4 DEF Next

LEMMA JobInvariant == Spec => []JobInv
<1> QED
  BY InitJobs, StepKeepsJobs, PTL DEF Spec

\* Jobs start and end, are polled and reported in states of their types, and no
\* snapshot lists more than EventCap events.
THEOREM JobsTypeCorrect == Spec => []TypeOK
<1>1. ASSUME JobInv PROVE TypeOK
  <2>1. Typed /\ \A j \in Job : Listed(j)
    BY <1>1 DEF JobInv, JobFine
  <2>2. ASSUME NEW c \in Conn, NEW j \in Job
        PROVE  /\ snap[c][j].status \in {"none", "running"} \cup Terminal
               /\ snap[c][j].shown \in 0 .. MaxEvents
               /\ snap[c][j].events \in Seq(1 .. MaxEvents)
               /\ Len(snap[c][j].events) <= EventCap
    <3>1. snap[c][j] \in Snapshot
      BY <2>1 DEF Typed
    <3>2. snap[c][j].shown \in Nat
      BY <3>1, NodeJobsAssumption DEF Snapshot
    <3>3. Len(Newest(snap[c][j].shown)) <= EventCap
      BY <3>2, NodeJobsAssumption DEF Newest
    <3>4. Len(snap[c][j].events) <= EventCap
      <4>1. Len(<< >>) <= EventCap
        BY NodeJobsAssumption
      <4> QED
        BY <2>1, <3>3, <4>1 DEF Listed
    <3> QED
      BY <3>1, <3>4 DEF Snapshot
  <2>3. ASSUME NEW c \in Conn, NEW i \in DOMAIN up[c]
        PROVE  up[c][i][1] \in {"ack", "event", "result"} /\ up[c][i][2] \in Job
    <3>1. up[c] \in Seq(Report)
      BY <2>1 DEF Typed
    <3>2. up[c][i] \in Report
      <4> HIDE DEF Report
      <4> QED
        BY <3>1
    <3> QED
      BY <3>2 DEF Report
  <2> QED
    BY <2>1, <2>2, <2>3 DEF Typed, TypeOK, Order
<1> QED
  BY <1>1, JobInvariant, PTL

\* get_*_status never reports a verdict the node did not reach.
THEOREM TrueVerdicts == Spec => []PollIsTruth
<1>1. ASSUME JobInv PROVE PollIsTruth
  <2> SUFFICES ASSUME NEW j \in Job
               PROVE  /\ Poll(j) = "completed" => run[j] = "ok"
                      /\ Poll(j) = "failed" => run[j] = "broken"
    BY DEF PollIsTruth
  <2>1. CASE cur = 0
    BY <2>1 DEF Poll
  <2>2. CASE cur # 0
    <3>1. cur \in Conn
      BY <1>1, <2>2, Online DEF JobInv
    <3> QED
      BY <1>1, <2>2, <3>1 DEF Poll, JobInv, JobFine, ShownTruth
  <2> QED
    BY <2>1, <2>2
<1> QED
  BY <1>1, JobInvariant, PTL

\* The snapshot is initialised before the frame is sent, so a result that comes
\* back on the connection of the dispatch always reaches it.
THEOREM ResultsReachSnapshots == Spec => []ResultReachesSnapshot
<1>1. ASSUME JobInv PROVE ResultReachesSnapshot
  <2> SUFFICES ASSUME NEW j \in Job, Judged(j), on[j] = via[j]
               PROVE  snap[via[j]][j].status \in Terminal
    BY DEF ResultReachesSnapshot
  <2>1. on[j] # 0 /\ via[j] \in Conn
    BY <1>1, NodeJobsAssumption DEF JobInv, Typed, Judged, Conn
  <2>2. up[via[j]] \in Seq(Report)
    BY <1>1, <2>1 DEF JobInv, Typed
  <2>3. DOMAIN up[via[j]] = 1 .. Len(up[via[j]])
    <3> HIDE DEF Report
    <3> QED
      BY <2>2
  <2>4. \A i \in 1 .. Len(up[via[j]]) : ~Says(up[via[j]], i, "result", j)
    BY <2>3 DEF Judged, Says
  <2> QED
    BY <1>1, <2>1, <2>4 DEF JobInv, JobFine, Arrives
<1> QED
  BY <1>1, JobInvariant, PTL

\* update_*_snapshot_event keeps the last events: a snapshot lists the newest
\* EventCap events up to the stage it shows, with no gap.
THEOREM NewestListed == Spec => []NewestEventsListed
<1>1. ASSUME JobInv PROVE NewestEventsListed
  <2> SUFFICES ASSUME NEW c \in Conn, NEW j \in BuildJob \cup ToolJob
               PROVE  snap[c][j].events = Newest(snap[c][j].shown)
    BY DEF NewestEventsListed, Newest
  <2>1. j \in Job /\ j \notin IosJob
    BY NodeJobsAssumption DEF Job
  <2> QED
    BY <1>1, <2>1 DEF JobInv, JobFine, Listed
<1> QED
  BY <1>1, JobInvariant, PTL
============================================================================

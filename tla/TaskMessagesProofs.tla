-------------------------- MODULE TaskMessagesProofs --------------------------
(***************************************************************************)
(* Proofs about TaskMessages, for any messages and any bounds on sends,    *)
(* streams and frames, and, below, about NodeLabels, for any calls,        *)
(* editors and tools.  The two components share no name.                   *)
(***************************************************************************)
EXTENDS TaskMessages, NodeLabels, TLAPS

Reported == {"received", "running", "completed", "failed", "cancelled"}
Frame == [msg : Msg, attempt : Attempt, named : BOOLEAN, to : Reported \cup {"error"}]

\* A message with a row is at one of its sends, and the runtime was sent none
\* without a row.
RowInv == \A m \in Msg :
    /\ status[m] # "none" => attempt[m] \in Attempt
    /\ \A a \in Attempt : turn[m][a] # "none" => status[m] # "none"

\* A frame is about a message with a row and, when it names a status, carries a
\* fact, wherever it waits and however often the node has reconnected since.
FrameInv == \A i \in 1 .. MaxStreams : \A k \in 1 .. Len(wire[i]) :
    LET f == wire[i][k]
    IN  /\ status[f.msg] # "none"
        /\ f.to # "error" => <<f.msg, f.attempt, f.to>> \in outcome

MessageInv == TypeOK /\ RowInv /\ FrameInv /\ StatusIsOfThisAttempt

\* _TRANSITIONS: a finished message is moved by no report except that a failed
\* one may turn out completed.
LEMMA EndedTransitions ==
    /\ \A to \in Reported : to \notin Transitions["completed"] /\ to \notin Transitions["cancelled"]
    /\ \A to \in Reported : to \in Transitions["failed"] => to = "completed"
BY DEF Transitions, Reported

\* No message has been sent initially.
LEMMA InitMessages == Init => MessageInv
<1> SUFFICES ASSUME Init PROVE MessageInv
  OBVIOUS
<1>1. TypeOK
  BY TaskMessagesAssumption DEF Init, TypeOK, Attempt
<1>2. RowInv /\ FrameInv /\ StatusIsOfThisAttempt
  BY DEF Init, RowInv, FrameInv, StatusIsOfThisAttempt
<1> QED
  BY <1>1, <1>2 DEF MessageInv

\* The frame the handler of a stream takes.
LEMMA HeadFrame ==
    ASSUME MessageInv, NEW i \in 1 .. MaxStreams, wire[i] # << >>
    PROVE  /\ Head(wire[i]) \in Frame /\ status[Head(wire[i]).msg] # "none"
           /\ Head(wire[i]).to # "error" =>
                 <<Head(wire[i]).msg, Head(wire[i]).attempt, Head(wire[i]).to>> \in outcome
<1>1. wire[i] \in Seq(Frame)
  BY DEF MessageInv, TypeOK, Frame, Reported
<1>2. Len(wire[i]) \in Nat \ {0} /\ Head(wire[i]) = wire[i][1]
  <2> HIDE DEF Frame
  <2> QED
    BY <1>1
<1>3. Head(wire[i]) \in Frame
  <2> HIDE DEF Frame
  <2> QED
    BY <1>1
<1>4. 1 \in 1 .. Len(wire[i])
  BY <1>2
<1> QED
  BY <1>2, <1>3, <1>4 DEF MessageInv, FrameInv

\* A step that puts no frame on a stream keeps what is said of the frames.
LEMMA WireShrinks ==
    ASSUME MessageInv, outcome \subseteq outcome',
           \A m \in Msg : status[m] # "none" => status'[m] # "none",
           \A i \in 1 .. MaxStreams : \A k \in 1 .. Len(wire'[i]) :
              \E l \in 1 .. Len(wire[i]) : wire'[i][k] = wire[i][l]
    PROVE  FrameInv'
<1>1. \A i \in 1 .. MaxStreams : \A l \in 1 .. Len(wire[i]) : wire[i][l].msg \in Msg
  <2>1. wire \in [1 .. MaxStreams -> Seq(Frame)]
    BY DEF MessageInv, TypeOK, Frame, Reported
  <2>2. \A i \in 1 .. MaxStreams : \A l \in 1 .. Len(wire[i]) : wire[i][l] \in Frame
    <3> HIDE DEF Frame
    <3> QED
      BY <2>1
  <2> QED
    BY <2>2 DEF Frame
<1> SUFFICES ASSUME NEW i \in 1 .. MaxStreams, NEW k \in 1 .. Len(wire'[i])
             PROVE  /\ status'[wire'[i][k].msg] # "none"
                    /\ wire'[i][k].to # "error" =>
                          <<wire'[i][k].msg, wire'[i][k].attempt, wire'[i][k].to>> \in outcome'
  BY DEF FrameInv
<1>2. PICK l \in 1 .. Len(wire[i]) : wire'[i][k] = wire[i][l]
  OBVIOUS
<1>3. /\ status[wire[i][l].msg] # "none"
      /\ wire[i][l].to # "error" =>
            <<wire[i][l].msg, wire[i][l].attempt, wire[i][l].to>> \in outcome
  BY DEF MessageInv, FrameInv
<1> QED
  BY <1>1, <1>2, <1>3

\* The gateway's steps.
LEMMA GatewayStep ==
    ASSUME MessageInv, NEW m \in Msg,
           Submit(m) \/ Dispatch(m) \/ DispatchFails(m) \/ Cancel(m) \/ Retry(m)
    PROVE  MessageInv'
<1>1. /\ status \in [Msg -> Sent \cup {"none"}] /\ attempt \in [Msg -> 0 .. MaxAttempt]
      /\ turn \in [Msg -> [Attempt -> {"none", "sent", "received", "running", "ended"}]]
      /\ outcome \subseteq Msg \X Attempt \X Sent /\ RowInv /\ StatusIsOfThisAttempt
  BY DEF MessageInv, TypeOK
<1>2. UNCHANGED <<stream, wire>>
  BY DEF Submit, Dispatch, DispatchFails, Cancel, Retry
<1>3. /\ \A q \in Msg \ {m} : status'[q] = status[q] /\ attempt'[q] = attempt[q]
      /\ status'[m] \in {"pending", "dispatching", "failed", "cancelled"}
      /\ attempt'[m] \in Attempt
      /\ status' \in [Msg -> Sent \cup {"none"}] /\ attempt' \in [Msg -> 0 .. MaxAttempt]
  <2>1. status[m] # "none" => attempt[m] \in Attempt
    BY <1>1 DEF RowInv
  <2>2. PICK to \in {"pending", "dispatching", "failed", "cancelled"} :
           status' = [status EXCEPT ![m] = to]
    BY DEF Submit, Dispatch, DispatchFails, Cancel, Retry, Move
  <2>3. PICK n \in Attempt : attempt' = [attempt EXCEPT ![m] = n]
    <3>1. CASE Submit(m)
      <4>1. attempt' = [attempt EXCEPT ![m] = 1] /\ 1 \in Attempt
        BY <3>1, TaskMessagesAssumption DEF Submit, Attempt
      <4> QED
        BY <4>1
    <3>2. CASE Retry(m)
      <4>1. attempt' = [attempt EXCEPT ![m] = attempt[m] + 1] /\ status[m] # "none"
        BY <3>2 DEF Retry
      <4>2. attempt[m] + 1 \in Attempt
        BY <2>1, <3>2, <4>1, TaskMessagesAssumption DEF Retry, Attempt
      <4> QED
        BY <4>1, <4>2
    <3>3. CASE Dispatch(m) \/ DispatchFails(m) \/ Cancel(m)
      <4>1. attempt' = [attempt EXCEPT ![m] = attempt[m]]
        BY <1>1, <3>3 DEF Dispatch, DispatchFails, Cancel
      <4>2. attempt[m] \in Attempt
        BY <2>1, <3>3 DEF Dispatch, DispatchFails, Cancel
      <4> QED
        BY <4>1, <4>2
    <3> QED
      BY <3>1, <3>2, <3>3
  <2>4. n \in 0 .. MaxAttempt /\ to \in Sent \cup {"none"}
    BY <2>2, <2>3, TaskMessagesAssumption DEF Attempt, Sent
  <2> QED
    BY <1>1, <2>2, <2>3, <2>4
<1>4. outcome \subseteq outcome' /\ outcome' \subseteq Msg \X Attempt \X Sent
  BY <1>1 DEF Submit, Dispatch, DispatchFails, Cancel, Retry, Fact, Sent, RowInv
<1>5. turn' \in [Msg -> [Attempt -> {"none", "sent", "received", "running", "ended"}]]
  BY <1>1 DEF Submit, Dispatch, DispatchFails, Cancel, Retry
<1>6. TypeOK'
  BY <1>2, <1>3, <1>4, <1>5 DEF MessageInv, TypeOK
<1>7. RowInv' /\ StatusIsOfThisAttempt'
  <2>1. \A q \in Msg \ {m} : turn'[q] = turn[q]
    BY <1>1 DEF Submit, Dispatch, DispatchFails, Cancel, Retry
  <2>2. RowInv'
    <3> SUFFICES ASSUME NEW q \in Msg
                 PROVE  /\ status'[q] # "none" => attempt'[q] \in Attempt
                        /\ \A a \in Attempt : turn'[q][a] # "none" => status'[q] # "none"
      BY DEF RowInv
    <3>1. CASE q = m
      BY <1>3, <3>1
    <3>2. CASE q # m
      BY <1>1, <1>3, <2>1, <3>2 DEF RowInv
    <3> QED
      BY <3>1, <3>2
  <2>3. StatusIsOfThisAttempt'
    BY <1>1, <1>3, <1>4 DEF StatusIsOfThisAttempt
  <2> QED
    BY <2>2, <2>3
<1>8. FrameInv'
  BY <1>2, <1>3, <1>4, WireShrinks
<1> QED
  BY <1>6, <1>7, <1>8 DEF MessageInv

\* The runtime's steps: a frame goes out with the fact it carries.
LEMMA RuntimeStep ==
    ASSUME MessageInv, NEW m \in Msg, NEW a \in Attempt,
           Advance(m, a) \/ End(m, a) \/ RaiseError(m, a)
    PROVE  MessageInv'
<1>1. /\ turn \in [Msg -> [Attempt -> {"none", "sent", "received", "running", "ended"}]]
      /\ outcome \subseteq Msg \X Attempt \X Sent /\ stream \in 1 .. MaxStreams
      /\ wire \in [1 .. MaxStreams -> Seq(Frame)]
  BY DEF MessageInv, TypeOK, Frame, Reported
<1>2. PICK to \in Reported \cup {"error"}, named \in BOOLEAN : Report(m, a, to, named)
  BY TaskMessagesAssumption DEF Advance, End, RaiseError, Reported
<1>3. UNCHANGED <<status, attempt, stream>>
  BY DEF Advance, End, RaiseError, gatewayVars
<1>4. turn' \in [Msg -> [Attempt -> {"none", "sent", "received", "running", "ended"}]]
  <2>1. \E t \in {"received", "running", "ended", turn[m][a]} : turn' = [turn EXCEPT ![m][a] = t]
    BY <1>1 DEF Advance, End, RaiseError
  <2>2. turn[m][a] \in {"none", "sent", "received", "running", "ended"}
    BY <1>1
  <2> QED
    BY <1>1, <2>1, <2>2
<1>s. status[m] # "none"
  BY DEF MessageInv, RowInv, Advance, End, RaiseError
<1>5. /\ outcome \subseteq outcome' /\ outcome' \subseteq Msg \X Attempt \X Sent
      /\ to # "error" => <<m, a, to>> \in outcome'
  BY <1>1, <1>2 DEF Report, Fact, Reported, Sent
<1> DEFINE f == [msg |-> m, attempt |-> a, to |-> to, named |-> named]
<1>6. f \in Frame /\ wire' = [wire EXCEPT ![stream] = Append(wire[stream], f)]
  BY <1>2 DEF Report, Frame
<1>7. f.msg = m /\ f.attempt = a /\ f.to = to
  OBVIOUS
<1> HIDE DEF f
<1>8. wire' \in [1 .. MaxStreams -> Seq(Frame)]
  <2> HIDE DEF Frame
  <2> QED
    BY <1>1, <1>6
<1>9. \A i \in 1 .. MaxStreams : \A k \in 1 .. Len(wire'[i]) :
         wire'[i][k] = f \/ \E l \in 1 .. Len(wire[i]) : wire'[i][k] = wire[i][l]
  <2> HIDE DEF Frame
  <2> QED
    BY <1>1, <1>6
<1>10. TypeOK'
  BY <1>1, <1>3, <1>4, <1>5, <1>8 DEF MessageInv, TypeOK, Frame, Reported
<1>11. FrameInv'
  <2> SUFFICES ASSUME NEW i \in 1 .. MaxStreams, NEW k \in 1 .. Len(wire'[i])
               PROVE  /\ status'[wire'[i][k].msg] # "none"
                      /\ wire'[i][k].to # "error" =>
                            <<wire'[i][k].msg, wire'[i][k].attempt, wire'[i][k].to>> \in outcome'
    BY DEF FrameInv
  <2>1. CASE wire'[i][k] = f
    BY <1>3, <1>s, <1>5, <1>7, <2>1
  <2>2. ASSUME NEW l \in 1 .. Len(wire[i]), wire'[i][k] = wire[i][l]
        PROVE  /\ status'[wire'[i][k].msg] # "none"
               /\ wire'[i][k].to # "error" =>
                     <<wire'[i][k].msg, wire'[i][k].attempt, wire'[i][k].to>> \in outcome'
    BY <1>3, <1>5, <2>2 DEF MessageInv, FrameInv
  <2> QED
    BY <1>9, <2>1, <2>2
<1>12. RowInv' /\ StatusIsOfThisAttempt'
  <2>1. \A q \in Msg : \A b \in Attempt : turn'[q][b] # "none" => status[q] # "none"
    <3>1. \A q \in Msg : \A b \in Attempt : turn'[q][b] # turn[q][b] => q = m
      BY <1>1 DEF Advance, End, RaiseError
    <3> QED
      BY <1>s, <3>1 DEF MessageInv, RowInv
  <2> QED
    BY <1>3, <1>5, <2>1 DEF MessageInv, RowInv, StatusIsOfThisAttempt
<1> QED
  BY <1>10, <1>11, <1>12 DEF MessageInv

\* The node server's handler: the row it moves is at the frame's attempt.
LEMMA HandleStep ==
    ASSUME MessageInv, NEW i \in 1 .. MaxStreams, Handle(i)
    PROVE  MessageInv'
<1> DEFINE f == Head(wire[i])
<1>1. /\ wire[i] # << >> /\ UNCHANGED <<attempt, turn, outcome, stream>>
      /\ wire' = [wire EXCEPT ![i] = Tail(wire[i])]
      /\ \/ f.to # "error" /\ RecordMessageStatus(f)
         \/ FailInflight(IF f.named THEN {f.msg} ELSE Msg)
  BY DEF Handle
<1>2. /\ f \in Frame /\ status[f.msg] # "none"
      /\ f.to # "error" => <<f.msg, f.attempt, f.to>> \in outcome
  BY <1>1, HeadFrame
<1>3. /\ wire \in [1 .. MaxStreams -> Seq(Frame)] /\ status \in [Msg -> Sent \cup {"none"}]
      /\ attempt \in [Msg -> 0 .. MaxAttempt]
  BY DEF MessageInv, TypeOK, Frame, Reported
<1>4. /\ wire' \in [1 .. MaxStreams -> Seq(Frame)]
      /\ \A j \in 1 .. MaxStreams : \A k \in 1 .. Len(wire'[j]) :
            \E l \in 1 .. Len(wire[j]) : wire'[j][k] = wire[j][l]
  <2> HIDE DEF Frame, f
  <2>1. Tail(wire[i]) \in Seq(Frame)
    BY <1>1, <1>3
  <2>2. \A k \in 1 .. Len(Tail(wire[i])) : \E l \in 1 .. Len(wire[i]) : Tail(wire[i])[k] = wire[i][l]
    BY <1>1, <1>3
  <2> QED
    BY <1>1, <1>3, <2>1, <2>2
<1> HIDE DEF f
<1>5. /\ status' \in [Msg -> Sent \cup {"none"}]
      /\ \A m \in Msg : \/ status'[m] = status[m]
                        \/ /\ status[m] # "none"
                           /\ \/ status'[m] = "failed"
                              \/ /\ m = f.msg /\ attempt[m] = f.attempt
                                 /\ f.to # "error" /\ status'[m] = f.to
  <2>1. f.msg \in Msg /\ f.to \in Reported \cup {"error"} /\ f.named \in BOOLEAN
    BY <1>2 DEF Frame
  <2>2. CASE f.to # "error" /\ RecordMessageStatus(f)
    <3>1. f.to \in Sent
      BY <2>1, <2>2 DEF Reported, Sent
    <3> QED
      BY <1>2, <1>3, <2>1, <2>2, <3>1 DEF RecordMessageStatus
  <2>3. CASE FailInflight(IF f.named THEN {f.msg} ELSE Msg)
    BY <1>3, <2>3 DEF FailInflight, InFlight, Sent
  <2> QED
    BY <1>1, <2>2, <2>3
<1>6. TypeOK'
  BY <1>1, <1>4, <1>5, ZenonT(60) DEF MessageInv, TypeOK, Frame, Reported
<1>7. RowInv' /\ StatusIsOfThisAttempt'
  <2>1. \A m \in Msg : status'[m] # "none" => status[m] # "none"
    BY <1>5
  <2>2. \A m \in Msg : status[m] # "none" => status'[m] # "none"
    BY <1>2, <1>5 DEF Frame, Reported
  <2>3. RowInv'
    BY <1>1, <2>1, <2>2 DEF MessageInv, RowInv
  <2>4. StatusIsOfThisAttempt'
    <3> SUFFICES ASSUME NEW m \in Msg, status'[m] \in {"received", "running", "completed"}
                 PROVE  <<m, attempt[m], status'[m]>> \in outcome
      BY <1>1 DEF StatusIsOfThisAttempt
    <3>1. CASE status'[m] = status[m]
      BY <3>1 DEF MessageInv, StatusIsOfThisAttempt
    <3>2. CASE status'[m] # status[m]
      BY <1>2, <1>5, <3>2
    <3> QED
      BY <3>1, <3>2
  <2> QED
    BY <2>3, <2>4
<1>8. FrameInv'
  <2>1. \A m \in Msg : status[m] # "none" => status'[m] # "none"
    BY <1>2, <1>5 DEF Frame, Reported
  <2> QED
    BY <1>1, <1>4, <2>1, WireShrinks
<1> QED
  BY <1>6, <1>7, <1>8 DEF MessageInv

\* A reconnect only drops frames.
LEMMA ReconnectStep ==
    ASSUME MessageInv, Reconnect
    PROVE  MessageInv'
<1>1. /\ wire \in [1 .. MaxStreams -> Seq(Frame)] /\ stream \in 1 .. MaxStreams
      /\ UNCHANGED <<status, attempt, turn, outcome>>
  BY DEF MessageInv, TypeOK, Frame, Reported, Reconnect, gatewayVars
<1>2. PICK n \in 0 .. Len(wire[stream]) : wire' = [wire EXCEPT ![stream] = SubSeq(wire[stream], 1, n)]
  BY DEF Reconnect
<1>3. /\ wire' \in [1 .. MaxStreams -> Seq(Frame)]
      /\ \A j \in 1 .. MaxStreams : \A k \in 1 .. Len(wire'[j]) :
            \E l \in 1 .. Len(wire[j]) : wire'[j][k] = wire[j][l]
  <2> HIDE DEF Frame
  <2>1. Len(wire[stream]) \in Nat
    BY <1>1
  <2>2. /\ SubSeq(wire[stream], 1, n) \in Seq(Frame)
        /\ \A k \in 1 .. Len(SubSeq(wire[stream], 1, n)) :
              k \in 1 .. Len(wire[stream]) /\ SubSeq(wire[stream], 1, n)[k] = wire[stream][k]
    BY <1>1, <1>2, <2>1
  <2> QED
    BY <1>1, <1>2, <2>2
<1>4. stream' \in 1 .. MaxStreams
  BY <1>1, TaskMessagesAssumption DEF Reconnect
<1>5. TypeOK'
  BY <1>1, <1>3, <1>4 DEF MessageInv, TypeOK, Frame, Reported
<1>6. FrameInv'
  BY <1>1, <1>3, WireShrinks
<1> QED
  BY <1>1, <1>5, <1>6 DEF MessageInv, RowInv, StatusIsOfThisAttempt

\* The invariant is inductive.
LEMMA NextMessages == MessageInv /\ [Next]_vars => MessageInv'
<1>1. ASSUME MessageInv, Next PROVE MessageInv'
  BY <1>1, GatewayStep, RuntimeStep, HandleStep, ReconnectStep DEF Next
<1>2. ASSUME MessageInv, UNCHANGED vars PROVE MessageInv'
  BY <1>2 DEF MessageInv, TypeOK, RowInv, FrameInv, StatusIsOfThisAttempt, vars, gatewayVars
<1> QED
  BY <1>1, <1>2

\* Every reachable state satisfies it.
LEMMA MessageInvariant == Spec => []MessageInv
BY InitMessages, NextMessages, PTL DEF Spec

\* What a step may do to a message that has ended.
LEMMA EndedStep ==
    ASSUME MessageInv, [Next]_vars, NEW m \in Msg
    PROVE  /\ status[m] = "completed" => status'[m] = "completed"
           /\ status[m] \in {"failed", "cancelled"} /\ attempt'[m] = attempt[m]
                => status'[m] \in {status[m], "completed"}
<1>1. status \in [Msg -> Sent \cup {"none"}] /\ attempt \in [Msg -> 0 .. MaxAttempt]
  BY DEF MessageInv, TypeOK
<1>2. ASSUME NEW q \in Msg, Submit(q) \/ Dispatch(q) \/ DispatchFails(q) \/ Cancel(q),
             status[m] \in {"completed", "failed", "cancelled"}
      PROVE  status'[m] = status[m]
  BY <1>1, <1>2 DEF Submit, Dispatch, DispatchFails, Cancel, Move
<1>3. ASSUME NEW q \in Msg, Retry(q)
      PROVE  /\ status[m] = "completed" => status'[m] = "completed"
             /\ attempt'[m] = attempt[m] => status'[m] = status[m]
  BY <1>1, <1>3 DEF Retry, Move
<1>4. ASSUME NEW q \in Msg, NEW a \in Attempt, Advance(q, a) \/ End(q, a) \/ RaiseError(q, a)
      PROVE  UNCHANGED status
  BY <1>4 DEF Advance, End, RaiseError, gatewayVars
<1>5. CASE Reconnect \/ UNCHANGED vars
  BY <1>5 DEF Reconnect, gatewayVars, vars
<1>6. ASSUME NEW i \in 1 .. MaxStreams, Handle(i),
             status[m] \in {"completed", "failed", "cancelled"}
      PROVE  status'[m] = status[m] \/ (status[m] = "failed" /\ status'[m] = "completed")
  <2> DEFINE f == Head(wire[i])
  <2>1. \/ f.to # "error" /\ RecordMessageStatus(f)
        \/ FailInflight(IF f.named THEN {f.msg} ELSE Msg)
    BY <1>6 DEF Handle
  <2>2. f.to \in Reported \cup {"error"}
    BY <1>6, HeadFrame DEF Handle, Frame
  <2>3. ASSUME FailInflight(IF f.named THEN {f.msg} ELSE Msg) PROVE status'[m] = status[m]
    BY <1>1, <1>6, <2>3 DEF FailInflight, InFlight
  <2>4. ASSUME f.to # "error", RecordMessageStatus(f)
        PROVE  status'[m] = status[m] \/ (status'[m] = f.to /\ f.to \in Transitions[status[m]])
    BY <1>1, <2>4 DEF RecordMessageStatus
  <2> QED
    BY <1>6, <2>1, <2>2, <2>3, <2>4, EndedTransitions
<1> QED
  BY <1>2, <1>3, <1>4, <1>5, <1>6 DEF Next

\* Type correctness of the rows and of the frames of every stream.
THEOREM MessageTypeCorrect == Spec => []TypeOK
<1>1. MessageInv => TypeOK
  BY DEF MessageInv
<1> QED
  BY <1>1, MessageInvariant, PTL

\* record_message_status: a late frame never advances a message sent again.
THEOREM StatusOfAttempt == Spec => []StatusIsOfThisAttempt
<1>1. MessageInv => StatusIsOfThisAttempt
  BY DEF MessageInv
<1> QED
  BY <1>1, MessageInvariant, PTL

\* record_message_status and fail_inflight_messages: "already-completed/failed
\* rows are untouched".
THEOREM EndedMessages == Spec => EndedStaysEnded
<1> DEFINE A == \A m \in Msg :
          /\ status[m] = "completed" => status'[m] = "completed"
          /\ status[m] \in {"failed", "cancelled"} /\ attempt'[m] = attempt[m]
               => status'[m] \in {status[m], "completed"}
<1>1. MessageInv /\ [Next]_vars => [A]_vars
  BY EndedStep
<1> QED
  BY <1>1, MessageInvariant, PTL DEF Spec, EndedStaysEnded

-----------------------------------------------------------------------------
(***************************************************************************)
(* NodeLabels.  A write loses a label only when the labels it is based on  *)
(* were overwritten since, so the invariant says of the labels that a call, *)
(* an ack, the registration and the heartbeat hold that they list only what *)
(* is installed, and of an ack that it holds what its call will need.      *)
(***************************************************************************)

\* LabelsTypeOK with what is under way.
LabelTyped ==
    /\ labels \in Labels
    /\ have \in [Key -> Version]
    /\ joins \in Join /\ online \in BOOLEAN /\ raced \in BOOLEAN
CallTyped ==
    /\ pc \in [Req -> {"idle", "waiting", "read", "write", "done", "error"}]
    /\ kind \in [Req -> Kind] /\ key \in [Req -> Key]
    /\ rec \in [Req -> Labels] /\ got \in [Req -> Labels]
    /\ up \in Seq(Req \X BOOLEAN)
WriterTyped ==
    /\ \/ reg \in {<< >>, <<"written">>}
       \/ /\ \E p, l \in Labels : reg = <<"read", p, l>>
          /\ joins < MaxJoin
    /\ beat = << >> \/ \E l \in Labels : beat = <<l>>

\* Labels list only what is on the node: a tool with a version, an editor among
\* the providers.
Real(l) ==
    /\ \A k \in Tool : l.ver[k] # 0 => have[k] # 0
    /\ \A e \in l.providers : have[e] # 0
\* What l lists, m lists.
Covers(l, m) ==
    /\ \A k \in Tool : l.ver[k] # 0 => m.ver[k] # 0
    /\ l.providers \subseteq m.providers

AllReal ==
    /\ Real(labels)
    /\ \A r \in Req : Real(rec[r]) /\ Real(got[r])
    /\ reg # << >> /\ reg[1] = "read" => Real(reg[2]) /\ Real(reg[3]) /\ Covers(reg[3], reg[2])
    /\ beat # << >> => Real(beat[1])

\* What a call whose ack was good will write: an install of what is on the node, a
\* refresh all that the labels it read list.
Answerable(r) ==
    /\ kind[r] = "install" => have[key[r]] # 0
    /\ kind[r] = "refresh" => Covers(rec[r], got[r])
CallFine(r) ==
    /\ pc[r] \in {"read", "write"} =>
          /\ kind[r] \in {"install", "refresh"} /\ Answerable(r)
          /\ kind[r] = "install" /\ key[r] \in Tool => got[r].ver[key[r]] # 0
          /\ kind[r] = "refresh" => pc[r] = "write"
    /\ \A i \in 1 .. Len(up) : up[i][1] = r =>
          /\ pc[r] # "idle"
          /\ up[i][2] /\ pc[r] = "waiting" => Answerable(r)

LabelInv ==
    /\ LabelTyped /\ CallTyped /\ WriterTyped /\ AllReal
    /\ (\A r \in Req : CallFine(r)) /\ LostOnlyByRace

-----------------------------------------------------------------------------
\* What the labels the server and the node write are made of.
LEMMA BlankLabels ==
    /\ NoLabels \in Labels /\ NoLabels.providers = {} /\ NoLabels.addr = 0
    /\ \A k \in Key : NoLabels.ver[k] = 0
BY NodeLabelsAssumption DEF NoLabels, Labels, Version, Join, Ip

LEMMA ProbeLabels ==
    ASSUME LabelTyped
    PROVE  /\ Probe \in Labels /\ Probe.ver = have
           /\ Probe.providers = {e \in Editor : have[e] # 0}
BY NodeLabelsAssumption DEF LabelTyped, Probe, Labels, Version, Join, Ip

LEMMA MergedLabels ==
    ASSUME NEW l \in Labels, NEW p \in Labels
    PROVE  /\ Merge(l, p) \in Labels /\ Merge(l, p).addr = l.addr
           /\ Merge(l, p).ver = p.ver /\ Merge(l, p).providers = p.providers
BY DEF Merge, Labels

LEMMA RefreshedLabels ==
    ASSUME NEW p \in Labels, NEW a \in Join
    PROVE  /\ Refreshed(p, a) \in Labels /\ Refreshed(p, a).addr = a
           /\ Refreshed(p, a).ver = p.ver /\ Refreshed(p, a).providers = p.providers
BY DEF Refreshed, Labels

LEMMA FoldedLabels ==
    ASSUME NEW l \in Labels, NEW k \in Key, NEW v \in Version
    PROVE  /\ Fold(l, k, v) \in Labels /\ Fold(l, k, v).addr = l.addr
           /\ Fold(l, k, v).ver = [l.ver EXCEPT ![k] = v]
           /\ Fold(l, k, v).providers = IF k \in Editor THEN l.providers \cup {k} ELSE l.providers
BY DEF Fold, Labels

LEMMA AddressedLabels ==
    ASSUME NEW l \in Labels, NEW ip \in Ip
    PROVE  LET m == [l EXCEPT !.ip = ip]
           IN  m \in Labels /\ m.addr = l.addr /\ m.ver = l.ver /\ m.providers = l.providers
BY DEF Labels

LEMMA ProbedLabels ==
    ASSUME NEW k \in Key, NEW v \in Version
    PROVE  LET m == [NoLabels EXCEPT !.ver[k] = v]
           IN  m \in Labels /\ m.providers = {} /\ m.ver = [NoLabels.ver EXCEPT ![k] = v]
BY BlankLabels DEF Labels, NoLabels

\* A write over the labels that were read loses nothing they list.
LEMMA WriteListed ==
    ASSUME LabelTyped, CallTyped, LostOnlyByRace,
           NEW base, NEW new \in Labels, Write(base, new),
           base = labels => Covers(labels, new),
           joins' = joins, new.addr = base.addr,
           UNCHANGED <<kind, key, got>>,
           \A r \in Req : pc'[r] = "done" /\ kind[r] = "install" =>
               \/ pc[r] = "done"
               \/ /\ key[r] \in Editor => key[r] \in new.providers
                  /\ key[r] \in Tool /\ got[r].ver[key[r]] # 0 => new.ver[key[r]] # 0
    PROVE  LostOnlyByRace'
<1> SUFFICES ASSUME ~raced' PROVE InstallIsListed' /\ AddressIsKept'
  BY DEF LostOnlyByRace
<1>1. ~raced /\ base = labels /\ labels' = new
  BY DEF Write, LabelTyped
<1>2. Covers(labels, new) /\ InstallIsListed /\ AddressIsKept
  BY <1>1 DEF LostOnlyByRace
<1>3. InstallIsListed'
  BY <1>1, <1>2 DEF InstallIsListed, Covers, CallTyped, Key
<1> QED
  BY <1>1, <1>2, <1>3 DEF AddressIsKept

\* A step that writes no labels and finishes no install that reported something.
LEMMA ListedRests ==
    ASSUME CallTyped, LostOnlyByRace, UNCHANGED <<labels, joins, raced>>,
           \A r \in Req : pc'[r] = "done" /\ kind'[r] = "install" =>
               \/ pc[r] = "done" /\ kind'[r] = kind[r] /\ key'[r] = key[r] /\ got'[r] = got[r]
               \/ key'[r] \in Tool /\ got'[r].ver[key'[r]] = 0
    PROVE  LostOnlyByRace'
BY NodeLabelsAssumption DEF LostOnlyByRace, InstallIsListed, AddressIsKept

\* What is on the node stays there.
LEMMA RealStays ==
    ASSUME \A k \in Key : have[k] # 0 => have'[k] # 0, NEW l \in Labels, Real(l)
    PROVE  /\ \A k \in Tool : l.ver[k] # 0 => have'[k] # 0
           /\ \A e \in l.providers : have'[e] # 0
BY DEF Real, Labels, Key

-----------------------------------------------------------------------------
LEMMA InitLabels == LabelsInit => LabelInv
<1> SUFFICES ASSUME LabelsInit PROVE LabelInv
  OBVIOUS
<1>1. LabelTyped /\ CallTyped /\ WriterTyped
  <2>1. (CHOOSE k \in Key : TRUE) \in Key
    BY NodeLabelsAssumption
  <2>2. key \in [Req -> Key]
    BY <2>1 DEF LabelsInit
  <2>3. 0 \in Version /\ 0 \in Join
    BY NodeLabelsAssumption DEF Version, Join
  <2>4. LabelTyped
    BY <2>3, BlankLabels DEF LabelsInit, LabelTyped
  <2>5. WriterTyped
    BY DEF LabelsInit, WriterTyped
  <2> QED
    BY <2>2, <2>4, <2>5, BlankLabels DEF LabelsInit, CallTyped, Kind
<1>2. AllReal /\ (\A r \in Req : CallFine(r))
  BY BlankLabels DEF LabelsInit, AllReal, Real, CallFine, Key
<1>3. LostOnlyByRace
  BY BlankLabels DEF LabelsInit, LostOnlyByRace, InstallIsListed, AddressIsKept
<1> QED
  BY <1>1, <1>2, <1>3 DEF LabelInv

LEMMA BeginKeeps ==
    ASSUME LabelInv, NEW r \in Req, NEW kd \in Kind, NEW k \in Key, Begin(r, kd, k)
    PROVE  LabelInv'
<1>1. LabelTyped /\ CallTyped /\ WriterTyped /\ AllReal /\ LostOnlyByRace
  BY DEF LabelInv
<1>2. LabelTyped' /\ CallTyped' /\ WriterTyped'
  BY <1>1, BlankLabels DEF LabelTyped, CallTyped, WriterTyped, Begin, Goto
<1>3. AllReal'
  BY <1>1, BlankLabels DEF AllReal, Real, Covers, CallTyped, Begin, Key
<1>4. ASSUME NEW q \in Req PROVE CallFine(q)'
  <2>1. CallFine(q) /\ CallFine(r)
    BY DEF LabelInv
  <2>2. CASE q = r
    <3>1. \A i \in 1 .. Len(up) : up[i][1] # r
      BY <2>1 DEF CallFine, Begin
    <3> QED
      BY <1>1, <2>2, <3>1 DEF CallTyped, CallFine, Begin, Goto
  <2>3. CASE q # r
    BY <1>1, <2>1, <2>3 DEF CallTyped, CallFine, Answerable, Covers, Begin, Goto
  <2> QED
    BY <2>2, <2>3
<1>5. LostOnlyByRace'
  BY <1>1, ListedRests DEF CallTyped, Begin, Goto
<1> QED
  BY <1>2, <1>3, <1>4, <1>5 DEF LabelInv

\* A timeout, the reading of the row and a lost connection move calls on.
LEMMA TimeoutKeeps ==
    ASSUME LabelInv, NEW r \in Req, Timeout(r)
    PROVE  LabelInv'
<1>1. LabelTyped /\ CallTyped /\ WriterTyped /\ AllReal /\ LostOnlyByRace
  BY DEF LabelInv
<1>2. LabelTyped' /\ CallTyped' /\ WriterTyped'
  BY <1>1 DEF LabelTyped, CallTyped, WriterTyped, Timeout, Goto
<1>3. AllReal'
  BY <1>1 DEF AllReal, Real, Covers, Timeout
<1>4. \A q \in Req : CallFine(q)'
  BY <1>1 DEF LabelInv, CallTyped, CallFine, Answerable, Covers, Timeout, Goto
<1>5. LostOnlyByRace'
  BY <1>1, ListedRests DEF CallTyped, Timeout, Goto
<1> QED
  BY <1>2, <1>3, <1>4, <1>5 DEF LabelInv

LEMMA ReadKeeps ==
    ASSUME LabelInv, NEW r \in Req, ReadRow(r)
    PROVE  LabelInv'
<1>1. LabelTyped /\ CallTyped /\ WriterTyped /\ AllReal /\ LostOnlyByRace
  BY DEF LabelInv
<1>2. LabelTyped' /\ CallTyped' /\ WriterTyped'
  BY <1>1 DEF LabelTyped, CallTyped, WriterTyped, ReadRow, Goto
<1>3. AllReal'
  BY <1>1 DEF AllReal, Real, Covers, CallTyped, ReadRow
<1>4. ASSUME NEW q \in Req PROVE CallFine(q)'
  <2>1. CallFine(q) /\ CallFine(r)
    BY DEF LabelInv
  <2>2. CASE q = r
    BY <1>1, <2>1, <2>2 DEF CallTyped, CallFine, Answerable, ReadRow, Goto
  <2>3. CASE q # r
    BY <1>1, <2>1, <2>3 DEF CallTyped, CallFine, Answerable, Covers, ReadRow, Goto
  <2> QED
    BY <2>2, <2>3
<1>5. LostOnlyByRace'
  BY <1>1, ListedRests DEF CallTyped, ReadRow, Goto
<1> QED
  BY <1>2, <1>3, <1>4, <1>5 DEF LabelInv

\* The head of a queue of acks.
LEMMA HeadOfUp ==
    ASSUME CallTyped, up # << >>, up' = Tail(up)
    PROVE  /\ 1 \in 1 .. Len(up) /\ Head(up) = up[1] /\ Head(up)[1] \in Req /\ Head(up)[2] \in BOOLEAN
           /\ up' \in Seq(Req \X BOOLEAN) /\ Len(up') = Len(up) - 1
           /\ \A i \in 1 .. Len(up') : i + 1 \in 1 .. Len(up) /\ up'[i] = up[i + 1]
<1>1. up \in Seq(Req \X BOOLEAN)
  BY DEF CallTyped
<1>2. Len(up) \in Nat \ {0} /\ Head(up) = up[1] /\ up[1] \in Req \X BOOLEAN
  BY <1>1
<1>3. /\ up' \in Seq(Req \X BOOLEAN) /\ Len(up') = Len(up) - 1
      /\ \A i \in 1 .. Len(up') : up'[i] = up[i + 1]
  BY <1>1, <1>2
<1> QED
  BY <1>2, <1>3

LEMMA AckKeeps ==
    ASSUME LabelInv, HandleAck
    PROVE  LabelInv'
<1>1. LabelTyped /\ CallTyped /\ WriterTyped /\ AllReal /\ LostOnlyByRace
  BY DEF LabelInv
<1> DEFINE r == Head(up)[1]
<1>2. /\ 1 \in 1 .. Len(up) /\ Head(up) = up[1] /\ r \in Req /\ Head(up)[2] \in BOOLEAN
      /\ up' \in Seq(Req \X BOOLEAN) /\ Len(up') = Len(up) - 1
      /\ \A i \in 1 .. Len(up') : i + 1 \in 1 .. Len(up) /\ up'[i] = up[i + 1]
  BY <1>1, HeadOfUp DEF HandleAck
<1>3. /\ UNCHANGED <<labels, have, joins, online, reg, beat, kind, key, rec, got, raced>>
      /\ \A q \in Req \ {r} : pc'[q] = pc[q]
      /\ pc[r] # "waiting" => pc'[r] = pc[r]
      /\ pc[r] = "waiting" => pc'[r] = IF Head(up)[2] THEN AfterAck(r) ELSE "error"
      /\ pc' \in [Req -> {"idle", "waiting", "read", "write", "done", "error"}]
  <2>1. AfterAck(r) \in {"read", "write", "done"}
    BY DEF AfterAck
  <2>2. /\ UNCHANGED <<labels, have, joins, online, reg, beat, kind, key, rec, got, raced>>
        /\ \/ pc[r] # "waiting" /\ pc' = pc
           \/ /\ pc[r] = "waiting"
              /\ pc' = [pc EXCEPT ![r] = IF Head(up)[2] THEN AfterAck(r) ELSE "error"]
    BY DEF HandleAck, Goto
  <2> HIDE DEF r
  <2> QED
    BY <1>1, <1>2, <2>1, <2>2 DEF CallTyped
<1>4. LabelTyped' /\ CallTyped' /\ WriterTyped'
  BY <1>1, <1>2, <1>3 DEF LabelTyped, CallTyped, WriterTyped
<1>5. AllReal'
  BY <1>1, <1>3 DEF AllReal, Real, Covers
<1>6. ASSUME NEW q \in Req PROVE CallFine(q)'
  <2>1. CallFine(q)
    BY DEF LabelInv
  <2>2. \A i \in 1 .. Len(up') : up'[i][1] = q => pc[q] # "idle" /\ (up'[i][2] /\ pc[q] = "waiting" => Answerable(q))
    BY <1>2, <2>1 DEF CallFine
  <2>3. Answerable(q)' <=> Answerable(q)
    BY <1>3 DEF Answerable, Covers
  <2>4. CASE pc'[q] = pc[q]
    BY <1>3, <2>1, <2>2, <2>3, <2>4 DEF CallFine
  <2>5. CASE pc'[q] # pc[q]
    <3>1. q = r /\ pc[r] = "waiting" /\ pc'[r] = IF Head(up)[2] THEN AfterAck(r) ELSE "error"
      BY <1>3, <2>5
    <3>2. Head(up)[2] => Answerable(r)
      BY <1>2, <2>1, <3>1 DEF CallFine
    <3>3. kind[r] \in Kind
      BY <1>1, <1>2 DEF CallTyped
    <3>4. pc'[r] \notin {"idle", "waiting"}
      BY <3>1 DEF AfterAck
    <3>5. pc'[r] \in {"read", "write"} =>
            /\ Answerable(r) /\ kind[r] \in {"install", "refresh"}
            /\ kind[r] = "install" /\ key[r] \in Tool => got[r].ver[key[r]] # 0
            /\ kind[r] = "refresh" => pc'[r] = "write"
      BY <3>1, <3>2, <3>3 DEF AfterAck, Kind
    <3> HIDE DEF r
    <3> QED
      BY <1>3, <2>3, <3>1, <3>4, <3>5 DEF CallFine
  <2> QED
    BY <2>4, <2>5
<1>7. LostOnlyByRace'
  <2>1. \A q \in Req : pc'[q] = "done" /\ kind[q] = "install" =>
            pc[q] = "done" \/ (key[q] \in Tool /\ got[q].ver[key[q]] = 0)
    BY <1>3 DEF AfterAck
  <2> QED
    BY <1>1, <1>3, <2>1, ListedRests
<1> QED
  BY <1>4, <1>5, <1>6, <1>7 DEF LabelInv

\* An install or a refresh writes the row.
LEMMA WriteKeeps ==
    ASSUME LabelInv, NEW r \in Req, WriteRow(r)
    PROVE  LabelInv'
<1>1. LabelTyped /\ CallTyped /\ WriterTyped /\ AllReal /\ LostOnlyByRace /\ CallFine(r)
  BY DEF LabelInv
<1>2. /\ rec[r] \in Labels /\ got[r] \in Labels /\ key[r] \in Key /\ kind[r] \in Kind
      /\ Real(rec[r]) /\ Real(got[r])
  BY <1>1 DEF CallTyped, AllReal
<1> DEFINE new == IF kind[r] = "refresh" THEN Merge(rec[r], got[r])
                  ELSE Fold(rec[r], key[r], got[r].ver[key[r]])
<1>3. /\ Write(rec[r], new) /\ pc' = [pc EXCEPT ![r] = "done"]
      /\ UNCHANGED <<have, joins, online, reg, beat, kind, key, rec, got, up>>
      /\ pc[r] = "write"
  BY DEF WriteRow, Goto
<1>4. new \in Labels /\ new.addr = rec[r].addr /\ Real(new) /\ Covers(rec[r], new)
      /\ (kind[r] = "install" =>
             /\ key[r] \in Editor => key[r] \in new.providers
             /\ key[r] \in Tool /\ got[r].ver[key[r]] # 0 => new.ver[key[r]] # 0)
  <2>1. CASE kind[r] = "refresh"
    <3>1. /\ new \in Labels /\ new.addr = rec[r].addr
          /\ new.ver = got[r].ver /\ new.providers = got[r].providers
      BY <1>2, <2>1, MergedLabels
    <3>2. Covers(rec[r], got[r])
      BY <1>1, <1>3, <2>1 DEF CallFine, Answerable
    <3> HIDE DEF new
    <3> QED
      BY <1>2, <2>1, <3>1, <3>2 DEF Covers, Real
  <2>2. CASE kind[r] # "refresh"
    <3>1. /\ kind[r] = "install" /\ have[key[r]] # 0
          /\ key[r] \in Tool => got[r].ver[key[r]] # 0
      BY <1>1, <1>2, <1>3, <2>2 DEF CallFine, Answerable, Kind
    <3>2. got[r].ver[key[r]] \in Version /\ rec[r].ver \in [Key -> Version]
      BY <1>2 DEF Labels
    <3>3. /\ new \in Labels /\ new.addr = rec[r].addr
          /\ new.ver = [rec[r].ver EXCEPT ![key[r]] = got[r].ver[key[r]]]
          /\ new.providers = IF key[r] \in Editor THEN rec[r].providers \cup {key[r]}
                             ELSE rec[r].providers
      <4> DEFINE l == rec[r]
                 k == key[r]
                 v == got[r].ver[key[r]]
      <4>1. new = Fold(l, k, v) /\ l \in Labels /\ k \in Key /\ v \in Version
        BY <1>2, <2>2, <3>2
      <4> HIDE DEF new, l, k, v
      <4>2. /\ Fold(l, k, v) \in Labels /\ Fold(l, k, v).addr = l.addr
            /\ Fold(l, k, v).ver = [l.ver EXCEPT ![k] = v]
            /\ Fold(l, k, v).providers =
                  IF k \in Editor THEN l.providers \cup {k} ELSE l.providers
        BY <4>1, FoldedLabels
      <4> QED
        BY <4>1, <4>2 DEF l, k, v
    <3> HIDE DEF new
    <3> QED
      <4>1. Covers(rec[r], new)
        BY <1>2, <3>1, <3>2, <3>3 DEF Covers, Key
      <4>2. Real(new)
        BY <1>2, <3>1, <3>2, <3>3 DEF Real, Key
      <4>3. key[r] \in Tool /\ got[r].ver[key[r]] # 0 => new.ver[key[r]] # 0
        BY <1>2, <3>2, <3>3
      <4> QED
        BY <3>3, <4>1, <4>2, <4>3
  <2> QED
    BY <2>1, <2>2
<1> HIDE DEF new
<1>5. LabelTyped' /\ CallTyped' /\ WriterTyped'
  BY <1>1, <1>3, <1>4 DEF LabelTyped, CallTyped, WriterTyped, Write
<1>6. AllReal'
  BY <1>1, <1>3, <1>4 DEF AllReal, Real, Covers, Write
<1>7. \A q \in Req : CallFine(q)'
  BY <1>1, <1>3 DEF LabelInv, CallTyped, CallFine, Answerable, Covers
<1>8. LostOnlyByRace'
  <2>1. \A q \in Req : pc'[q] = "done" /\ kind[q] = "install" =>
               \/ pc[q] = "done"
               \/ /\ key[q] \in Editor => key[q] \in new.providers
                  /\ key[q] \in Tool /\ got[q].ver[key[q]] # 0 => new.ver[key[q]] # 0
    BY <1>1, <1>3, <1>4 DEF CallTyped
  <2> QED
    BY <1>1, <1>3, <1>4, <2>1, WriteListed
<1> QED
  BY <1>5, <1>6, <1>7, <1>8 DEF LabelInv

-----------------------------------------------------------------------------
\* Registration reads the row with the node's labels in hand, and writes them over it.
LEMMA ArriveKeeps ==
    ASSUME LabelInv, RegisterArrives
    PROVE  LabelInv'
<1>1. LabelTyped /\ CallTyped /\ WriterTyped /\ AllReal /\ LostOnlyByRace
  BY DEF LabelInv
<1>2. Probe \in Labels /\ Probe.ver = have /\ Probe.providers = {e \in Editor : have[e] # 0}
  BY <1>1, ProbeLabels
<1>3. labels \in Labels /\ Real(labels) /\ labels.providers \subseteq Editor
  BY <1>1 DEF LabelTyped, AllReal, Labels
<1>4. Real(Probe) /\ Covers(labels, Probe)
  BY <1>2, <1>3 DEF Real, Covers
<1>5. PICK p \in Labels, l \in Labels :
         /\ reg' = <<"read", p, l>> /\ joins < MaxJoin
         /\ Real(p) /\ Real(l) /\ Covers(l, p)
  BY <1>2, <1>3, <1>4 DEF RegisterArrives
<1>6. LabelTyped' /\ CallTyped' /\ WriterTyped'
  BY <1>1, <1>2, <1>3, <1>5 DEF LabelTyped, CallTyped, WriterTyped, RegisterArrives, callVars
<1>7. AllReal'
  <2>1. UNCHANGED <<labels, have, rec, got, beat>>
    BY DEF RegisterArrives, callVars
  <2> QED
    BY <1>1, <1>5, <2>1 DEF AllReal, Real, Covers
<1>8. \A q \in Req : CallFine(q)'
  BY DEF LabelInv, CallFine, Answerable, Covers, RegisterArrives, callVars
<1>9. LostOnlyByRace'
  BY <1>1 DEF LostOnlyByRace, InstallIsListed, AddressIsKept, RegisterArrives, callVars
<1> QED
  BY <1>6, <1>7, <1>8, <1>9 DEF LabelInv

LEMMA RegisterKeeps ==
    ASSUME LabelInv, RegisterWrites
    PROVE  LabelInv'
<1>1. LabelTyped /\ CallTyped /\ WriterTyped /\ AllReal /\ LostOnlyByRace
  BY DEF LabelInv
<1>2. PICK p \in Labels, l \in Labels : reg = <<"read", p, l>> /\ joins < MaxJoin
  BY <1>1 DEF WriterTyped, RegisterWrites
<1>3. joins + 1 \in Join
  BY <1>1, <1>2, NodeLabelsAssumption DEF LabelTyped, Join
<1> DEFINE new == Refreshed(p, joins + 1)
<1>4. new \in Labels /\ new.addr = joins + 1 /\ new.ver = p.ver /\ new.providers = p.providers
  BY <1>3, RefreshedLabels
<1>5. Write(l, new) /\ joins' = joins + 1 /\ reg' = <<"written">>
      /\ UNCHANGED <<have, online, beat, callVars, up>>
  BY <1>2 DEF RegisterWrites
<1>6. Real(p) /\ Real(l) /\ Covers(l, p)
  BY <1>1, <1>2 DEF AllReal
<1> HIDE DEF new
<1>7. LabelTyped' /\ CallTyped' /\ WriterTyped'
  BY <1>1, <1>3, <1>4, <1>5 DEF LabelTyped, CallTyped, WriterTyped, Write, callVars
<1>8. Real(new)
  BY <1>4, <1>6 DEF Real
<1>9. AllReal'
  BY <1>1, <1>5, <1>8 DEF AllReal, Real, Covers, Write, callVars
<1>10. \A q \in Req : CallFine(q)'
  BY <1>5 DEF LabelInv, CallFine, Answerable, Covers, callVars
<1>11. LostOnlyByRace'
  <2> SUFFICES ASSUME ~raced' PROVE InstallIsListed' /\ AddressIsKept'
    BY DEF LostOnlyByRace
  <2>1. ~raced /\ l = labels /\ labels' = new
    BY <1>1, <1>5 DEF Write, LabelTyped
  <2>2. Covers(labels, new) /\ InstallIsListed
    BY <1>1, <1>4, <1>6, <2>1 DEF LostOnlyByRace, Covers
  <2>3. InstallIsListed'
    BY <1>1, <1>5, <2>1, <2>2 DEF InstallIsListed, Covers, CallTyped, callVars, Key
  <2> QED
    BY <1>4, <1>5, <2>1, <2>3 DEF AddressIsKept
<1> QED
  BY <1>7, <1>9, <1>10, <1>11 DEF LabelInv

\* A connection is made or lost: the waiting calls fail.
LEMMA ConnectionKeeps ==
    ASSUME LabelInv, RegisterConnects \/ Disconnect
    PROVE  LabelInv'
<1>1. LabelTyped /\ CallTyped /\ WriterTyped /\ AllReal /\ LostOnlyByRace
  BY DEF LabelInv
<1>2. /\ FailWaiting /\ UNCHANGED <<labels, have, joins, beat, kind, key, rec, got, raced>>
      /\ reg' \in {reg, << >>} /\ online' \in BOOLEAN
  BY DEF RegisterConnects, Disconnect
<1>3. LabelTyped' /\ CallTyped' /\ WriterTyped'
  BY <1>1, <1>2 DEF LabelTyped, CallTyped, WriterTyped, FailWaiting
<1>4. AllReal'
  BY <1>1, <1>2 DEF AllReal, Real, Covers
<1>5. \A q \in Req : CallFine(q)'
  BY <1>1, <1>2 DEF LabelInv, CallTyped, CallFine, Answerable, Covers, FailWaiting
<1>6. LostOnlyByRace'
  BY <1>1, <1>2, ListedRests DEF CallTyped, FailWaiting
<1> QED
  BY <1>3, <1>4, <1>5, <1>6 DEF LabelInv

\* Heartbeats.
LEMMA HeartbeatKeeps ==
    ASSUME LabelInv, HeartbeatReads \/ HeartbeatWrites
    PROVE  LabelInv'
<1>1. LabelTyped /\ CallTyped /\ WriterTyped /\ AllReal /\ LostOnlyByRace
  BY DEF LabelInv
<1>2. \A q \in Req : CallFine(q)'
  BY DEF LabelInv, CallFine, Answerable, Covers, HeartbeatReads, HeartbeatWrites, callVars
<1>3. CASE HeartbeatReads
  <2>1. LabelTyped' /\ CallTyped' /\ WriterTyped' /\ LostOnlyByRace'
    BY <1>1, <1>3 DEF LabelTyped, CallTyped, WriterTyped, LostOnlyByRace, InstallIsListed,
                      AddressIsKept, HeartbeatReads, callVars
  <2>2. AllReal'
    BY <1>1, <1>3 DEF AllReal, Real, Covers, HeartbeatReads, callVars
  <2> QED
    BY <1>2, <2>1, <2>2 DEF LabelInv
<1>4. CASE HeartbeatWrites
  <2>1. PICK l \in Labels : beat = <<l>>
    BY <1>1, <1>4 DEF WriterTyped, HeartbeatWrites
  <2>2. PICK ip \in Ip : Write(l, [l EXCEPT !.ip = ip])
    BY <1>4, <2>1 DEF HeartbeatWrites
  <2> DEFINE new == [l EXCEPT !.ip = ip]
  <2>3. new \in Labels /\ new.addr = l.addr /\ new.ver = l.ver /\ new.providers = l.providers
    BY AddressedLabels
  <2>4. Write(l, new) /\ beat' = << >> /\ UNCHANGED <<have, joins, online, reg, callVars, up>>
    BY <1>4, <2>2 DEF HeartbeatWrites
  <2>5. Real(l)
    BY <1>1, <2>1 DEF AllReal
  <2> HIDE DEF new
  <2>6. Real(new) /\ Covers(l, new)
    BY <2>3, <2>5 DEF Real, Covers
  <2>7. LabelTyped' /\ CallTyped' /\ WriterTyped'
    BY <1>1, <2>3, <2>4 DEF LabelTyped, CallTyped, WriterTyped, Write, callVars
  <2>8. AllReal'
    BY <1>1, <2>4, <2>6 DEF AllReal, Real, Covers, Write, callVars
  <2>9. LostOnlyByRace'
    BY <1>1, <2>3, <2>4, <2>6, WriteListed DEF callVars
  <2> QED
    BY <1>2, <2>7, <2>8, <2>9 DEF LabelInv
<1> QED
  BY <1>3, <1>4

-----------------------------------------------------------------------------
\* The node answers a call: what it reports is on the node by then.
LEMMA AnswersKeep ==
    ASSUME LabelInv, NEW r \in Req, NodeAnswers(r)
    PROVE  LabelInv'
<1>1. LabelTyped /\ CallTyped /\ WriterTyped /\ AllReal /\ LostOnlyByRace /\ CallFine(r)
  BY DEF LabelInv
<1>2. /\ pc[r] = "waiting" /\ \A i \in 1 .. Len(up) : up[i][1] # r
      /\ UNCHANGED <<labels, joins, online, reg, beat, pc, kind, key, rec, raced>>
  BY <1>1 DEF NodeAnswers, Answered, CallTyped
<1>3. key[r] \in Key /\ kind[r] \in Kind /\ rec[r] \in Labels /\ Real(rec[r]) /\ labels \in Labels
  BY <1>1 DEF CallTyped, AllReal, LabelTyped
<1>4. PICK l \in Labels, ok \in BOOLEAN :
         /\ Answer(r, l, ok)
         /\ have' \in [Key -> Version] /\ \A k \in Key : have[k] # 0 => have'[k] # 0
         /\ \A k \in Tool : l.ver[k] # 0 => have'[k] # 0
         /\ \A e \in l.providers : have'[e] # 0
         /\ ok /\ kind[r] = "install" => have'[key[r]] # 0
         /\ ok /\ kind[r] = "refresh" => Covers(rec[r], l)
  <2>1. CASE /\ kind[r] = "install" /\ have[key[r]] < MaxVersion
             /\ have' = [have EXCEPT ![key[r]] = @ + 1]
             /\ \E probed \in {0, have[key[r]] + 1} :
                   Answer(r, [NoLabels EXCEPT !.ver[key[r]] = probed], TRUE)
    <3>1. PICK v \in {0, have[key[r]] + 1} : Answer(r, [NoLabels EXCEPT !.ver[key[r]] = v], TRUE)
      BY <2>1
    <3>2. v \in Version /\ have[key[r]] + 1 \in Version \ {0}
      BY <1>1, <1>3, <2>1, NodeLabelsAssumption DEF LabelTyped, Version
    <3> DEFINE m == [NoLabels EXCEPT !.ver[key[r]] = v]
    <3>3. m \in Labels /\ m.providers = {} /\ m.ver = [NoLabels.ver EXCEPT ![key[r]] = v]
      BY <1>3, <3>2, ProbedLabels
    <3> HIDE DEF m
    <3>4. NoLabels.ver \in [Key -> Version] /\ \A k \in Key : NoLabels.ver[k] = 0
      BY BlankLabels DEF Labels
    <3>5. have' \in [Key -> Version] /\ \A k \in Key : have[k] # 0 => have'[k] # 0
      BY <1>1, <1>3, <2>1, <3>2 DEF LabelTyped
    <3>6. have'[key[r]] # 0
      BY <1>1, <1>3, <2>1, <3>2 DEF LabelTyped
    <3>7. \A k \in Tool : m.ver[k] # 0 => have'[k] # 0
      BY <1>3, <3>3, <3>4, <3>6 DEF Key
    <3> QED
      BY <2>1, <3>1, <3>3, <3>5, <3>6, <3>7 DEF m
  <2>2. CASE kind[r] # "install" /\ Answer(r, Probe, TRUE) /\ UNCHANGED have
    <3>1. Probe \in Labels /\ Probe.ver = have /\ Probe.providers = {e \in Editor : have[e] # 0}
      BY <1>1, ProbeLabels
    <3>2. Covers(rec[r], Probe)
      BY <1>3, <3>1 DEF Covers, Real, Labels
    <3> HIDE DEF Probe
    <3> QED
      BY <1>1, <2>2, <3>1, <3>2 DEF LabelTyped
  <2>3. CASE Answer(r, NoLabels, FALSE) /\ UNCHANGED have
    BY <1>1, <2>3, BlankLabels DEF LabelTyped, Key
  <2> QED
    BY <2>1, <2>2, <2>3 DEF NodeAnswers
<1>5. got' = [got EXCEPT ![r] = l] /\ up' = Append(up, <<r, ok>>)
  BY <1>4 DEF Answer
<1>6. /\ up' \in Seq(Req \X BOOLEAN) /\ Len(up') = Len(up) + 1 /\ Len(up) \in Nat
      /\ up'[Len(up) + 1] = <<r, ok>> /\ \A i \in 1 .. Len(up) : up'[i] = up[i]
  BY <1>1, <1>5 DEF CallTyped
<1>7. LabelTyped' /\ CallTyped' /\ WriterTyped'
  BY <1>1, <1>2, <1>4, <1>5, <1>6 DEF LabelTyped, CallTyped, WriterTyped
<1>8. AllReal'
  <2>1. Real(labels)' /\ \A q \in Req : Real(rec[q])'
    BY <1>1, <1>2, <1>4, RealStays DEF AllReal, Real, CallTyped, LabelTyped
  <2>2. ASSUME NEW q \in Req PROVE Real(got[q])'
    <3>1. CASE q = r
      BY <1>1, <1>4, <1>5, <3>1 DEF Real, CallTyped
    <3>2. CASE q # r
      BY <1>1, <1>4, <1>5, <3>2, RealStays DEF Real, CallTyped, AllReal
    <3> QED
      BY <3>1, <3>2
  <2>3. (reg # << >> /\ reg[1] = "read" => Real(reg[2]) /\ Real(reg[3]) /\ Covers(reg[3], reg[2]))'
    <3> SUFFICES ASSUME reg # << >>, reg[1] = "read"
                 PROVE  (Real(reg[2]) /\ Real(reg[3]) /\ Covers(reg[3], reg[2]))'
      BY <1>2
    <3>1. PICK p \in Labels, m \in Labels : reg = <<"read", p, m>>
      BY <1>1 DEF WriterTyped
    <3>2. Real(p) /\ Real(m) /\ Covers(m, p)
      BY <1>1, <3>1 DEF AllReal
    <3>3. /\ \A k \in Tool : p.ver[k] # 0 => have'[k] # 0
          /\ \A e \in p.providers : have'[e] # 0
          /\ \A k \in Tool : m.ver[k] # 0 => have'[k] # 0
          /\ \A e \in m.providers : have'[e] # 0
      BY <1>4, <3>2, RealStays
    <3> QED
      BY <1>2, <3>1, <3>2, <3>3 DEF Real, Covers
  <2>4. (beat # << >> => Real(beat[1]))'
    <3> SUFFICES ASSUME beat # << >> PROVE Real(beat[1])'
      BY <1>2
    <3>1. PICK m \in Labels : beat = <<m>>
      BY <1>1 DEF WriterTyped
    <3>2. Real(m)
      BY <1>1, <3>1 DEF AllReal
    <3>3. /\ \A k \in Tool : m.ver[k] # 0 => have'[k] # 0
          /\ \A e \in m.providers : have'[e] # 0
      BY <1>4, <3>2, RealStays
    <3> QED
      BY <1>2, <3>1, <3>3 DEF Real
  <2> QED
    BY <2>1, <2>2, <2>3, <2>4 DEF AllReal
<1>9. ASSUME NEW q \in Req PROVE CallFine(q)'
  <2>1. CallFine(q)
    BY DEF LabelInv
  <2>2. CASE q = r
    <3>1. got'[r] = l
      BY <1>1, <1>5 DEF CallTyped
    <3>2. ok => Answerable(r)'
      BY <1>2, <1>4, <3>1 DEF Answerable, Covers
    <3>3. \A i \in 1 .. Len(up') : up'[i][1] = r => up'[i][2] = ok
      BY <1>2, <1>6
    <3> QED
      BY <1>2, <2>2, <3>2, <3>3 DEF CallFine
  <2>3. CASE q # r
    <3>1. got'[q] = got[q] /\ key[q] \in Key
      BY <1>1, <1>5, <2>3 DEF CallTyped
    <3>2. Answerable(q) => Answerable(q)'
      BY <1>2, <1>4, <3>1 DEF Answerable, Covers
    <3>3. \A i \in 1 .. Len(up') : up'[i][1] = q => i \in 1 .. Len(up) /\ up'[i] = up[i]
      BY <1>6, <2>3
    <3> QED
      BY <1>2, <2>1, <3>1, <3>2, <3>3 DEF CallFine
  <2> QED
    BY <2>2, <2>3
<1>10. LostOnlyByRace'
  <2>1. \A q \in Req : pc'[q] = "done" => pc[q] = "done" /\ got'[q] = got[q]
    BY <1>1, <1>2, <1>5 DEF CallTyped
  <2> QED
    BY <1>1, <1>2, <2>1, ListedRests
<1> QED
  BY <1>7, <1>8, <1>9, <1>10 DEF LabelInv

LEMMA NextLabels == LabelInv /\ [LabelsNext]_labelVars => LabelInv'
<1> SUFFICES ASSUME LabelInv, [LabelsNext]_labelVars PROVE LabelInv'
  OBVIOUS
<1>1. CASE UNCHANGED labelVars
  BY <1>1 DEF LabelInv, LabelTyped, CallTyped, WriterTyped, AllReal, Real, Covers, CallFine,
              Answerable, LostOnlyByRace, InstallIsListed, AddressIsKept, labelVars, callVars
<1>2. ASSUME NEW r \in Req, Timeout(r) \/ ReadRow(r) \/ WriteRow(r) \/ NodeAnswers(r)
      PROVE LabelInv'
  BY <1>2, TimeoutKeeps, ReadKeeps, WriteKeeps, AnswersKeep
<1>3. ASSUME NEW r \in Req, NEW kd \in Kind, NEW k \in Key, Begin(r, kd, k) PROVE LabelInv'
  BY <1>3, BeginKeeps
<1> QED
  BY <1>1, <1>2, <1>3, AckKeeps, ArriveKeeps, RegisterKeeps, ConnectionKeeps, HeartbeatKeeps DEF LabelsNext

LEMMA LabelsInvariant == LabelsSpec => []LabelInv
<1>1. LabelsInit => LabelInv
  BY InitLabels
<1>2. LabelInv /\ [LabelsNext]_labelVars => LabelInv'
  BY NextLabels
<1> QED
  BY <1>1, <1>2, PTL DEF LabelsSpec

\* Every reachable state is well typed.
THEOREM LabelsTypeCorrect == LabelsSpec => []LabelsTypeOK
<1>1. LabelInv => LabelsTypeOK
  BY DEF LabelInv, LabelTyped, CallTyped, LabelsTypeOK
<1> QED
  BY <1>1, LabelsInvariant, PTL

\* _store_editor_version, _store_host_tool_versions, the refresh, registration and
\* the heartbeat keep what the others stored, unless they wrote over labels read
\* before another's write.
THEOREM LabelsKept == LabelsSpec => []LostOnlyByRace
<1>1. LabelInv => LostOnlyByRace
  BY DEF LabelInv
<1> QED
  BY <1>1, LabelsInvariant, PTL
==============================================================================

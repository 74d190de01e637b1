----------------------------- MODULE TaskMessages -----------------------------
(***************************************************************************)
(* The delivery status of a task's user messages.  The gateway queues,     *)
(* dispatches, cancels and retries a message; the runtime reports what it  *)
(* does with each attempt as frames of the node's stream; the node server  *)
(* folds a frame into the row with one conditional UPDATE.  After a        *)
(* reconnect the handler of the old stream may still be working through    *)
(* its frames while the new one starts on its own.                         *)
(***************************************************************************)
EXTENDS Integers, Sequences

CONSTANTS Msg,         \* client_message_ids of one task
          MaxAttempt,  \* bound: sends of one message
          MaxStreams,  \* bound: streams the node opens
          MaxFrames,   \* bound: frames waiting on one stream
          NamesMessage \* whether error frames carry the message id, \subseteq BOOLEAN

ASSUME TaskMessagesAssumption ==
    /\ MaxAttempt \in Nat \ {0} /\ MaxStreams \in Nat \ {0}
    /\ MaxFrames \in Nat \ {0}
    /\ NamesMessage \subseteq BOOLEAN

VARIABLES
    status,   \* mc_task_events.delivery_status, "none" without a row
    attempt,  \* mc_task_events.delivery_attempt
    turn,     \* what the runtime is doing with each attempt it was sent
    outcome,  \* <<message, attempt, status>> facts the runtime or gateway reported
    stream,   \* the stream the node writes to
    wire      \* the frames of each stream the node server has not handled

gatewayVars == <<status, attempt>>
vars == <<status, attempt, turn, outcome, stream, wire>>

Attempt == 1 .. MaxAttempt
Sent == {"pending", "dispatching", "received", "running", "completed",
         "failed", "cancelled"}
InFlight == {"pending", "dispatching", "received", "running"}

\* _TRANSITIONS: the statuses a message may move to.
Transitions ==
    [pending     |-> {"dispatching", "failed", "cancelled"},
     dispatching |-> {"received", "failed"},
     received    |-> {"running", "completed", "failed", "cancelled"},
     running     |-> {"completed", "failed", "cancelled"},
     completed   |-> {},
     failed      |-> {"pending", "completed"},
     cancelled   |-> {"pending"}]

(***************************************************************************)
(* The node server: handle_upstream of a session_event.                    *)
(***************************************************************************)

\* record_message_status without the delivery_attempt condition.
RecordAnyAttempt(f) ==
    status' = [status EXCEPT ![f.msg] =
                  IF f.to \in Transitions[@] THEN f.to ELSE @]

\* record_message_status: the row moves when it is at the frame's attempt and
\* in a state the target can be reached from.
RecordMessageStatus(f) ==
    status' = [status EXCEPT ![f.msg] =
                  IF attempt[f.msg] = f.attempt /\ f.to \in Transitions[@]
                  THEN f.to ELSE @]

\* fail_inflight_messages without the in-flight condition.
FailAll(M) == status' = [m \in Msg |-> IF m \in M /\ status[m] # "none"
                                       THEN "failed" ELSE status[m]]

\* fail_inflight_messages: the in-flight rows among the messages M.
FailInflight(M) == status' = [m \in Msg |-> IF m \in M /\ status[m] \in InFlight
                                            THEN "failed" ELSE status[m]]

\* The handler of stream i takes its next frame.  An error frame fails the
\* message it names, or all of the session without one.
Handle(i) ==
    /\ wire[i] # << >>
    /\ wire' = [wire EXCEPT ![i] = Tail(@)]
    /\ LET f == Head(wire[i])
       IN \/ f.to # "error" /\ RecordMessageStatus(f)
          \/ f.to = "error" /\ FailInflight(IF f.named THEN {f.msg} ELSE Msg)
    /\ UNCHANGED <<attempt, turn, outcome, stream>>

(***************************************************************************)
(* The gateway (external), by the transition table it shares.              *)
(***************************************************************************)

Move(m, to) == status' = [status EXCEPT ![m] = to]
Fact(m, a, s) == outcome' = outcome \cup {<<m, a, s>>}

Submit(m) ==
    /\ status[m] = "none"
    /\ Move(m, "pending")
    /\ attempt' = [attempt EXCEPT ![m] = 1]
    /\ UNCHANGED <<turn, outcome, stream, wire>>

\* The input goes to the node; the gateway may also see that fail.
Dispatch(m) ==
    /\ status[m] = "pending"
    /\ Move(m, "dispatching")
    /\ turn' = [turn EXCEPT ![m][attempt[m]] = "sent"]
    /\ UNCHANGED <<attempt, outcome, stream, wire>>

DispatchFails(m) ==
    /\ status[m] = "dispatching"
    /\ Move(m, "failed")
    /\ Fact(m, attempt[m], "failed")
    /\ UNCHANGED <<attempt, turn, stream, wire>>

Cancel(m) ==
    /\ status[m] = "pending"
    /\ Move(m, "cancelled")
    /\ Fact(m, attempt[m], "cancelled")
    /\ UNCHANGED <<attempt, turn, stream, wire>>

\* The same message is sent again.
Retry(m) ==
    /\ status[m] \in {"failed", "cancelled"} /\ attempt[m] < MaxAttempt
    /\ Move(m, "pending")
    /\ attempt' = [attempt EXCEPT ![m] = @ + 1]
    /\ UNCHANGED <<turn, outcome, stream, wire>>

(***************************************************************************)
(* The runtime and the node (external).                                    *)
(***************************************************************************)

Report(m, a, to, named) ==
    /\ Len(wire[stream]) < MaxFrames
    /\ wire' = [wire EXCEPT ![stream] =
                   Append(@, [msg |-> m, attempt |-> a, to |-> to, named |-> named])]
    /\ Fact(m, a, IF to = "error" THEN "failed" ELSE to)

\* input_status received, agent_turn_started.
Advance(m, a) ==
    /\ \/ turn[m][a] = "sent" /\ Report(m, a, "received", TRUE)
          /\ turn' = [turn EXCEPT ![m][a] = "received"]
       \/ turn[m][a] = "received" /\ Report(m, a, "running", TRUE)
          /\ turn' = [turn EXCEPT ![m][a] = "running"]
    /\ UNCHANGED <<gatewayVars, stream>>

\* agent_turn_completed, or an input_status that ends the input.
End(m, a) ==
    /\ turn[m][a] \in {"received", "running"}
    /\ \E to \in {"completed", "failed", "cancelled"} : Report(m, a, to, TRUE)
    /\ turn' = [turn EXCEPT ![m][a] = "ended"]
    /\ UNCHANGED <<gatewayVars, stream>>

\* An error frame; the turn may still go on and finish.
RaiseError(m, a) ==
    /\ turn[m][a] \in {"received", "running"}
    /\ \E named \in NamesMessage : Report(m, a, "error", named)
    /\ UNCHANGED <<gatewayVars, turn, stream>>

\* The node opens a new stream; frames the server has not read may be lost
\* with the old one.
Reconnect ==
    /\ stream < MaxStreams
    /\ stream' = stream + 1
    /\ \E k \in 0 .. Len(wire[stream]) :
          wire' = [wire EXCEPT ![stream] = SubSeq(@, 1, k)]
    /\ UNCHANGED <<gatewayVars, turn, outcome>>

----------------------------------------------------------------------------
Init ==
    /\ status = [m \in Msg |-> "none"]
    /\ attempt = [m \in Msg |-> 0]
    /\ turn = [m \in Msg |-> [a \in Attempt |-> "none"]]
    /\ outcome = {}
    /\ stream = 1
    /\ wire = [i \in 1 .. MaxStreams |-> << >>]

Next ==
    \/ \E m \in Msg : Submit(m) \/ Dispatch(m) \/ DispatchFails(m)
                      \/ Cancel(m) \/ Retry(m)
    \/ \E m \in Msg, a \in Attempt : Advance(m, a) \/ End(m, a) \/ RaiseError(m, a)
    \/ \E i \in 1 .. MaxStreams : Handle(i)
    \/ Reconnect

Spec == Init /\ [][Next]_vars

----------------------------------------------------------------------------
\* The type of the state.
TypeOK ==
    /\ status \in [Msg -> Sent \cup {"none"}]
    /\ attempt \in [Msg -> 0 .. MaxAttempt]
    /\ turn \in [Msg -> [Attempt -> {"none", "sent", "received", "running", "ended"}]]
    /\ outcome \subseteq Msg \X Attempt \X Sent
    /\ stream \in 1 .. MaxStreams
    /\ wire \in [1 .. MaxStreams ->
                   Seq([msg : Msg, attempt : Attempt, named : BOOLEAN,
                        to : {"received", "running", "completed", "failed",
                              "cancelled", "error"}])]

\* A row says received, running or completed only when the runtime reported
\* that of the attempt the row is at: a frame of an earlier attempt, however
\* late and on whichever stream, never advances a message sent again.
StatusIsOfThisAttempt ==
    \A m \in Msg : status[m] \in {"received", "running", "completed"} =>
        <<m, attempt[m], status[m]>> \in outcome

\* "already-completed/failed rows are untouched": a completed message keeps its
\* status whatever error frames follow, and only a new send reopens a failed or
\* cancelled one short of its completion.
EndedStaysEnded ==
    [][\A m \in Msg :
          /\ status[m] = "completed" => status'[m] = "completed"
          /\ status[m] \in {"failed", "cancelled"} /\ attempt'[m] = attempt[m]
               => status'[m] \in {status[m], "completed"}]_vars
============================================================================

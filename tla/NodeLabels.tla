----------------------------- MODULE NodeLabels -----------------------------
(***************************************************************************)
(* The capability labels of one node's row.  Registration replaces them;   *)
(* an editor or host-tool install and a label refresh fold what the node's *)
(* ack reports into them; a heartbeat patches the public address.  Each of *)
(* these reads the row, and writes the whole label column after at least   *)
(* one await.  The environment relays use the same ack exchange and store  *)
(* nothing.                                                                *)
(*                                                                         *)
(* A label's value is the version installed, 0 when absent or blank.  The  *)
(* row exists throughout and its statements do not fail.  Of the tools     *)
(* manage_editor installs, ocr (stored like an editor without being a      *)
(* provider) is left out.                                                  *)
(***************************************************************************)
EXTENDS Naturals, Sequences

CONSTANTS Req,          \* calls
          Editor, Tool, \* what can be installed: editor CLIs, host tools
          MaxVersion,   \* bound: versions of one of them
          MaxJoin       \* bound: registrations of the node

Key == Editor \cup Tool
Version == 0 .. MaxVersion
Join == 0 .. MaxJoin

ASSUME NodeLabelsAssumption ==
    /\ Editor \cap Tool = {} /\ Key # {}
    /\ MaxVersion \in Nat /\ MaxJoin \in Nat \ {0}

VARIABLES
    labels,   \* capabilities_json: versions, providers, the address the server
              \* saw at registration and the node's public address
    have,     \* what is installed on the node
    joins,    \* registrations whose labels were written
    online,   \* the node has a connection in the Registry
    reg,      \* the registration under way: labels to write, or where it is
    beat,     \* the labels read by the heartbeat under way
    pc, kind, key,
    rec,      \* the labels each call has read
    got,      \* the labels the node's ack carries
    up,       \* acks on their way to the server
    raced     \* history: some write was based on labels since overwritten

callVars == <<pc, kind, key, rec, got>>
labelVars == <<labels, have, joins, online, reg, beat, callVars, up, raced>>

Ip == {0, 1}
Labels == [ver : [Key -> Version], providers : SUBSET Editor, addr : Join, ip : Ip]
NoLabels == [ver |-> [k \in Key |-> 0], providers |-> {}, addr |-> 0, ip |-> 0]
Kind == {"install", "refresh", "relay"}

\* What the node advertises, by register or by refresh (external).
Probe == [ver |-> have, providers |-> {e \in Editor : have[e] # 0}, addr |-> 0, ip |-> 1]

\* upsert_node and the heartbeat's patch write the whole column.
Write(base, new) ==
    /\ labels' = new
    /\ raced' = (raced \/ base # labels)

(***************************************************************************)
(* Calls.                                                                  *)
(***************************************************************************)

Goto(r, phase) == pc' = [pc EXCEPT ![r] = phase]

\* The guards pass, the waiter is registered and the frame sent; a refresh keeps
\* the record it checked.  An offline node is an error.
Begin(r, kd, k) ==
    /\ pc[r] = "idle"
    /\ kind' = [kind EXCEPT ![r] = kd]
    /\ key' = [key EXCEPT ![r] = k]
    /\ rec' = [rec EXCEPT ![r] = IF kd = "refresh" THEN labels ELSE NoLabels]
    /\ Goto(r, IF online THEN "waiting" ELSE "error")
    /\ UNCHANGED <<labels, have, joins, online, reg, beat, got, up, raced>>

Timeout(r) ==
    /\ pc[r] = "waiting"
    /\ Goto(r, "error")
    /\ UNCHANGED <<labels, have, joins, online, reg, beat, kind, key, rec, got, up, raced>>

\* An ack sends an install to fold what was reported - an editor even with a
\* blank version, a tool only with a version - and a refresh to its write; a
\* relay reports it.
AfterAck(r) ==
    CASE kind[r] = "relay" -> "done"
      [] kind[r] = "refresh" -> "write"
      [] OTHER -> IF key[r] \in Tool /\ got[r].ver[key[r]] = 0 THEN "done" ELSE "read"

\* The oldest ack on the wire reaches its waiter, if that still waits.
HandleAck ==
    /\ up # << >>
    /\ up' = Tail(up)
    /\ LET r == Head(up)[1]
       IN IF pc[r] # "waiting" THEN UNCHANGED pc
          ELSE Goto(r, IF Head(up)[2] THEN AfterAck(r) ELSE "error")
    /\ UNCHANGED <<labels, have, joins, online, reg, beat, kind, key, rec, got, raced>>

\* _store_editor_version, _store_host_tool_versions: the row is read ...
ReadRow(r) ==
    /\ pc[r] = "read"
    /\ rec' = [rec EXCEPT ![r] = labels]
    /\ Goto(r, "write")
    /\ UNCHANGED <<labels, have, joins, online, reg, beat, kind, key, got, up, raced>>

\* ... the version folded into the labels read, an editor also a provider ...
Fold(l, k, v) ==
    [l EXCEPT !.ver[k] = v,
              !.providers = IF k \in Editor THEN @ \cup {k} ELSE @]

\* A refresh that writes the node's reply alone.
MergeReplaces(l, probe) == probe

\* ... or, for a refresh, the node's labels laid over the stored ones: what only
\* the server knows stays.
Merge(l, probe) == [probe EXCEPT !.addr = l.addr]

\* ... and the whole column written.
WriteRow(r) ==
    /\ pc[r] = "write"
    /\ Write(rec[r], IF kind[r] = "refresh" THEN Merge(rec[r], got[r])
                     ELSE Fold(rec[r], key[r], got[r].ver[key[r]]))
    /\ Goto(r, "done")
    /\ UNCHANGED <<have, joins, online, reg, beat, kind, key, rec, got, up>>

(***************************************************************************)
(* Registration, heartbeats, disconnects.                                  *)
(***************************************************************************)

\* A register frame arrives with the node's labels and the row is read.
RegisterArrives ==
    /\ reg = << >> /\ joins < MaxJoin
    /\ reg' = <<"read", Probe, labels>>
    /\ UNCHANGED <<labels, have, joins, online, beat, callVars, up, raced>>

\* _refreshed_record adds the address the server saw the node at.
Refreshed(probe, addr) == [probe EXCEPT !.addr = addr]

\* upsert_node.
RegisterWrites ==
    /\ reg # << >> /\ reg[1] = "read"
    /\ Write(reg[3], Refreshed(reg[2], joins + 1))
    /\ joins' = joins + 1
    /\ reg' = <<"written">>
    /\ UNCHANGED <<have, online, beat, callVars, up>>

\* Close of the connection: its waiting calls fail, unread acks are lost.
FailWaiting ==
    /\ pc' = [r \in Req |-> IF pc[r] = "waiting" THEN "error" ELSE pc[r]]
    /\ up' = << >>

\* Registry.register supersedes the previous connection.
RegisterConnects ==
    /\ reg = <<"written">>
    /\ reg' = << >>
    /\ online' = TRUE
    /\ FailWaiting
    /\ UNCHANGED <<labels, have, joins, beat, kind, key, rec, got, raced>>

Disconnect ==
    /\ online
    /\ online' = FALSE
    /\ FailWaiting
    /\ UNCHANGED <<labels, have, joins, reg, beat, kind, key, rec, got, raced>>

\* patch_node_public_ip_report: the row is read, then the column written.
HeartbeatReads ==
    /\ online /\ beat = << >>
    /\ beat' = <<labels>>
    /\ UNCHANGED <<labels, have, joins, online, reg, callVars, up, raced>>

HeartbeatWrites ==
    /\ beat # << >>
    /\ \E ip \in Ip : Write(beat[1], [beat[1] EXCEPT !.ip = ip])
    /\ beat' = << >>
    /\ UNCHANGED <<have, joins, online, reg, callVars, up>>

(***************************************************************************)
(* The node (external).                                                    *)
(***************************************************************************)

Answer(r, l, ok) ==
    /\ got' = [got EXCEPT ![r] = l]
    /\ up' = Append(up, <<r, ok>>)

Answered(r) == \E i \in DOMAIN up : up[i][1] = r

\* The node answers on its newest stream: an install leaves a new version,
\* which it may fail to probe; a refresh probes everything.
NodeAnswers(r) ==
    /\ online /\ reg = << >>
    /\ pc[r] = "waiting" /\ ~Answered(r)
    /\ \/ /\ kind[r] = "install" /\ have[key[r]] < MaxVersion
          /\ have' = [have EXCEPT ![key[r]] = @ + 1]
          /\ \E probed \in {0, have[key[r]] + 1} :
                Answer(r, [NoLabels EXCEPT !.ver[key[r]] = probed], TRUE)
       \/ /\ kind[r] # "install"
          /\ Answer(r, Probe, TRUE)
          /\ UNCHANGED have
       \/ /\ Answer(r, NoLabels, FALSE)
          /\ UNCHANGED have
    /\ UNCHANGED <<labels, joins, online, reg, beat, pc, kind, key, rec, raced>>

-----------------------------------------------------------------------------
LabelsInit ==
    /\ labels = NoLabels
    /\ have = [k \in Key |-> 0]
    /\ joins = 0
    /\ online = FALSE
    /\ reg = << >> /\ beat = << >>
    /\ pc = [r \in Req |-> "idle"]
    /\ kind = [r \in Req |-> "relay"]
    /\ key \in [Req -> {CHOOSE k \in Key : TRUE}]
    /\ rec = [r \in Req |-> NoLabels]
    /\ got = [r \in Req |-> NoLabels]
    /\ up = << >>
    /\ raced = FALSE

LabelsNext ==
    \/ \E r \in Req : Timeout(r) \/ ReadRow(r) \/ WriteRow(r) \/ NodeAnswers(r)
    \/ \E r \in Req, kd \in Kind, k \in Key : Begin(r, kd, k)
    \/ HandleAck
    \/ RegisterArrives \/ RegisterWrites \/ RegisterConnects \/ Disconnect
    \/ HeartbeatReads \/ HeartbeatWrites

LabelsSpec == LabelsInit /\ [][LabelsNext]_labelVars

-----------------------------------------------------------------------------
\* The type of the state.
LabelsTypeOK ==
    /\ labels \in Labels
    /\ have \in [Key -> Version]
    /\ joins \in Join /\ online \in BOOLEAN /\ raced \in BOOLEAN
    /\ pc \in [Req -> {"idle", "waiting", "read", "write", "done", "error"}]
    /\ kind \in [Req -> Kind] /\ key \in [Req -> Key]
    /\ rec \in [Req -> Labels] /\ got \in [Req -> Labels]

\* "the next ListNodes reflects the install": an install that returned is in the
\* labels, an editor among the providers and a tool, once probed, with a
\* version.
InstallIsListed ==
    \A r \in Req : pc[r] = "done" /\ kind[r] = "install" =>
        IF key[r] \in Editor THEN key[r] \in labels.providers
        ELSE got[r].ver[key[r]] # 0 => labels.ver[key[r]] # 0

\* "Server-added bookkeeping ... must not be lost by the refresh": the labels
\* hold the address of the latest registration.
AddressIsKept == labels.addr = joins

\* Every fold keeps what the other writers stored: what an install or a
\* registration put into the labels is only ever lost to a write based on
\* labels that were overwritten in between.
LostOnlyByRace == ~raced => InstallIsListed /\ AddressIsKept
=============================================================================

-------------------------- MODULE TerminalCommands --------------------------
(***************************************************************************)
(* Agent commands in a host terminal.  A command is typed into the shell   *)
(* that browsers watch; its end is a marker in the shell's output, which   *)
(* the ActiveTerminal entry of the terminal id finds in what an attached   *)
(* browser's bridge forwards.  Entries are kept apart from the bridges of  *)
(* NodeHostTerminalRegistry and are retired when a bridge is gone.         *)
(*                                                                         *)
(* One node and one terminal id; its stream stays up (HostTerminals models *)
(* reconnects).  Bridges and entries are numbered in the order of creation.*)
(***************************************************************************)
EXTENDS Integers, FiniteSets

CONSTANTS Browser,   \* browser websockets
          Command,   \* agent commands posted to the id
          None,
          MaxTerm,   \* bound: bridges opened for the id
          MaxEntry   \* bound: ActiveTerminal entries made

ASSUME TerminalCommandsAssumption ==
    /\ None \notin Browser \cup Command
    /\ {MaxTerm, MaxEntry} \subseteq Nat

VARIABLES
    host,      \* the bridge NodeHostTerminalRegistry holds, 0 if none
    life,      \* each bridge: not created, open or closed
    finishing, \* closed bridges whose pump has yet to end
    retiring,  \* bridges deleted or reaped, on_retired yet to be fired
    sub,       \* the browser that watches a bridge
    replay,    \* markers in a bridge's replay buffer
    active,    \* ActiveTerminalRegistry's entry, 0 if none
    esess,     \* the bridge whose session an entry types into, 0 before it is made
    dead,      \* entries closed by their retirement
    slot,      \* ActiveTerminal._collector: the command it collects for
    bpc,       \* where each browser's bridge coroutine is
    bterm,     \* the bridge it subscribed to
    agent,     \* the entry it feeds
    bq,        \* markers in its queue
    cpc,       \* where each command is
    centry,    \* the entry it runs on, 0 before
    cterm,     \* the bridge it adopts, or has been typed into
    fut,       \* _Collector.done
    result,    \* what the agent is told
    printed    \* commands whose marker the shell has printed

Term == 1 .. MaxTerm
Entry == 1 .. MaxEntry
hostVars == <<host, life, finishing, retiring, sub, replay>>
entryVars == <<active, esess, dead, slot>>
browserVars == <<bpc, bterm, agent, bq>>
cmdVars == <<cpc, centry, cterm, fut, result>>
commandVars == <<hostVars, entryVars, browserVars, cmdVars, printed>>

Outcome == {"ok", "closed", "interrupted", "timeout", "refused", "disconnected"}

(***************************************************************************)
(* Operations on entries and bridges, each one synchronous.                *)
(***************************************************************************)

\* _Collector.fail of the commands in K.
Fail(K, why) ==
    fut' = [k \in Command |-> IF k \in K /\ fut[k] = "pending" THEN why ELSE fut[k]]

\* The command an entry collects for.
Running(e) == IF e = 0 THEN {} ELSE {slot[e]} \ {None}

\* A command that waits, or is about to, for its marker.
Waits(k) == fut[k] = "pending" /\ cpc[k] \in {"notify", "waiting"}

\* A marker that ends whatever command is running.
EndedByAny(e, k) == Running(e)

\* The command an entry collects for, if marker k is its own.
EndedBy(e, k) == Running(e) \cap {k}

\* A close that forgets the command.
CloseEntryQuietly(e) == dead' = dead \cup ({e} \ {0}) /\ UNCHANGED fut

\* ActiveTerminal.close fails what the entry runs.
CloseEntry(e) == dead' = dead \cup ({e} \ {0}) /\ Fail(Running(e), "closed")

\* ActiveTerminal.cancel_command: the entry stays usable.
CancelCommand == Fail(Running(active), "interrupted")

\* ActiveTerminalRegistry.retire: the id's entry, whichever bridge it is of.
Retire == active' = 0 /\ CloseEntry(active)

\* An entry of its own for every attach.
AlwaysNew(t, e) ==
    /\ Cardinality({x \in Entry : esess[x] # 0}) + 1 = e /\ e \in Entry
    /\ active' = e
    /\ esess' = [esess EXCEPT ![e] = t]

\* ActiveTerminalRegistry.get_or_create: e is the id's entry, made if need be,
\* and types into the session of bridge t from now on.
GetOrCreate(t, e) ==
    /\ e \in Entry
    /\ e = IF active # 0 THEN active ELSE Cardinality({x \in Entry : esess[x] # 0}) + 1
    /\ active' = e
    /\ esess' = [esess EXCEPT ![e] = t]

\* PersistentTerminal.close.
Close(t) ==
    IF life[t] = "closed" THEN UNCHANGED <<life, finishing, sub>>
    ELSE /\ life' = [life EXCEPT ![t] = "closed"]
         /\ finishing' = finishing \cup {t}
         /\ sub' = [sub EXCEPT ![t] = None]

Bridged == host # 0 /\ life[host] = "open"

----------------------------------------------------------------------------
(***************************************************************************)
(* Browsers.                                                               *)
(***************************************************************************)

\* node_terminal: get_or_create and subscribe.
Attach(b) ==
    /\ bpc[b] = "idle"
    /\ \/ Bridged /\ UNCHANGED <<host, life>>
       \/ /\ ~Bridged /\ \E t \in Term : life[t] = "none"
          /\ host' = Cardinality({t \in Term : life[t] # "none"}) + 1
          /\ life' = [life EXCEPT ![host'] = "open"]
    /\ bterm' = [bterm EXCEPT ![b] = host']
    /\ sub' = [sub EXCEPT ![host'] = b]
    /\ bq' = [bq EXCEPT ![b] = replay[host']]
    /\ bpc' = [bpc EXCEPT ![b] = "greeted"]
    /\ UNCHANGED <<finishing, retiring, replay, entryVars, agent, cmdVars, printed>>

\* _bridge_persistent, after the "connected" message: the id's entry.
Bind(b) ==
    /\ bpc[b] = "greeted"
    /\ \E e \in Entry : GetOrCreate(bterm[b], e) /\ agent' = [agent EXCEPT ![b] = e]
    /\ bpc' = [bpc EXCEPT ![b] = "open"]
    /\ UNCHANGED <<hostVars, dead, slot, bterm, bq, cmdVars, printed>>

\* The message cannot be sent: the subscription stays.
GreetFails(b) ==
    /\ bpc[b] = "greeted"
    /\ bpc' = [bpc EXCEPT ![b] = "done"]
    /\ UNCHANGED <<hostVars, entryVars, bterm, agent, bq, cmdVars, printed>>

\* output() and ActiveTerminal.observe_output: a marker ends the command that
\* its entry collects for, if it is that command's.
ReadOutput(b) ==
    /\ bpc[b] \in {"open", "ending"}
    /\ \E k \in bq[b] :
          /\ bq' = [bq EXCEPT ![b] = @ \ {k}]
          /\ Fail(EndedBy(agent[b], k), "ok")
    /\ UNCHANGED <<hostVars, entryVars, bpc, bterm, agent, cpc, centry, cterm,
                   result, printed>>

\* The browser goes away, or its queue has ended.
Leave(b) ==
    /\ bpc[b] = "open"
    /\ bpc' = [bpc EXCEPT ![b] = "ending"]
    /\ UNCHANGED <<hostVars, entryVars, bterm, agent, bq, cmdVars, printed>>

\* input_frames: an explicit "close".
CloseFrame(b) ==
    /\ bpc[b] = "open"
    /\ Close(bterm[b])
    /\ bpc' = [bpc EXCEPT ![b] = "ending"]
    /\ UNCHANGED <<host, retiring, replay, entryVars, bterm, agent, bq, cmdVars, printed>>

\* The bridge's finally: the entry stays, unless the bridge is closed.
EndBridge(b) ==
    /\ bpc[b] = "ending"
    /\ IF life[bterm[b]] = "closed" THEN Retire ELSE UNCHANGED <<active, dead, fut>>
    /\ sub' = [sub EXCEPT ![bterm[b]] = IF @ = b THEN None ELSE @]
    /\ bpc' = [bpc EXCEPT ![b] = "done"]
    /\ bq' = [bq EXCEPT ![b] = {}]
    /\ UNCHANGED <<host, life, finishing, retiring, replay, esess, slot, bterm, agent,
                   cpc, centry, cterm, result, printed>>

----------------------------------------------------------------------------
(***************************************************************************)
(* The end of a bridge.                                                    *)
(***************************************************************************)

\* The pump's finally -> _remove_finished: the hook fires for the bridge that
\* the registry still holds.
Finished(t) == IF host = t THEN host' = 0 /\ Retire ELSE UNCHANGED <<host, active, dead, fut>>

PumpEnds(t) ==
    /\ t \in finishing
    /\ finishing' = finishing \ {t}
    /\ Finished(t)
    /\ UNCHANGED <<life, retiring, sub, replay, esess, slot, browserVars, cpc, centry,
                   cterm, result, printed>>

\* The pump reads a terminal_exit.
ShellExits(t) ==
    /\ life[t] = "open"
    /\ life' = [life EXCEPT ![t] = "closed"]
    /\ sub' = [sub EXCEPT ![t] = None]
    /\ Finished(t)
    /\ UNCHANGED <<finishing, retiring, replay, esess, slot, browserVars, cpc, centry,
                   cterm, result, printed>>

\* close_node_terminal: the command is told, the bridge popped and closed.
Delete ==
    /\ host # 0
    /\ CancelCommand
    /\ Close(host)
    /\ host' = 0 /\ retiring' = retiring \cup {host}
    /\ UNCHANGED <<replay, entryVars, browserVars, cpc, centry, cterm, result, printed>>

\* A reaper that looks at the browsers alone.
AbandonedUnwatched == sub[host] = None

\* has_running_work: an entry that collects keeps the reaper off the terminal.
Abandoned == sub[host] = None /\ Running(active) = {}

\* NodeHostTerminalRegistry._reap_loop.
Reap ==
    /\ host # 0 /\ (life[host] = "closed" \/ Abandoned)
    /\ Close(host)
    /\ host' = 0 /\ retiring' = retiring \cup {host}
    /\ UNCHANGED <<replay, entryVars, browserVars, cmdVars, printed>>

\* Deletion and reaper, once the pump is over: _fire_retired.
FireRetired(t) ==
    /\ t \in retiring \ finishing
    /\ retiring' = retiring \ {t}
    /\ Retire
    /\ UNCHANGED <<host, life, finishing, sub, replay, esess, slot, browserVars, cpc,
                   centry, cterm, result, printed>>

----------------------------------------------------------------------------
(***************************************************************************)
(* Commands.                                                               *)
(***************************************************************************)

\* ActiveTerminal._lock is held until the last message has been sent.
Locked(e) == \E k \in Command : centry[k] = e /\ cpc[k] \in {"notify", "waiting", "leaving"}

Answer(k, what) ==
    /\ result' = [result EXCEPT ![k] = what]
    /\ cpc' = [cpc EXCEPT ![k] = "done"]

\* run_command up to its first await: an entry runs one command at a time.
Start(k, e) ==
    IF e \in dead \/ Locked(e)
    THEN Answer(k, "refused") /\ UNCHANGED <<slot, centry, fut>>
    ELSE /\ slot' = [slot EXCEPT ![e] = k]
         /\ centry' = [centry EXCEPT ![k] = e]
         /\ fut' = [fut EXCEPT ![k] = "pending"]
         /\ cpc' = [cpc EXCEPT ![k] = "notify"]
         /\ UNCHANGED result

\* run_terminal_command on the id's entry.
Post(k) ==
    /\ cpc[k] = "idle" /\ active # 0
    /\ Start(k, active)
    /\ UNCHANGED <<hostVars, active, esess, dead, browserVars, cterm, printed>>

\* There is no entry: a live bridge is adopted, after its shell was looked up.
PostUnseen(k) ==
    /\ cpc[k] = "idle" /\ active = 0
    /\ IF Bridged
       THEN /\ cterm' = [cterm EXCEPT ![k] = host]
            /\ cpc' = [cpc EXCEPT ![k] = "adopt"]
            /\ UNCHANGED result
       ELSE Answer(k, "refused") /\ UNCHANGED cterm
    /\ UNCHANGED <<hostVars, entryVars, browserVars, centry, fut, printed>>

Adopt(k) ==
    /\ cpc[k] = "adopt"
    /\ \E e \in Entry : GetOrCreate(cterm[k], e) /\ Start(k, e)
    /\ cterm' = [cterm EXCEPT ![k] = 0]
    /\ UNCHANGED <<hostVars, dead, browserVars, printed>>

\* run_command's finally: the entry collects no more.
Ends(k, what) ==
    /\ result' = [result EXCEPT ![k] = what]
    /\ cpc' = [cpc EXCEPT ![k] = "leaving"]
    /\ slot' = [slot EXCEPT ![centry[k]] = None]

\* After the two messages the command is typed, if the session is open and the
\* node's queue has room; a command interrupted meanwhile is typed all the same.
Submit(k) ==
    /\ cpc[k] = "notify"
    /\ LET t == esess[centry[k]] IN
       \/ /\ life[t] = "open"
          /\ cterm' = [cterm EXCEPT ![k] = t]
          /\ cpc' = [cpc EXCEPT ![k] = "waiting"]
          /\ UNCHANGED <<slot, result>>
       \/ Ends(k, "disconnected") /\ UNCHANGED cterm
    /\ UNCHANGED <<hostVars, active, esess, dead, browserVars, centry, fut, printed>>

\* The collector is done: the marker came, or it was failed.
Resume(k) ==
    /\ cpc[k] = "waiting" /\ fut[k] # "pending"
    /\ Ends(k, fut[k])
    /\ UNCHANGED <<hostVars, active, esess, dead, browserVars, centry, cterm, fut, printed>>

\* wait_for gives up and cancels the future, so the grace period of _interrupt
\* ends at once; the shell gets a Ctrl-C.
Timeout(k) ==
    /\ cpc[k] = "waiting" /\ fut[k] = "pending"
    /\ fut' = [fut EXCEPT ![k] = "cancelled"]
    /\ Ends(k, "timeout")
    /\ UNCHANGED <<hostVars, active, esess, dead, browserVars, centry, cterm, printed>>

\* The last message is sent and the lock released.
Unlock(k) ==
    /\ cpc[k] = "leaving"
    /\ cpc' = [cpc EXCEPT ![k] = "done"]
    /\ UNCHANGED <<hostVars, entryVars, browserVars, centry, cterm, fut, result, printed>>

\* interrupt_node_terminal: whatever runs on the entry by then is cancelled.
Interrupt ==
    /\ active # 0 /\ Running(active) # {}
    /\ CancelCommand
    /\ UNCHANGED <<hostVars, entryVars, browserVars, cpc, centry, cterm, result, printed>>

----------------------------------------------------------------------------
\* The shell (external) prints the marker of a command typed into it; the pump
\* keeps it for replay and hands it to the browser that watches.
Prints(k) ==
    /\ cpc[k] \in {"waiting", "leaving", "done"} /\ cterm[k] # 0 /\ k \notin printed
    /\ life[cterm[k]] = "open"
    /\ printed' = printed \cup {k}
    /\ replay' = [replay EXCEPT ![cterm[k]] = @ \cup {k}]
    /\ bq' = [b \in Browser |-> IF sub[cterm[k]] = b THEN bq[b] \cup {k} ELSE bq[b]]
    /\ UNCHANGED <<host, life, finishing, retiring, sub, entryVars, bpc, bterm, agent,
                   cmdVars>>

----------------------------------------------------------------------------
CommandsInit ==
    /\ host = 0
    /\ life = [t \in Term |-> "none"]
    /\ finishing = {} /\ retiring = {}
    /\ sub = [t \in Term |-> None]
    /\ replay = [t \in Term |-> {}]
    /\ active = 0
    /\ esess = [e \in Entry |-> 0]
    /\ dead = {}
    /\ slot = [e \in Entry |-> None]
    /\ bpc = [b \in Browser |-> "idle"]
    /\ bterm = [b \in Browser |-> 0]
    /\ agent = [b \in Browser |-> 0]
    /\ bq = [b \in Browser |-> {}]
    /\ cpc = [k \in Command |-> "idle"]
    /\ centry = [k \in Command |-> 0]
    /\ cterm = [k \in Command |-> 0]
    /\ fut = [k \in Command |-> "none"]
    /\ result = [k \in Command |-> "none"]
    /\ printed = {}

BrowserStep(b) ==
    \/ Attach(b) \/ Bind(b) \/ GreetFails(b) \/ ReadOutput(b)
    \/ Leave(b) \/ CloseFrame(b) \/ EndBridge(b)

TermStep(t) == PumpEnds(t) \/ ShellExits(t) \/ FireRetired(t)

CommandStep(k) ==
    \/ Post(k) \/ PostUnseen(k) \/ Adopt(k) \/ Submit(k)
    \/ Resume(k) \/ Timeout(k) \/ Unlock(k) \/ Prints(k)

CommandsNext ==
    \/ \E b \in Browser : BrowserStep(b)
    \/ \E t \in Term : TermStep(t)
    \/ \E k \in Command : CommandStep(k)
    \/ Delete \/ Reap \/ Interrupt

CommandsSpec == CommandsInit /\ [][CommandsNext]_commandVars

----------------------------------------------------------------------------
\* The type of the state; an entry's lock has one holder at most.
CommandsTypeOK ==
    /\ host \in {0} \cup Term
    /\ life \in [Term -> {"none", "open", "closed"}]
    /\ finishing \subseteq Term /\ retiring \subseteq Term
    /\ sub \in [Term -> Browser \cup {None}]
    /\ replay \in [Term -> SUBSET Command]
    /\ active \in {0} \cup Entry
    /\ esess \in [Entry -> {0} \cup Term]
    /\ dead \subseteq Entry
    /\ slot \in [Entry -> Command \cup {None}]
    /\ bpc \in [Browser -> {"idle", "greeted", "open", "ending", "done"}]
    /\ bterm \in [Browser -> {0} \cup Term]
    /\ agent \in [Browser -> {0} \cup Entry]
    /\ bq \in [Browser -> SUBSET Command]
    /\ cpc \in [Command -> {"idle", "adopt", "notify", "waiting", "leaving", "done"}]
    /\ centry \in [Command -> {0} \cup Entry]
    /\ cterm \in [Command -> {0} \cup Term]
    /\ fut \in [Command -> {"none", "pending", "ok", "closed", "interrupted", "cancelled"}]
    /\ result \in [Command -> Outcome \cup {"none"}]
    /\ printed \subseteq Command
    /\ \A e \in Entry : Cardinality({k \in Command : centry[k] = e
                              /\ cpc[k] \in {"notify", "waiting", "leaving"}}) <= 1

\* ActiveTerminalRegistry: the entry "survives so a command started before the
\* tab closed keeps running and is still reported".  A command that waits is
\* the one the id's entry collects for: interrupts reach it and the reaper
\* sees it, however browsers come, go and adopt.
RunningIsAddressable == \A k \in Command : Waits(k) => Running(active) = {k}

\* "browser disconnect is not task cancellation": a reaper never takes a live
\* terminal away from a command that waits in it, and an operator who deletes
\* one has the command told first.
WorkIsSpared ==
    [][\A t \in retiring' \ retiring :
          life[t] = "open" => \A k \in Command : cterm[k] = t => ~Waits(k)']_commandVars

\* on_retired: a command whose shell is gone is failed "instead of waiting for
\* a marker that can no longer arrive": as long as it waits, the end of a pump, of
\* a deletion or of a browser's bridge is still to come and will fail it.
GoneIsTold ==
    \A k \in Command :
        Waits(k) /\ cpc[k] = "waiting" /\ life[cterm[k]] = "closed" =>
            \/ cterm[k] \in retiring
            \/ cterm[k] \in finishing /\ host = cterm[k]
            \/ \E b \in Browser : bpc[b] = "ending" /\ bterm[b] = cterm[k]

\* The agent is told a command succeeded only after its own marker was printed.
OkIsFinished == \A k \in Command : result[k] = "ok" => k \in printed

============================================================================

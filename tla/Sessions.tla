------------------------------ MODULE Sessions ------------------------------
(***************************************************************************)
(* The workspace's sessions and their runs (src/web.rs): admission, the    *)
(* agent's private copy, the event pump that publishes it, settlement,     *)
(* cancellation, close, the idle-time scheduler's automatic runs           *)
(* (src/web/automation.rs), readers that validate a captured snapshot      *)
(* (src/web/session_view.rs) and shutdown.  Each action is one critical    *)
(* section of WebState.core, or one step of a task between two of them.    *)
(*                                                                         *)
(* Abstracted: a session's content is a version that grows with its        *)
(* history, its status and its stream; every refusal (409, 404, a failed   *)
(* check of the settings) is a request that changes nothing; the files a   *)
(* worker reads only decide whether it has something to publish.           *)
(***************************************************************************)
EXTENDS Naturals, Sequences, FiniteSets

CONSTANTS
  Ids,            \* session ids; a uuid is never used twice
  Readers,        \* concurrent requests that work on a captured snapshot
  MaxConcurrent,  \* config.max_concurrent_sessions
  Scheduled,      \* config.automation.enabled
  EventCap,       \* bound: capacity of the run's event channel (4 in the code)
  MaxVersion,     \* bound: how far a session's history grows
  None

ASSUME NoneAssumption == None \notin Ids
ASSUME BoundsAssumption ==
  /\ MaxConcurrent \in Nat \ {0}
  /\ Scheduled \in BOOLEAN
  /\ EventCap \in Nat \ {0}
  /\ MaxVersion \in Nat

Versions == 0 .. MaxVersion
Statuses == {"idle", "running", "done", "blocked"}

Snapshot(v, st) == [kind |-> "snapshot", ver |-> v, st |-> st]
Light(k) == [kind |-> k, ver |-> 0, st |-> "idle"]
Events == [kind : {"snapshot", "delta", "tool", "notice"}, ver : Versions, st : Statuses]

NoRead == [of |-> None, update |-> FALSE, ver |-> 0, st |-> "idle", fresh |-> FALSE]

VARIABLES
  \* --- Core.sessions, Core.streams, Core.running ------------------------
  life,      \* unborn, open (in sessions), gone (removed)
  auto,      \* Session.automatic
  ver,       \* the owner copy's version ...
  status,    \* ... and status
  stream,    \* a partial answer is shown
  slot,      \* the entry in running: none, run, or closing
  \* --- the spawned task of a run ----------------------------------------
  task,      \* none, agent, drain (pump.await), settle, recover
  mine,      \* the agent's private version
  outcome,   \* what catch_unwind returned
  events,    \* the channel from the agent to the pump
  pump,      \* the pump task is alive
  \* --- requests, scheduler, shutdown -------------------------------------
  asked,     \* a run request passed the first check of stopping
  reader,    \* what each reader captured, and whether it is still the owner's Arc
  sched,     \* where the scheduler's tick stands, and the session it opened
  phase      \* up, stopping, down

coreVars == <<life, auto, ver, status, stream, slot>>
taskVars == <<task, mine, outcome, events, pump>>
vars == <<life, auto, ver, status, stream, slot, task, mine, outcome, events, pump,
          asked, reader, sched, phase>>

Resting == [at |-> "rest", id |-> None]

Init ==
  /\ life = [i \in Ids |-> "unborn"]
  /\ auto = [i \in Ids |-> FALSE]
  /\ ver = [i \in Ids |-> 0]
  /\ status = [i \in Ids |-> "idle"]
  /\ stream = [i \in Ids |-> FALSE]
  /\ slot = [i \in Ids |-> "none"]
  /\ task = [i \in Ids |-> "none"]
  /\ mine = [i \in Ids |-> 0]
  /\ outcome = [i \in Ids |-> "ok"]
  /\ events = [i \in Ids |-> <<>>]
  /\ pump = [i \in Ids |-> FALSE]
  /\ asked = [i \in Ids |-> FALSE]
  /\ reader = [r \in Readers |-> NoRead]
  /\ sched = Resting
  /\ phase = "up"

-----------------------------------------------------------------------------
(* Shared pieces.                                                          *)

Set(f, i, x) == [f EXCEPT ![i] = x]

\* Replacing an entry, or Arc::make_mut on a shared one, gives the session a
\* new identity: whoever captured the old one no longer holds the owner's Arc.
Touch(i) ==
  reader' = [r \in Readers |->
               IF reader[r].of = i THEN [reader[r] EXCEPT !.fresh = FALSE] ELSE reader[r]]

UserRuns == {i \in Ids : slot[i] # "none" /\ ~auto[i]}

\* Mutant: stopping is checked only before the lock.
AdmissibleUnchecked(i, automatic) ==
  /\ life[i] = "open"
  /\ slot[i] = "none"
  /\ auto[i] = automatic
  /\ Cardinality(UserRuns) < MaxConcurrent

\* The checks of start_run made under the core lock.
Admissible(i, automatic) ==
  /\ phase = "up"
  /\ life[i] = "open"
  /\ slot[i] = "none"
  /\ auto[i] = automatic
  /\ Cardinality(UserRuns) < MaxConcurrent

\* Mutant: the message is not checked against the history limit.
StartUnlimited(i) ==
  /\ ver' = Set(ver, i, ver[i] + 1)
  /\ mine' = Set(mine, i, ver[i] + 1)
  /\ status' = Set(status, i, "running")
  /\ slot' = Set(slot, i, "run")
  /\ task' = Set(task, i, "agent")
  /\ outcome' = Set(outcome, i, "ok")
  /\ pump' = Set(pump, i, TRUE)
  /\ Touch(i)
  /\ UNCHANGED <<life, auto, stream, events, phase>>

\* A message adds to the history; resume and cleanup need not.
Start(i) ==
  /\ \E v \in {ver[i], ver[i] + 1} \cap Versions :
       /\ ver' = Set(ver, i, v)
       /\ mine' = Set(mine, i, v)
  /\ status' = Set(status, i, "running")
  /\ slot' = Set(slot, i, "run")
  /\ task' = Set(task, i, "agent")
  /\ outcome' = Set(outcome, i, "ok")
  /\ pump' = Set(pump, i, TRUE)
  /\ Touch(i)
  /\ UNCHANGED <<life, auto, stream, events, phase>>

\* remove_session.
Remove(i) ==
  /\ life' = Set(life, i, "gone")
  /\ stream' = Set(stream, i, FALSE)

-----------------------------------------------------------------------------
(* Requests of the user.                                                   *)

Create(i) ==
  /\ life[i] = "unborn"
  /\ phase # "down"
  /\ life' = Set(life, i, "open")
  /\ UNCHANGED <<auto, ver, status, stream, slot, taskVars, asked, reader, sched, phase>>

\* The check of stopping before the lock is waited for.
Ask(i) ==
  /\ phase = "up"
  /\ life[i] = "open"
  /\ ~asked[i]
  /\ asked' = Set(asked, i, TRUE)
  /\ UNCHANGED <<coreVars, taskVars, reader, sched, phase>>

Admit(i) ==
  /\ asked[i]
  /\ Admissible(i, FALSE)
  /\ Start(i)
  /\ asked' = Set(asked, i, FALSE)
  /\ UNCHANGED sched

Refuse(i) ==
  /\ asked[i]
  /\ asked' = Set(asked, i, FALSE)
  /\ UNCHANGED <<coreVars, taskVars, reader, sched, phase>>

\* Deleting a running session only marks it and cancels its run; settlement
\* removes it.
Close(i) ==
  /\ life[i] = "open"
  /\ IF slot[i] # "none"
     THEN /\ slot' = Set(slot, i, "closing")
          /\ stream' = Set(stream, i, FALSE)
          /\ UNCHANGED <<life, reader>>
     ELSE /\ Remove(i)
          /\ Touch(i)
          /\ UNCHANGED slot
  /\ UNCHANGED <<auto, ver, status, taskVars, asked, sched, phase>>

-----------------------------------------------------------------------------
(* The agent, on its private copy.  With the run cancelled or past its     *)
(* deadline it only tries to send, so an event may be lost.                *)

Emit(i, event) ==
  \/ /\ pump[i] /\ Len(events[i]) < EventCap
     /\ events' = Set(events, i, Append(events[i], event))
  \/ UNCHANGED events

AgentAdvance(i) ==
  /\ task[i] = "agent"
  /\ mine[i] < MaxVersion
  /\ mine' = Set(mine, i, mine[i] + 1)
  /\ Emit(i, Snapshot(mine[i] + 1, "running"))
  /\ UNCHANGED <<coreVars, task, outcome, pump, asked, reader, sched, phase>>

AgentTalks(i) ==
  /\ task[i] = "agent"
  /\ \E k \in {"delta", "tool", "notice"} : Emit(i, Light(k))
  /\ UNCHANGED <<coreVars, task, mine, outcome, pump, asked, reader, sched, phase>>

\* The run returns: done, partial, cancelled or blocked, never "running".
AgentFinish(i) ==
  /\ task[i] = "agent"
  /\ task' = Set(task, i, "drain")
  /\ Emit(i, Snapshot(mine[i], "done"))
  /\ UNCHANGED <<coreVars, mine, outcome, pump, asked, reader, sched, phase>>

\* Mutant: the run is not caught when it unwinds.
AgentPanicUncaught(i) ==
  /\ task[i] = "agent"
  /\ task' = Set(task, i, "none")
  /\ UNCHANGED <<coreVars, mine, outcome, events, pump, asked, reader, sched, phase>>

AgentPanic(i) ==
  /\ task[i] = "agent"
  /\ task' = Set(task, i, "drain")
  /\ outcome' = Set(outcome, i, "panic")
  /\ UNCHANGED <<coreVars, mine, events, pump, asked, reader, sched, phase>>

-----------------------------------------------------------------------------
(* The event pump.                                                         *)

\* publish_snapshot: an advanced history also ends the stream.
Publish(i, event) ==
  IF slot[i] = "run"
  THEN /\ stream' = Set(stream, i, stream[i] /\ event.ver = ver[i])
       /\ life' = Set(life, i, "open")
       /\ ver' = Set(ver, i, event.ver)
       /\ status' = Set(status, i, event.st)
       /\ Touch(i)
  ELSE /\ stream' = Set(stream, i, FALSE)
       /\ UNCHANGED <<life, ver, status, reader>>

Pump(i) ==
  /\ pump[i]
  /\ events[i] # <<>>
  /\ events' = Set(events, i, Tail(events[i]))
  /\ LET event == Head(events[i]) IN
     \/ event.kind = "snapshot" /\ Publish(i, event)
     \/ /\ event.kind = "delta"
        /\ stream' = Set(stream, i, stream[i] \/ slot[i] = "run")
        /\ UNCHANGED <<life, ver, status, reader>>
     \/ /\ event.kind = "tool"
        /\ stream' = Set(stream, i, FALSE)
        /\ UNCHANGED <<life, ver, status, reader>>
     \/ /\ event.kind = "notice"
        /\ IF slot[i] = "run" THEN Touch(i) ELSE UNCHANGED reader
        /\ UNCHANGED <<life, ver, status, stream>>
  /\ UNCHANGED <<auto, slot, task, mine, outcome, pump, asked, sched, phase>>

\* A panic in the pump drops the receiver: the agent goes on unheard.
PumpPanic(i) ==
  /\ pump[i]
  /\ pump' = Set(pump, i, FALSE)
  /\ events' = Set(events, i, <<>>)
  /\ UNCHANGED <<coreVars, task, mine, outcome, asked, reader, sched, phase>>

-----------------------------------------------------------------------------
(* Settlement.                                                             *)

\* pump.await: every queued snapshot is published before the final one.
Drained(i) ==
  /\ task[i] = "drain"
  /\ events[i] = <<>>
  /\ task' = Set(task, i, "settle")
  /\ pump' = Set(pump, i, FALSE)
  /\ UNCHANGED <<coreVars, mine, outcome, events, asked, reader, sched, phase>>

FreeSlot(i) ==
  /\ slot' = Set(slot, i, "none")
  /\ task' = Set(task, i, "none")
  /\ mine' = Set(mine, i, 0)
  /\ outcome' = Set(outcome, i, "ok")
  /\ Touch(i)
  /\ UNCHANGED <<auto, events, pump, asked, sched, phase>>

\* A closed session goes; an automatic one keeps its final state until its
\* run is logged, and goes in the same critical section.
Settle(i) ==
  /\ task[i] = "settle"
  /\ FreeSlot(i)
  /\ IF slot[i] = "closing" \/ auto[i]
     THEN /\ Remove(i)
          /\ UNCHANGED <<ver, status>>
     ELSE /\ stream' = Set(stream, i, FALSE)
          /\ life' = Set(life, i, "open")
          /\ IF outcome[i] = "ok"
             THEN ver' = Set(ver, i, mine[i]) /\ status' = Set(status, i, "done")
             ELSE status' = Set(status, i, "blocked") /\ UNCHANGED ver

\* A panic in the settlement, before or after the final state was stored.
SettlePanic(i) ==
  /\ task[i] = "settle"
  /\ task' = Set(task, i, "recover")
  /\ \/ UNCHANGED <<ver, status, stream, reader>>
     \/ /\ outcome[i] = "ok" /\ slot[i] = "run"
        /\ ver' = Set(ver, i, mine[i])
        /\ status' = Set(status, i, "done")
        /\ stream' = Set(stream, i, FALSE)
        /\ Touch(i)
  /\ UNCHANGED <<life, auto, slot, mine, outcome, events, pump, asked, sched, phase>>

\* Mutant: the slot goes, the status stays.
RecoverSilently(i) ==
  /\ task[i] = "recover"
  /\ FreeSlot(i)
  /\ stream' = Set(stream, i, FALSE)
  /\ UNCHANGED <<life, ver, status>>

Recover(i) ==
  /\ task[i] = "recover"
  /\ FreeSlot(i)
  /\ IF slot[i] = "closing" \/ auto[i]
     THEN /\ Remove(i)
          /\ UNCHANGED <<ver, status>>
     ELSE /\ stream' = Set(stream, i, FALSE)
          /\ status' = Set(status, i, "blocked")
          /\ UNCHANGED <<life, ver>>

-----------------------------------------------------------------------------
(* session_view::read and session_project: capture, work outside the lock, *)
(* publish only over the captured Arc.                                     *)

Capture(r, i, update) ==
  /\ reader[r] = NoRead
  /\ life[i] = "open"
  /\ update => slot[i] = "none"
  /\ reader' = [reader EXCEPT ![r] = [of |-> i, update |-> update, ver |-> ver[i],
                                      st |-> status[i], fresh |-> TRUE]]
  /\ UNCHANGED <<coreVars, taskVars, asked, sched, phase>>

\* The worker found nothing to change, failed, timed out, or lost the race.
Discard(r) ==
  /\ reader[r] # NoRead
  /\ reader' = [reader EXCEPT ![r] = NoRead]
  /\ UNCHANGED <<coreVars, taskVars, asked, sched, phase>>

\* Mutant: the captured state is stored over whatever is there now.
ReplaceAnyway(r) ==
  LET c == reader[r] IN
  /\ c # NoRead
  /\ ver' = Set(ver, c.of, c.ver)
  /\ status' = Set(status, c.of, c.st)
  /\ life' = Set(life, c.of, "open")
  /\ reader' = [reader EXCEPT ![r] = NoRead]
  /\ UNCHANGED <<auto, stream, slot, taskVars, asked, sched, phase>>

Replace(r) ==
  LET c == reader[r] IN
  /\ c # NoRead
  /\ c.fresh
  /\ life[c.of] = "open"
  /\ c.update => slot[c.of] = "none"
  /\ ver' = Set(ver, c.of, c.ver)
  /\ status' = Set(status, c.of, c.st)
  /\ life' = Set(life, c.of, "open")
  /\ reader' = [q \in Readers |->
                  IF q = r THEN NoRead
                  ELSE IF reader[q].of = c.of THEN [reader[q] EXCEPT !.fresh = FALSE]
                  ELSE reader[q]]
  /\ UNCHANGED <<auto, stream, slot, taskVars, asked, sched, phase>>

-----------------------------------------------------------------------------
(* The idle-time scheduler (tick and start).                               *)

\* The recheck under the lock, after the files decided on a project.
Decide ==
  /\ Scheduled
  /\ phase = "up"
  /\ sched.at = "rest"
  /\ \A i \in Ids : slot[i] = "none"
  /\ sched' = [at |-> "persist", id |-> None]
  /\ UNCHANGED <<coreVars, taskVars, asked, reader, phase>>

\* The attempt is recorded first; stopping wins over a stuck folder.
Persisted ==
  /\ sched.at = "persist"
  /\ sched' = [at |-> "open", id |-> None]
  /\ UNCHANGED <<coreVars, taskVars, asked, reader, phase>>

Abandon ==
  /\ sched.at \in {"persist", "open"}
  /\ sched' = Resting
  /\ UNCHANGED <<coreVars, taskVars, asked, reader, phase>>

Open(i) ==
  /\ sched.at = "open"
  /\ life[i] = "unborn"
  /\ life' = Set(life, i, "open")
  /\ auto' = Set(auto, i, TRUE)
  /\ sched' = [at |-> "start", id |-> i]
  /\ UNCHANGED <<ver, status, stream, slot, taskVars, asked, reader, phase>>

StartAutomatic ==
  LET i == sched.id IN
  /\ sched.at = "start"
  /\ Admissible(i, TRUE)
  /\ Start(i)
  /\ sched' = Resting
  /\ UNCHANGED asked

\* Mutant: the session opened for a refused start stays.
StartRefusedKeepsSession ==
  /\ sched.at = "start"
  /\ sched' = Resting
  /\ UNCHANGED <<coreVars, taskVars, asked, reader, phase>>

\* Whatever start_run refuses for, its session goes again.
StartRefused ==
  LET i == sched.id IN
  /\ sched.at = "start"
  /\ Remove(i)
  /\ Touch(i)
  /\ sched' = Resting
  /\ UNCHANGED <<auto, ver, status, slot, taskVars, asked, phase>>

-----------------------------------------------------------------------------
(* Shutdown: stopping is the parent of every run's token.                  *)

Stop ==
  /\ phase = "up"
  /\ phase' = "stopping"
  /\ UNCHANGED <<coreVars, taskVars, asked, reader, sched>>

Stopped ==
  /\ phase = "stopping"
  /\ \A i \in Ids : slot[i] = "none"
  /\ phase' = "down"
  /\ UNCHANGED <<coreVars, taskVars, asked, reader, sched>>

-----------------------------------------------------------------------------
User(i) == Create(i) \/ Ask(i) \/ Admit(i) \/ Refuse(i) \/ Close(i)
Agent(i) == AgentAdvance(i) \/ AgentTalks(i) \/ AgentFinish(i) \/ AgentPanic(i)
Task(i) == Pump(i) \/ PumpPanic(i) \/ Drained(i) \/ Settle(i) \/ SettlePanic(i) \/ Recover(i)
Reading(r) ==
  (\E i \in Ids, update \in BOOLEAN : Capture(r, i, update)) \/ Discard(r) \/ Replace(r)
Scheduler ==
  Decide \/ Persisted \/ Abandon \/ (\E i \in Ids : Open(i)) \/ StartAutomatic \/ StartRefused

Next ==
  \/ \E i \in Ids : User(i) \/ Agent(i) \/ Task(i)
  \/ \E r \in Readers : Reading(r)
  \/ Scheduler \/ Stop \/ Stopped

Spec == Init /\ [][Next]_vars

\* Every run ends: run_timeout_secs bounds it and cancellation is observed at
\* every await.  The tasks of the runtime and the shutdown loop make progress.
Fairness ==
  /\ \A i \in Ids : WF_vars(AgentFinish(i) \/ AgentPanic(i))
  /\ \A i \in Ids : WF_vars(Task(i))
  /\ WF_vars(Stopped)

FairSpec == Spec /\ Fairness

-----------------------------------------------------------------------------
(* Properties.                                                             *)

TypeOK ==
  /\ life \in [Ids -> {"unborn", "open", "gone"}]
  /\ auto \in [Ids -> BOOLEAN]
  /\ ver \in [Ids -> Versions]
  /\ status \in [Ids -> Statuses]
  /\ stream \in [Ids -> BOOLEAN]
  /\ slot \in [Ids -> {"none", "run", "closing"}]
  /\ task \in [Ids -> {"none", "agent", "drain", "settle", "recover"}]
  /\ mine \in [Ids -> Versions]
  /\ outcome \in [Ids -> {"ok", "panic"}]
  /\ events \in [Ids -> Seq(Events)]
  /\ pump \in [Ids -> BOOLEAN]
  /\ asked \in [Ids -> BOOLEAN]
  /\ reader \in [Readers -> [of : Ids \union {None}, update : BOOLEAN, ver : Versions,
                             st : Statuses, fresh : BOOLEAN]]
  /\ sched \in [at : {"rest", "persist", "open", "start"}, id : Ids \union {None}]
  /\ phase \in {"up", "stopping", "down"}

\* No late snapshot, reader or settlement brings a removed session back.
ClosedNeverReturns ==
  [][\A i \in Ids : life[i] = "gone" => life'[i] = "gone"]_vars

\* A session nobody runs never shows "running": not after a panic of the
\* agent, of the pump or of the settlement, nor through a stale reader.
NoGhostRunning ==
  \A i \in Ids : life[i] = "open" /\ slot[i] = "none" => status[i] # "running"

\* The owner copy of a session never goes back to an older history.
NewestStateKept ==
  [][\A i \in Ids : life[i] = "open" /\ life'[i] = "open" => ver'[i] >= ver[i]]_vars

\* Once shutdown returned, no run is or ever gets admitted.
DownIsQuiet == phase = "down" => \A i \in Ids : slot[i] = "none" /\ task[i] = "none"

\* An automatic session exists only for its run.
NoStrayAutomatic ==
  \A i \in Ids : life[i] = "open" /\ auto[i] /\ slot[i] = "none" =>
                   sched = [at |-> "start", id |-> i]

\* Every admitted run gives its slot back, whatever panics.
SlotReleased == \A i \in Ids : slot[i] # "none" ~> slot[i] = "none"

\* src/web.rs, start_run: "An automatic run starts only when nothing runs".
AutomaticRunsAlone ==
  [][\A i \in Ids : auto[i] /\ slot[i] = "none" /\ slot'[i] # "none" =>
       \A j \in Ids : slot[j] = "none"]_vars
=============================================================================

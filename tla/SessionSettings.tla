-------------------------- MODULE SessionSettings --------------------------
(***************************************************************************)
(* The settings of one session (src/web.rs, session_settings,              *)
(* publish_snapshot and the settlement in start_run; src/agent.rs,         *)
(* consume_commands, apply_pending_config, apply_config).  Requests to     *)
(* change them pass the settings gate one at a time, wait for a file       *)
(* worker outside the core lock, and reach a run through its command       *)
(* channel; the run applies them when the next request to the model fits.  *)
(* The tools of a session (SessionTools) travel the same way.              *)
(***************************************************************************)
EXTENDS Integers, Sequences

CONSTANTS Requests,     \* requests to change the settings; each asks for its own
          Initial,      \* the settings at first
          Panics,       \* bound: whether a run may panic
          MaxRuns,      \* bound
          CommandCap,   \* bound: capacity of the command channel (16 in the code)
          EventCap,     \* bound: capacity of the event channel (4 in the code)
          None

VARIABLES
  req,                  \* the requests: new, prepare, over
  base,                 \* the settings a request was prepared on
  gate,                 \* the holder of settings_gate
  at, hurried, runs,    \* the run; cancelled or past its deadline; how many began
  survived,             \* the agent returned its session
  owner, agent,         \* the workspace's copy and the run's: in force, and waiting
  commands, events,     \* RunCommand::Configure not consumed; snapshots not published
  accepted              \* history: the settings saved, in order

vars == <<req, base, gate, at, hurried, runs, survived, owner, agent, commands, events, accepted>>
request == <<req, base, gate>>
run == <<at, hurried, runs, survived, agent, commands, events>>

Settings == Requests \cup {Initial}
Copy(config, pending) == [config |-> config, pending |-> pending]
Wanted(copy) == IF copy.pending = None THEN copy.config ELSE copy.pending
Running == at \notin {"idle", "ended"}

Init ==
  /\ req = [r \in Requests |-> "new"] /\ base = [r \in Requests |-> None] /\ gate = None
  /\ at = "idle" /\ hurried = FALSE /\ runs = 0 /\ survived = TRUE
  /\ owner = Copy(Initial, None) /\ agent = Copy(Initial, None)
  /\ commands = <<>> /\ events = <<>> /\ accepted = <<Initial>>

---------------------------------------------------------------------------
\* session_settings.

\* Behind the gate the latest choice is copied, then the lock is given back.
Ask(r) ==
  /\ req[r] = "new" /\ gate = None /\ gate' = r
  /\ req' = [req EXCEPT ![r] = "prepare"] /\ base' = [base EXCEPT ![r] = Wanted(owner)]
  /\ UNCHANGED <<run, owner, accepted>>

\* Refused settings, a timeout, a client that left: the gate opens.
Answered(r) == req' = [req EXCEPT ![r] = "over"] /\ gate' = None /\ UNCHANGED base
GiveUp(r) ==
  /\ req[r] = "prepare" /\ Answered(r)
  /\ UNCHANGED <<run, owner, accepted>>

SameAsBefore(r) == Wanted(owner) = base[r]
Saved(r) == accepted' = Append(accepted, r)

\* Without a run they are in force at once, or wait for what makes them fit.
SaveAtRest(r) ==
  /\ req[r] = "prepare" /\ SameAsBefore(r) /\ at = "idle" /\ Answered(r) /\ Saved(r)
  /\ owner' \in {Copy(r, None), Copy(owner.config, r)}
  /\ UNCHANGED run

SaveInRun(r) ==
  /\ req[r] = "prepare" /\ SameAsBefore(r) /\ Running /\ Len(commands) < CommandCap
  /\ commands' = Append(commands, r) /\ owner' = [owner EXCEPT !.pending = r]
  /\ Answered(r) /\ Saved(r)
  /\ UNCHANGED <<at, hurried, runs, survived, agent, events>>

\* 409: the choice changed, the channel is full, or its agent has returned.
Busy(r) ==
  /\ req[r] = "prepare" /\ Answered(r)
  /\ ~SameAsBefore(r) \/ at = "ended" \/ (Running /\ Len(commands) = CommandCap)
  /\ UNCHANGED <<run, owner, accepted>>

---------------------------------------------------------------------------
\* The run.

StartRun ==
  /\ at = "idle" /\ runs < MaxRuns /\ runs' = runs + 1
  /\ at' = "announce" /\ hurried' = FALSE /\ agent' = owner
  /\ UNCHANGED <<request, survived, owner, commands, events, accepted>>

Hurry ==
  /\ Running /\ ~hurried /\ hurried' = TRUE
  /\ UNCHANGED <<request, at, runs, survived, owner, agent, commands, events, accepted>>

\* snapshot: wait for a place in the queue; a hurried run only tries.
Announce ==
  /\ at = "announce" /\ at' = "boundary"
  /\ \/ Len(events) < EventCap /\ events' = Append(events, agent)
     \/ hurried /\ Len(events) = EventCap /\ UNCHANGED events
  /\ UNCHANGED <<request, hurried, runs, survived, owner, agent, commands, accepted>>

\* consume_commands: the last command stands.
Consume(copy) == [copy EXCEPT !.pending = commands[Len(commands)]]

ConsumeCommands ==
  /\ at = "boundary" /\ at' = "apply" /\ commands' = <<>>
  /\ agent' = IF commands = <<>> THEN agent ELSE Consume(agent)
  /\ UNCHANGED <<request, hurried, runs, survived, owner, events, accepted>>

\* apply_pending_config: in force when the next request fits, or kept waiting; a
\* follow-up question then ends.
ApplyPending ==
  /\ at = "apply"
  /\ \/ agent' = Copy(Wanted(agent), None) /\ at' = "model"
     \/ agent.pending # None /\ UNCHANGED agent /\ at' \in {"model", "last"}
  /\ UNCHANGED <<request, hurried, runs, survived, owner, commands, events, accepted>>

\* The response and its tools, then a snapshot; or the run's end.
Respond ==
  /\ at = "model" /\ at' \in {"announce", "last"} /\ (hurried => at' = "last")
  /\ UNCHANGED <<request, hurried, runs, survived, owner, agent, commands, events, accepted>>

\* The agent returns; its receiver goes with what is still queued.
AgentEnds ==
  /\ at = "last" /\ at' = "ended" /\ commands' = <<>>
  /\ Len(events) = EventCap => hurried
  /\ events' = IF Len(events) < EventCap THEN Append(events, agent) ELSE events
  /\ UNCHANGED <<request, hurried, runs, survived, owner, agent, accepted>>

AgentPanics ==
  /\ Panics /\ Running /\ at' = "ended" /\ survived' = FALSE /\ commands' = <<>>
  /\ UNCHANGED <<request, hurried, runs, owner, agent, events, accepted>>

---------------------------------------------------------------------------
\* The owner's side.

\* publish_snapshot and the settlement keep a choice the copy does not show in force;
\* one that it shows needs no more waiting.
Merged(copy) ==
  IF owner.pending = None THEN copy
  ELSE Copy(copy.config, IF owner.pending = copy.config THEN None ELSE owner.pending)

Publish ==
  /\ events # <<>> /\ owner' = Merged(Head(events)) /\ events' = Tail(events)
  /\ UNCHANGED <<request, at, hurried, runs, survived, agent, commands, accepted>>

\* Mutant: the agent's final copy replaces the owner's as it is.
SettledPlainly(copy) == copy

Settled(copy) == Merged(copy)

\* After a panic the owner's copy is what was last published.
Settle ==
  /\ at = "ended" /\ events = <<>> /\ at' = "idle" /\ survived' = TRUE /\ hurried' = FALSE
  /\ owner' = IF survived THEN Settled(agent) ELSE owner
  /\ UNCHANGED <<request, runs, agent, commands, events, accepted>>

Next ==
  \/ \E r \in Requests : Ask(r) \/ GiveUp(r) \/ SaveAtRest(r) \/ SaveInRun(r) \/ Busy(r)
  \/ StartRun \/ Hurry \/ Announce \/ ConsumeCommands \/ ApplyPending \/ Respond
  \/ AgentEnds \/ AgentPanics \/ Publish \/ Settle

Spec == Init /\ [][Next]_vars

---------------------------------------------------------------------------
Copies == [config : Settings, pending : Settings \cup {None}]

TypeOK ==
  /\ req \in [Requests -> {"new", "prepare", "over"}]
  /\ base \in [Requests -> Settings \cup {None}] /\ gate \in Requests \cup {None}
  /\ at \in {"idle", "announce", "boundary", "apply", "model", "last", "ended"}
  /\ hurried \in BOOLEAN /\ survived \in BOOLEAN /\ runs \in 0 .. MaxRuns
  /\ owner \in Copies /\ agent \in Copies
  /\ commands \in Seq(Requests) /\ events \in Seq(Copies) /\ accepted \in Seq(Settings)

Rank(config) == CHOOSE n \in DOMAIN accepted : accepted[n] = config

\* The settings saved last are the owner's choice at every moment, whatever stale
\* snapshot arrives and however the run ends; and a run never returns to settings older
\* than those it has applied.
SettingsKept ==
  /\ [](Wanted(owner) = accepted[Len(accepted)])
  /\ [][at # "idle" => Rank(agent.config) <= Rank(agent'.config)]_vars
=============================================================================

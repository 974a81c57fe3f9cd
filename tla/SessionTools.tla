---------------------------- MODULE SessionTools ----------------------------
(***************************************************************************)
(* The optional tools of one session.  The workspace owns the session the  *)
(* user sees; a run works on a private copy and hears of the user's later  *)
(* choices through a command channel, while its own state comes back as    *)
(* queued snapshots (src/web.rs, session_tools, publish_snapshot and the   *)
(* settlement in start_run; src/agent.rs, consume_commands and the batch   *)
(* loop; src/tools.rs, tool_select).  Both sides keep a selection in force *)
(* (active_tools) and one that still waits (pending_tools).                *)
(*                                                                         *)
(* Abstracted: which tools exist beyond their names, and everything else   *)
(* a snapshot carries (see Sessions).                                      *)
(***************************************************************************)
EXTENDS Naturals, Sequences

CONSTANTS
  Tools,        \* optional tool names
  Required,     \* workflow_required_tools: fixed by the session's workflow
  Forbidden,    \* workflow_forbidden_tools: none of them is required
  Repeats,      \* bound: whether a selection made before may be made again
  Panics,       \* bound: whether a run may panic
  BatchSelects, \* bound: tool_select calls in one response
  CommandCap,   \* bound: capacity of the command channel (16 in the code)
  EventCap,     \* bound: capacity of the event channel (4 in the code)
  None

\* validate_tool_selection, and the repair made where a selection is applied.
Valid == {names \in SUBSET Tools : Required \subseteq names /\ names \cap Forbidden = {}}

\* Mutant: the two lists are swapped.
NormalizeSwapped(names) == (names \union Forbidden) \ Required

Normalize(names) == (names \union Required) \ Forbidden

Copy(active, pending) == [active |-> active, pending |-> pending]

VARIABLES
  at,        \* where the run stands; "idle" without one, "ended" before settlement
  hurried,   \* the run is cancelled or past its deadline
  survived,  \* the agent returned its session
  owner,     \* the workspace's copy
  agent,     \* the run's copy
  selects,   \* tool_select calls of the response being executed
  commands,  \* RunCommand::Tools, sent and not consumed
  events,    \* snapshots, sent and not published
  latest,    \* history: the user's latest choice, until the model's replaces it
  said,      \* history: nothing said during the run, unheard, or heard by it
  seen       \* history: selections made so far

vars == <<at, hurried, survived, owner, agent, selects, commands, events, latest, said, seen>>

Stages == {"boundary", "announce", "model", "group", "call", "wrapup", "settled", "last"}
Running == at \in Stages

Init ==
  \E names \in Valid :
    /\ at = "idle"
    /\ hurried = FALSE
    /\ survived = TRUE
    /\ owner = Copy(names, None)
    /\ agent = Copy(names, None)
    /\ selects = 0
    /\ commands = <<>>
    /\ events = <<>>
    /\ latest = names
    /\ said = "nothing"
    /\ seen = {names}

Selectable == IF Repeats THEN Valid ELSE Valid \ seen

-----------------------------------------------------------------------------
(* The user.                                                               *)

\* Without a run the choice is in force at once.
SelectAtRest(names) ==
  /\ at = "idle"
  /\ names \in Selectable
  /\ owner' = Copy(names, None)
  /\ latest' = names
  /\ seen' = seen \union {names}
  /\ UNCHANGED <<at, hurried, survived, agent, selects, commands, events, said>>

\* During one it is sent to the agent, and kept beside the owner's copy: a
\* full channel, or an agent that has returned, refuses it with 409.
SelectWhileRunning(names) ==
  /\ Running
  /\ names \in Selectable
  /\ Len(commands) < CommandCap
  /\ commands' = Append(commands, names)
  /\ owner' = [owner EXCEPT !.pending = names]
  /\ latest' = names
  /\ said' = "unheard"
  /\ seen' = seen \union {names}
  /\ UNCHANGED <<at, hurried, survived, agent, selects, events>>

-----------------------------------------------------------------------------
(* The run.                                                                *)

StartRun ==
  /\ at = "idle"
  /\ at' = "boundary"
  /\ hurried' = FALSE
  /\ agent' = owner
  /\ UNCHANGED <<survived, owner, selects, commands, events, latest, said, seen>>

\* The user's stop, or run_timeout_secs.
Hurry ==
  /\ Running
  /\ ~hurried
  /\ hurried' = TRUE
  /\ UNCHANGED <<at, survived, owner, agent, selects, commands, events, latest, said, seen>>

\* snapshot: wait for a place in the queue, or only try once hurried.
Snapshot(next) ==
  /\ \/ /\ Len(events) < EventCap
        /\ events' = Append(events, agent)
     \/ /\ hurried /\ Len(events) = EventCap
        /\ UNCHANGED events
  /\ at' = next
  /\ UNCHANGED <<hurried, survived, owner, agent, selects, commands, latest, said, seen>>

\* The request boundary: drain the channel; the last command stands and
\* supersedes a selection of the model's that still waited.
ConsumeCommands ==
  /\ at = "boundary"
  /\ at' = "announce"
  /\ agent' = IF commands = <<>> THEN agent ELSE Copy(Normalize(commands[Len(commands)]), None)
  /\ commands' = <<>>
  /\ said' = IF said = "unheard" THEN "heard" ELSE said
  /\ UNCHANGED <<hurried, survived, owner, selects, events, latest, seen>>

Announce == at = "announce" /\ Snapshot("model")

\* A response with tool calls; a hurried run's request is not answered.
Respond ==
  /\ at = "model"
  /\ ~hurried
  /\ at' = "group"
  /\ selects' = 0
  /\ UNCHANGED <<hurried, survived, owner, agent, commands, events, latest, said, seen>>

\* Every group of calls is announced before it runs.
NextGroup == at = "group" /\ Snapshot("call")

\* The groups that do not select tools leave the selection alone.
OtherTools ==
  /\ at = "call"
  /\ at' \in {"group", "wrapup"}
  /\ UNCHANGED <<hurried, survived, owner, agent, selects, commands, events, latest, said, seen>>

ToolSelect(names) ==
  /\ at = "call"
  /\ ~hurried
  /\ selects < BatchSelects
  /\ names \in Selectable
  /\ at' \in {"group", "wrapup"}
  /\ selects' = selects + 1
  /\ agent' = [agent EXCEPT !.pending = names]
  /\ latest' = IF said = "unheard" THEN latest ELSE None
  /\ seen' = seen \union {names}
  /\ UNCHANGED <<hurried, survived, owner, commands, events, said>>

\* The waiting selection is taken with the results of the whole response; a
\* cancelled run, or one whose batch showed a limit, ends here.
EndBatch ==
  /\ at = "wrapup"
  /\ IF agent.pending # None
     THEN agent' = Copy(agent.pending, None)
     ELSE UNCHANGED agent
  /\ at' \in IF hurried THEN {"last"} ELSE {"settled", "last"}
  /\ UNCHANGED <<hurried, survived, owner, selects, commands, events, latest, said, seen>>

BatchShown == at = "settled" /\ Snapshot("boundary")

\* A final answer, a limit, a failure, cancellation or the deadline.
LeaveLoop ==
  /\ at \in {"boundary", "model"}
  /\ at' = "last"
  /\ UNCHANGED <<hurried, survived, owner, agent, selects, commands, events, latest, said, seen>>

\* The agent returns; its command receiver goes with what is still queued.
AgentEnds ==
  /\ at = "last"
  /\ at' = "ended"
  /\ events' = IF Len(events) < EventCap THEN Append(events, agent) ELSE events
  /\ Len(events) = EventCap => hurried
  /\ commands' = <<>>
  /\ UNCHANGED <<hurried, survived, owner, agent, selects, latest, said, seen>>

AgentPanics ==
  /\ Panics
  /\ Running
  /\ at' = "ended"
  /\ survived' = FALSE
  /\ commands' = <<>>
  /\ UNCHANGED <<hurried, owner, agent, selects, events, latest, said, seen>>

-----------------------------------------------------------------------------
(* The owner's side of a run.                                              *)

\* publish_snapshot keeps a choice the private copy does not show yet.
Merged(copy) ==
  IF owner.pending = None THEN copy
  ELSE LET names == Normalize(owner.pending) IN
       Copy(names, IF copy.active = names THEN None ELSE names)

Publish ==
  /\ events # <<>>
  /\ owner' = Merged(Head(events))
  /\ events' = Tail(events)
  /\ UNCHANGED <<at, hurried, survived, agent, selects, commands, latest, said, seen>>

\* Mutant: the agent's final copy replaces the owner's as it is.
SettledPlainly(copy) == copy

\* The settlement puts a choice the agent never consumed in force.
Settled(copy) ==
  IF owner.pending = None THEN copy ELSE Copy(Normalize(owner.pending), None)

\* After a panic the last published snapshot stays; what the agent did after
\* it is gone, an accepted choice of the user's is not.
Settle ==
  /\ at = "ended"
  /\ events = <<>>
  /\ at' = "idle"
  /\ owner' = IF survived THEN Settled(agent) ELSE owner
  /\ survived' = TRUE
  /\ said' = "nothing"
  /\ hurried' = FALSE
  /\ UNCHANGED <<agent, selects, commands, events, latest, seen>>

-----------------------------------------------------------------------------
Next ==
  \/ \E names \in Valid : SelectAtRest(names) \/ SelectWhileRunning(names) \/ ToolSelect(names)
  \/ StartRun \/ Hurry \/ ConsumeCommands \/ Announce \/ Respond \/ NextGroup \/ OtherTools
  \/ EndBatch \/ BatchShown \/ LeaveLoop \/ AgentEnds \/ AgentPanics \/ Publish \/ Settle

Spec == Init /\ [][Next]_vars

-----------------------------------------------------------------------------
(* Properties.                                                             *)

Copies == [active : Valid, pending : {None} \union Valid]

TypeOK ==
  /\ at \in Stages \union {"idle", "ended"}
  /\ hurried \in BOOLEAN
  /\ survived \in BOOLEAN
  /\ owner \in Copies
  /\ agent \in Copies
  /\ selects \in 0 .. BatchSelects
  /\ commands \in Seq(Valid)
  /\ events \in Seq(Copies)
  /\ latest \in {None} \union Valid
  /\ said \in {"nothing", "unheard", "heard"}
  /\ seen \subseteq Valid

\* Once a run has settled, the user's latest choice is in force, or waits to
\* be at the first batch of the next run, unless the model selected anew after
\* hearing it: neither a snapshot made before the choice, nor a run that ended
\* without consuming it, nor a panic undoes it ("make the user's latest
\* selection active for the next run", src/web.rs start_run).
UserChoiceKept ==
  at = "idle" /\ latest # None => latest \in {owner.active, owner.pending}

\* Besides, while a run goes on the user sees the choice just made, not an older
\* one that a queued snapshot carries.
ChoiceKept ==
  /\ UserChoiceKept
  /\ Running /\ said = "unheard" => owner.pending = latest
=============================================================================

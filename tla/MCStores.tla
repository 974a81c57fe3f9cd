------------------------------ MODULE MCStores ------------------------------
(***************************************************************************)
(* What a session keeps: its task beside a follow-up question (FollowUps), *)
(* its history (History), plan (TaskPlan) and memories (Memories), and the *)
(* tools and settings the user chooses for it (SessionTools,               *)
(* SessionSettings).  The parts share no state here, so a behaviour runs   *)
(* one of them while the others rest in a state they begin in.             *)
(***************************************************************************)
EXTENDS FollowUps

CONSTANTS
  Limits, Sizes, Room, MaxGroups, MaxSize,
  Texts, Unusable, MaxPending, MaxCompleted, MaxItems, MaxRevision,
  Paths, Keys, Bodies, MaxCount, MaxBytes, MaxMemories, MaxVersion, MaxGeneration,
  Tools, Required, Forbidden, Repeats, BatchSelects,
  Requests, Initial, MaxRuns,
  Panics, CommandCap, EventCap, None

\* Limits and sizes are numbers of bytes.
ASSUME BytesAssumption == Limits \subseteq Nat /\ Sizes \subseteq Nat /\ Room \in Nat
ASSUME StoreAssumption == Bodies \subseteq Nat /\ MaxCount \in Nat /\ MaxBytes \in Nat
ASSUME PlanAssumption == MaxPending \in Nat /\ MaxCompleted \in Nat /\ MaxItems \in Nat

\* The bounds are numbers.
ASSUME BoundsAssumption ==
  /\ BatchSelects \in Nat /\ MaxRuns \in Nat /\ MaxRevision \in Nat
  /\ MaxMemories \in Nat /\ MaxVersion \in Nat /\ MaxGeneration \in Nat

\* Nothing that waits is told from every selection of tools.
ASSUME NoToolsAssumption == \A names \in SUBSET Tools : names # None

\* A request asks for settings of its own, and what waits is told from all of them.
ASSUME SettingsAssumption == None \notin Requests \cup {Initial} /\ Initial \notin Requests

VARIABLES
  part,
  history, nextId, cp, partial, limit, pending, phase, asked, batch,
  plan, revision, closing, told,
  memories, lastId, generation, sources, files, refs, page,
  at, hurried, survived, shown, agent, selects, commands, events, latest, said, seen,
  req, base, gate, runAt, runHurried, runs, runSurvived, runOwner, runAgent, runCommands,
  runEvents, accepted

Kept == INSTANCE History WITH question <- asked, MaxId <- MaxGroups
Plan == INSTANCE TaskPlan WITH MaxId <- MaxItems
Store == INSTANCE Memories WITH MaxId <- MaxMemories
Choice == INSTANCE SessionTools WITH owner <- shown
Config == INSTANCE SessionSettings WITH
  at <- runAt, hurried <- runHurried, survived <- runSurvived, owner <- runOwner,
  agent <- runAgent, commands <- runCommands, events <- runEvents

keptVars == <<history, nextId, cp, partial, limit, pending, phase, asked, batch>>
planVars == <<plan, revision, closing, told>>
storeVars == <<memories, lastId, generation, sources, files, refs, page>>
choiceVars == <<at, hurried, survived, shown, agent, selects, commands, events, latest, said, seen>>
configVars == <<req, base, gate, runAt, runHurried, runs, runSurvived, runOwner, runAgent,
                runCommands, runEvents, accepted>>

MCInit ==
  /\ part \in {"followup", "history", "plan", "memories", "tools", "settings"}
  /\ Init /\ Kept!Init /\ Plan!Init /\ Store!Init /\ Choice!Init /\ Config!Init
  /\ session.rounds = 0
  /\ part # "followup" => session.status = "complete" /\ session.checkpoint = "none" /\ ~session.unfinished
  /\ part # "history" => limit = CHOOSE l \in Limits : TRUE
  /\ part # "tools" => latest = Required

MCNext ==
  \/ /\ part = "followup" /\ Next
     /\ UNCHANGED <<part, keptVars, planVars, storeVars, choiceVars, configVars>>
  \/ /\ part = "history" /\ Kept!Next
     /\ UNCHANGED <<part, vars, planVars, storeVars, choiceVars, configVars>>
  \/ /\ part = "plan" /\ Plan!Next
     /\ UNCHANGED <<part, vars, keptVars, storeVars, choiceVars, configVars>>
  \/ /\ part = "memories" /\ Store!Next
     /\ UNCHANGED <<part, vars, keptVars, planVars, choiceVars, configVars>>
  \/ /\ part = "tools" /\ Choice!Next
     /\ UNCHANGED <<part, vars, keptVars, planVars, storeVars, configVars>>
  \/ /\ part = "settings" /\ Config!Next
     /\ UNCHANGED <<part, vars, keptVars, planVars, storeVars, choiceVars>>

MCSpec ==
  MCInit /\ [][MCNext]_<<part, vars, keptVars, planVars, storeVars, choiceVars, configVars>>

\* The type invariants of the parts.
TypesOK ==
  /\ part = "followup" => TypeOK
  /\ part = "history" => Kept!TypeOK
  /\ part = "plan" => Plan!TypeOK
  /\ part = "memories" => Store!TypeOK
  /\ part = "tools" => Choice!TypeOK
  /\ part = "settings" => Config!TypeOK

\* History: groups leave the model's context and the retained history through
\* confirmed checkpoints only, and a checkpoint's groups stay readable.
HistoryKept == Kept!HistoryKept

\* TaskPlan: a batch of plan operations is applied as a whole or not at all.
PlanWhole == Plan!PlanWhole

\* Memories: the store stays within its limits and consistent with what
\* refers to it, and what a write adds as active was current.
MemoriesKept == Store!MemoriesKept

\* SessionTools: the user's latest choice of tools is shown and survives.
ChoiceKept == part = "tools" => Choice!ChoiceKept

\* SessionSettings: the settings saved last survive, and are applied in order.
SettingsKept == Config!SettingsKept
=============================================================================

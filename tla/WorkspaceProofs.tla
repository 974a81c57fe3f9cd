--------------------------- MODULE WorkspaceProofs --------------------------
(***************************************************************************)
(* Proofs about Sessions for any number of sessions and readers, any limit *)
(* of runs and any capacity of the event channel: type correctness, no     *)
(* "running" status without a run, no automatic session without its run,   *)
(* nothing admitted once shutdown returned, no removed session that comes  *)
(* back and no owner copy that goes back to an older history; and about    *)
(* SettingsSave for any saves and any environments: the live settings are  *)
(* the stored ones once the gate is free.                                  *)
(*                                                                         *)
(* What makes the first inductive: a slot is taken exactly while its task  *)
(* lives and only of an open session (RunHeld); queued snapshots ascend    *)
(* between the owner's version and the agent's (Ascending), and are all    *)
(* published before the settlement (Drains); and a reader whose Arc is     *)
(* still the owner's holds the owner's very state (Captured).  Of the      *)
(* settings: only the save at work holds the gate (Holder), what it has    *)
(* stored so far goes with the step it is at (Stages), and the copies it   *)
(* took are still what is live and stored (Copies).                        *)
(***************************************************************************)
EXTENDS MCWorkspace, TLAPS

\* The parts of the inductive invariant.
RunHeld ==
  \A i \in Ids : /\ slot[i] = "none" <=> task[i] = "none"
                 /\ slot[i] # "none" => life[i] = "open"

\* Also a session that is not created yet is not "running".
Quiet == \A i \in Ids : life[i] # "gone" /\ slot[i] = "none" => status[i] # "running"

\* The session the scheduler is about to start is automatic and has no run.
Automatic ==
  /\ \A i \in Ids : life[i] = "unborn" => ~auto[i]
  /\ sched.at = "start" => sched.id \in Ids /\ auto[sched.id] /\ slot[sched.id] = "none"
  /\ NoStrayAutomatic

Drains == \A i \in Ids : events[i] # <<>> => task[i] \in {"agent", "drain"} /\ pump[i]

IsSnapshot(event) == event.kind = "snapshot"
Between(q, low, high) ==
  \A k \in 1..Len(q) : IsSnapshot(q[k]) => low <= q[k].ver /\ q[k].ver <= high
Ordered(q) ==
  \A k, l \in 1..Len(q) : k < l /\ IsSnapshot(q[k]) /\ IsSnapshot(q[l]) => q[k].ver <= q[l].ver
Ascending ==
  \A i \in Ids : /\ task[i] # "none" => ver[i] <= mine[i]
                 /\ Between(events[i], ver[i], mine[i])
                 /\ Ordered(events[i])

Captured ==
  \A r \in Readers :
    reader[r] # NoRead =>
      /\ reader[r].of \in Ids
      /\ reader[r].fresh => /\ reader[r].ver = ver[reader[r].of]
                            /\ reader[r].st = status[reader[r].of]

IInv == TypeOK /\ RunHeld /\ Quiet /\ Automatic /\ Drains /\ Ascending /\ Captured /\ DownIsQuiet

-----------------------------------------------------------------------------
(* Type correctness.  The sets of captures and queues stay folded where    *)
(* what they hold does not matter.                                         *)

Captures == [of : Ids \union {None}, update : BOOLEAN, ver : Versions, st : Statuses,
             fresh : BOOLEAN]
Queues == Seq(Events)
Stale(c) == [c EXCEPT !.fresh = FALSE]

LEMMA EventTyped ==
  /\ \A k \in {"delta", "tool", "notice"} : Light(k) \in Events /\ ~IsSnapshot(Light(k))
  /\ \A v \in Versions, st \in Statuses :
       Snapshot(v, st) \in Events /\ IsSnapshot(Snapshot(v, st)) /\ Snapshot(v, st).ver = v
  /\ \A e \in Events : e.ver \in Versions /\ e.st \in Statuses
BY BoundsAssumption DEF Versions, Statuses, Light, Snapshot, Events, IsSnapshot

LEMMA CaptureTyped ==
  /\ NoRead \in Captures
  /\ \A c \in Captures : /\ Stale(c) \in Captures /\ Stale(c).of = c.of /\ ~Stale(c).fresh
                         /\ c.ver \in Versions /\ c.st \in Statuses /\ c.of \in Ids \union {None}
  /\ \A i \in Ids, update \in BOOLEAN, v \in Versions, st \in Statuses :
       [of |-> i, update |-> update, ver |-> v, st |-> st, fresh |-> TRUE] \in Captures
<1>1. NoRead \in Captures
  BY BoundsAssumption DEF NoRead, Captures, Versions, Statuses
<1>2. ASSUME NEW c \in Captures
      PROVE  /\ Stale(c) \in Captures /\ Stale(c).of = c.of /\ ~Stale(c).fresh
             /\ c.ver \in Versions /\ c.st \in Statuses /\ c.of \in Ids \union {None}
  BY <1>2 DEF Captures, Stale
<1>3. ASSUME NEW i \in Ids, NEW update \in BOOLEAN, NEW v \in Versions, NEW st \in Statuses
      PROVE  [of |-> i, update |-> update, ver |-> v, st |-> st, fresh |-> TRUE] \in Captures
  BY DEF Captures
<1> QED
  BY <1>1, <1>2, <1>3

LEMMA QueueTyped ==
  /\ <<>> \in Queues
  /\ \A q \in Queues, e \in Events : Append(q, e) \in Queues
  /\ \A q \in Queues : q # <<>> => Head(q) \in Events /\ Tail(q) \in Queues
BY DEF Queues

Types ==
  /\ life \in [Ids -> {"unborn", "open", "gone"}] /\ auto \in [Ids -> BOOLEAN]
  /\ ver \in [Ids -> Versions] /\ status \in [Ids -> Statuses] /\ stream \in [Ids -> BOOLEAN]
  /\ slot \in [Ids -> {"none", "run", "closing"}]
  /\ task \in [Ids -> {"none", "agent", "drain", "settle", "recover"}]
  /\ mine \in [Ids -> Versions] /\ outcome \in [Ids -> {"ok", "panic"}]
  /\ events \in [Ids -> Queues] /\ pump \in [Ids -> BOOLEAN]
  /\ asked \in [Ids -> BOOLEAN] /\ reader \in [Readers -> Captures]
  /\ sched \in [at : {"rest", "persist", "open", "start"}, id : Ids \union {None}]
  /\ phase \in {"up", "stopping", "down"}

LEMMA TypesFold == TypeOK <=> Types
BY DEF TypeOK, Types, Captures, Queues

LEMMA Known ==
  /\ "idle" \in Statuses /\ "running" \in Statuses /\ "done" \in Statuses
  /\ "blocked" \in Statuses /\ 0 \in Versions
BY BoundsAssumption DEF Statuses, Versions

LEMMA TypeInit == Init => TypeOK
BY Known, CaptureTyped, QueueTyped, TypesFold DEF Init, Types, Resting

LEMMA TouchTyped == ASSUME Types, NEW i \in Ids, Touch(i) PROVE reader' \in [Readers -> Captures]
BY CaptureTyped DEF Types, Touch, Stale

LEMMA EmitTyped ==
  ASSUME Types, NEW i \in Ids, NEW event \in Events, Emit(i, event)
  PROVE  events' \in [Ids -> Queues]
<1>1. Append(events[i], event) \in Queues
  BY QueueTyped DEF Types
<1>2. CASE events' = Set(events, i, Append(events[i], event))
  BY <1>1, <1>2 DEF Types, Set
<1> QED
  BY <1>2 DEF Types, Emit

LEMMA StartTyped ==
  ASSUME Types, NEW i \in Ids, Start(i), asked' \in [Ids -> BOOLEAN],
         sched' \in [at : {"rest", "persist", "open", "start"}, id : Ids \union {None}]
  PROVE  Types'
<1>1. PICK v \in Versions : ver' = Set(ver, i, v) /\ mine' = Set(mine, i, v)
  BY DEF Start
<1> QED
  BY <1>1, TouchTyped, Known DEF Start, Types, Set

LEMMA TypeNext == TypeOK /\ Automatic /\ [Next]_vars => TypeOK'
<1> SUFFICES ASSUME Types, Automatic, [Next]_vars PROVE Types'
  BY TypesFold, PTL
<1> USE Known DEF Types, coreVars, taskVars, Set
<1>1. ASSUME NEW i \in Ids, Create(i) \/ Ask(i) \/ Refuse(i) PROVE Types'
  BY <1>1 DEF Create, Ask, Refuse
<1>2. ASSUME NEW i \in Ids, Admit(i) PROVE Types'
  BY <1>2, StartTyped DEF Admit
<1>3. ASSUME NEW i \in Ids, Close(i) PROVE Types'
  <2>1. CASE slot[i] = "none"
    BY <1>3, <2>1, TouchTyped DEF Close, Remove
  <2>2. CASE slot[i] # "none"
    BY <1>3, <2>2 DEF Close
  <2> QED
    BY <2>1, <2>2
<1>4. ASSUME NEW i \in Ids, AgentAdvance(i) PROVE Types'
  <2>1. mine[i] + 1 \in Versions
    BY <1>4, BoundsAssumption DEF AgentAdvance, Versions
  <2>2. events' \in [Ids -> Queues]
    BY <1>4, <2>1, EmitTyped, EventTyped DEF AgentAdvance
  <2> QED
    BY <1>4, <2>1, <2>2 DEF AgentAdvance
<1>5. ASSUME NEW i \in Ids, AgentTalks(i) PROVE Types'
  <2>1. events' \in [Ids -> Queues]
    BY <1>5, EmitTyped, EventTyped DEF AgentTalks
  <2> QED
    BY <1>5, <2>1 DEF AgentTalks
<1>6. ASSUME NEW i \in Ids, AgentFinish(i) PROVE Types'
  <2>1. events' \in [Ids -> Queues]
    BY <1>6, EmitTyped, EventTyped DEF AgentFinish
  <2> QED
    BY <1>6, <2>1 DEF AgentFinish
<1>7. ASSUME NEW i \in Ids, AgentPanic(i) \/ PumpPanic(i) \/ Drained(i) PROVE Types'
  BY <1>7, QueueTyped DEF AgentPanic, PumpPanic, Drained
<1>8. ASSUME NEW i \in Ids, Pump(i) PROVE Types'
  <2>1. Head(events[i]) \in Events /\ Tail(events[i]) \in Queues
    BY <1>8, QueueTyped DEF Pump
  <2>2. Head(events[i]).ver \in Versions /\ Head(events[i]).st \in Statuses
    BY <2>1, EventTyped
  <2>3. reader' \in [Readers -> Captures]
    BY <1>8, TouchTyped DEF Pump, Publish
  <2>4. life' \in [Ids -> {"unborn", "open", "gone"}] /\ ver' \in [Ids -> Versions]
        /\ status' \in [Ids -> Statuses] /\ stream' \in [Ids -> BOOLEAN]
    BY <1>8, <2>2 DEF Pump, Publish
  <2> QED
    BY <1>8, <2>1, <2>3, <2>4 DEF Pump
<1>9. ASSUME NEW i \in Ids, Settle(i) \/ Recover(i) PROVE Types'
  <2>1. reader' \in [Readers -> Captures]
    BY <1>9, TouchTyped DEF Settle, Recover, FreeSlot
  <2>2. /\ life' = life \/ life' = Set(life, i, "open") \/ life' = Set(life, i, "gone")
        /\ stream' = Set(stream, i, FALSE)
    BY <1>9 DEF Settle, Recover, Remove, FreeSlot
  <2>3. life' \in [Ids -> {"unborn", "open", "gone"}] /\ stream' \in [Ids -> BOOLEAN]
    BY <2>2
  <2>4. ver' = ver \/ ver' = Set(ver, i, mine[i])
    BY <1>9 DEF Settle, Recover
  <2>5. status' = status \/ status' = Set(status, i, "done") \/ status' = Set(status, i, "blocked")
    BY <1>9 DEF Settle, Recover
  <2>6. ver' \in [Ids -> Versions] /\ status' \in [Ids -> Statuses]
    BY <2>4, <2>5
  <2>7. slot' = Set(slot, i, "none") /\ task' = Set(task, i, "none") /\ mine' = Set(mine, i, 0)
        /\ outcome' = Set(outcome, i, "ok")
        /\ UNCHANGED <<auto, events, pump, asked, sched, phase>>
    BY <1>9 DEF Settle, Recover, FreeSlot
  <2> QED
    BY <2>1, <2>3, <2>6, <2>7
<1>10. ASSUME NEW i \in Ids, SettlePanic(i) PROVE Types'
  <2>1. reader' \in [Readers -> Captures]
    BY <1>10, TouchTyped DEF SettlePanic
  <2>2. ver' = ver \/ ver' = Set(ver, i, mine[i])
    BY <1>10 DEF SettlePanic
  <2>3. status' = status \/ status' = Set(status, i, "done")
    BY <1>10 DEF SettlePanic
  <2>4. stream' = stream \/ stream' = Set(stream, i, FALSE)
    BY <1>10 DEF SettlePanic
  <2>5. ver' \in [Ids -> Versions] /\ status' \in [Ids -> Statuses]
    BY <2>2, <2>3
  <2>6. stream' \in [Ids -> BOOLEAN]
    BY <2>4
  <2> QED
    BY <1>10, <2>1, <2>5, <2>6 DEF SettlePanic
<1>11. ASSUME NEW r \in Readers, NEW i \in Ids, NEW update \in BOOLEAN, Capture(r, i, update)
       PROVE Types'
  BY <1>11, CaptureTyped DEF Capture
<1>12. ASSUME NEW r \in Readers, Discard(r) PROVE Types'
  BY <1>12, CaptureTyped DEF Discard
<1>13. ASSUME NEW r \in Readers, Replace(r) PROVE Types'
  <2>1. reader' \in [Readers -> Captures]
    BY <1>13, CaptureTyped DEF Replace, Stale
  <2>2. reader[r].ver \in Versions /\ reader[r].st \in Statuses
    BY CaptureTyped
  <2> QED
    BY <1>13, <2>1, <2>2 DEF Replace
<1>14. CASE Decide \/ Persisted \/ Abandon
  BY <1>14 DEF Decide, Persisted, Abandon, Resting
<1>15. ASSUME NEW i \in Ids, Open(i) PROVE Types'
  BY <1>15 DEF Open
<1>16. CASE StartAutomatic \/ StartRefused
  <2>1. sched.id \in Ids
    BY <1>16 DEF StartAutomatic, StartRefused, Automatic
  <2>2. CASE StartAutomatic
    BY <2>1, <2>2, StartTyped DEF StartAutomatic, Resting
  <2>3. CASE StartRefused
    BY <2>1, <2>3, TouchTyped DEF StartRefused, Remove, Resting
  <2> QED
    BY <1>16, <2>2, <2>3
<1>17. CASE Stop \/ Stopped
  BY <1>17 DEF Stop, Stopped
<1>18. CASE UNCHANGED vars
  BY <1>18 DEF vars
<1> QED
  BY <1>1, <1>2, <1>3, <1>4, <1>5, <1>6, <1>7, <1>8, <1>9, <1>10, <1>11, <1>12, <1>13, <1>14,
     <1>15, <1>16, <1>17, <1>18
  DEF Next, User, Agent, Task, Reading, Scheduler

-----------------------------------------------------------------------------
(* Runs, statuses and automatic sessions.                                  *)

\* What the scheduler starts or gives up is a session without a run.
LEMMA Opened ==
  ASSUME Automatic, StartAutomatic \/ StartRefused
  PROVE  /\ sched.id \in Ids /\ sched.at = "start" /\ auto[sched.id] /\ slot[sched.id] = "none"
         /\ life[sched.id] # "unborn"
BY DEF Automatic, StartAutomatic, StartRefused

LEMMA NextRunHeld == Types /\ RunHeld /\ Automatic /\ Captured /\ [Next]_vars => RunHeld'
<1> SUFFICES ASSUME Types, RunHeld, Automatic, Captured, [Next]_vars PROVE RunHeld'
  OBVIOUS
<1> USE DEF Types, RunHeld, coreVars, taskVars, Set
<1>1. ASSUME NEW i \in Ids, Create(i) \/ Ask(i) \/ Refuse(i) \/ Open(i) PROVE RunHeld'
  BY <1>1 DEF Create, Ask, Refuse, Open
<1>2. ASSUME NEW i \in Ids, Admit(i) PROVE RunHeld'
  BY <1>2 DEF Admit, Admissible, Start
<1>3. ASSUME NEW i \in Ids, Close(i) PROVE RunHeld'
  BY <1>3 DEF Close, Remove
<1>4. ASSUME NEW i \in Ids, Agent(i) PROVE RunHeld'
  BY <1>4 DEF Agent, AgentAdvance, AgentTalks, AgentFinish, AgentPanic
<1>5. ASSUME NEW i \in Ids, Pump(i) PROVE RunHeld'
  BY <1>5 DEF Pump, Publish
<1>6. ASSUME NEW i \in Ids, PumpPanic(i) \/ Drained(i) \/ SettlePanic(i) PROVE RunHeld'
  BY <1>6 DEF PumpPanic, Drained, SettlePanic
<1>7. ASSUME NEW i \in Ids, Settle(i) \/ Recover(i) PROVE RunHeld'
  BY <1>7 DEF Settle, Recover, FreeSlot, Remove
<1>8. ASSUME NEW r \in Readers, Reading(r) PROVE RunHeld'
  BY <1>8 DEF Reading, Capture, Discard, Replace, Captured
<1>9. CASE StartAutomatic
  BY <1>9, Opened DEF StartAutomatic, Admissible, Start
<1>10. CASE StartRefused
  BY <1>10, Opened DEF StartRefused, Remove
<1>11. CASE Decide \/ Persisted \/ Abandon \/ Stop \/ Stopped \/ UNCHANGED vars
  BY <1>11 DEF Decide, Persisted, Abandon, Stop, Stopped, vars
<1> QED
  BY <1>1, <1>2, <1>3, <1>4, <1>5, <1>6, <1>7, <1>8, <1>9, <1>10, <1>11
  DEF Next, User, Task, Scheduler

LEMMA NextQuiet ==
  Types /\ RunHeld /\ Quiet /\ Automatic /\ Captured /\ [Next]_vars => Quiet'
<1> SUFFICES ASSUME Types, RunHeld, Quiet, Automatic, Captured, [Next]_vars PROVE Quiet'
  OBVIOUS
<1> USE DEF Types, RunHeld, Quiet, coreVars, taskVars, Set
<1>1. ASSUME NEW i \in Ids, Create(i) \/ Ask(i) \/ Refuse(i) \/ Open(i) PROVE Quiet'
  BY <1>1 DEF Create, Ask, Refuse, Open
<1>2. ASSUME NEW i \in Ids, Admit(i) PROVE Quiet'
  BY <1>2 DEF Admit, Admissible, Start
<1>3. ASSUME NEW i \in Ids, Close(i) PROVE Quiet'
  BY <1>3 DEF Close, Remove
<1>4. ASSUME NEW i \in Ids, Agent(i) PROVE Quiet'
  BY <1>4 DEF Agent, AgentAdvance, AgentTalks, AgentFinish, AgentPanic
<1>5. ASSUME NEW i \in Ids, Pump(i) PROVE Quiet'
  BY <1>5 DEF Pump, Publish
<1>6. ASSUME NEW i \in Ids, PumpPanic(i) \/ Drained(i) \/ SettlePanic(i) PROVE Quiet'
  BY <1>6 DEF PumpPanic, Drained, SettlePanic
<1>7. ASSUME NEW i \in Ids, Settle(i) \/ Recover(i) PROVE Quiet'
  BY <1>7 DEF Settle, Recover, FreeSlot, Remove
<1>8. ASSUME NEW r \in Readers, Reading(r) PROVE Quiet'
  BY <1>8 DEF Reading, Capture, Discard, Replace, Captured
<1>9. CASE StartAutomatic
  BY <1>9, Opened DEF StartAutomatic, Admissible, Start
<1>10. CASE StartRefused
  BY <1>10, Opened DEF StartRefused, Remove
<1>11. CASE Decide \/ Persisted \/ Abandon \/ Stop \/ Stopped \/ UNCHANGED vars
  BY <1>11 DEF Decide, Persisted, Abandon, Stop, Stopped, vars
<1> QED
  BY <1>1, <1>2, <1>3, <1>4, <1>5, <1>6, <1>7, <1>8, <1>9, <1>10, <1>11
  DEF Next, User, Task, Scheduler

LEMMA NextAutomatic == Types /\ RunHeld /\ Automatic /\ Captured /\ [Next]_vars => Automatic'
<1> SUFFICES ASSUME Types, RunHeld, Automatic, Captured, [Next]_vars PROVE Automatic'
  OBVIOUS
<1> USE DEF Types, RunHeld, Automatic, NoStrayAutomatic, coreVars, taskVars, Set
<1>1. ASSUME NEW i \in Ids, Create(i) \/ Ask(i) \/ Refuse(i) PROVE Automatic'
  BY <1>1 DEF Create, Ask, Refuse
<1>2. ASSUME NEW i \in Ids, Admit(i) PROVE Automatic'
  BY <1>2 DEF Admit, Admissible, Start
<1>3. ASSUME NEW i \in Ids, Close(i) PROVE Automatic'
  BY <1>3 DEF Close, Remove
<1>4. ASSUME NEW i \in Ids, Agent(i) PROVE Automatic'
  BY <1>4 DEF Agent, AgentAdvance, AgentTalks, AgentFinish, AgentPanic
<1>5. ASSUME NEW i \in Ids, Pump(i) PROVE Automatic'
  BY <1>5 DEF Pump, Publish
<1>6. ASSUME NEW i \in Ids, PumpPanic(i) \/ Drained(i) \/ SettlePanic(i) PROVE Automatic'
  BY <1>6 DEF PumpPanic, Drained, SettlePanic
<1>7. ASSUME NEW i \in Ids, Settle(i) \/ Recover(i) PROVE Automatic'
  BY <1>7 DEF Settle, Recover, FreeSlot, Remove
<1>8. ASSUME NEW r \in Readers, Reading(r) PROVE Automatic'
  BY <1>8 DEF Reading, Capture, Discard, Replace, Captured
<1>9. CASE StartAutomatic
  BY <1>9, Opened DEF StartAutomatic, Admissible, Start, Resting
<1>10. CASE StartRefused
  BY <1>10, Opened DEF StartRefused, Remove, Resting
<1>11. CASE Decide \/ Persisted \/ Abandon
  BY <1>11 DEF Decide, Persisted, Abandon, Resting
<1>12. ASSUME NEW i \in Ids, Open(i) PROVE Automatic'
  BY <1>12 DEF Open
<1>13. CASE Stop \/ Stopped \/ UNCHANGED vars
  BY <1>13 DEF Stop, Stopped, vars
<1> QED
  BY <1>1, <1>2, <1>3, <1>4, <1>5, <1>6, <1>7, <1>8, <1>9, <1>10, <1>11, <1>12, <1>13
  DEF Next, User, Task, Scheduler

LEMMA NextDown == Types /\ RunHeld /\ Captured /\ DownIsQuiet /\ [Next]_vars => DownIsQuiet'
<1> SUFFICES ASSUME Types, RunHeld, Captured, DownIsQuiet, [Next]_vars PROVE DownIsQuiet'
  OBVIOUS
<1> USE DEF Types, RunHeld, DownIsQuiet, coreVars, taskVars, Set
<1>1. ASSUME NEW i \in Ids, User(i) PROVE DownIsQuiet'
  BY <1>1 DEF User, Create, Ask, Admit, Admissible, Start, Refuse, Close, Remove
<1>2. ASSUME NEW i \in Ids, Agent(i) PROVE DownIsQuiet'
  BY <1>2 DEF Agent, AgentAdvance, AgentTalks, AgentFinish, AgentPanic
<1>3. ASSUME NEW i \in Ids, Task(i) PROVE DownIsQuiet'
  BY <1>3 DEF Task, Pump, PumpPanic, Drained, Settle, SettlePanic, Recover, FreeSlot
<1>4. ASSUME NEW r \in Readers, Reading(r) PROVE DownIsQuiet'
  BY <1>4 DEF Reading, Capture, Discard, Replace
<1>5. CASE Scheduler
  BY <1>5 DEF Scheduler, Decide, Persisted, Abandon, Open, StartAutomatic, StartRefused,
              Admissible, Start
<1>6. CASE Stop \/ Stopped \/ UNCHANGED vars
  BY <1>6 DEF Stop, Stopped, vars
<1> QED
  BY <1>1, <1>2, <1>3, <1>4, <1>5, <1>6 DEF Next

-----------------------------------------------------------------------------
(* Captures: while a reader's Arc is the owner's, it holds the owner's     *)
(* version and status.                                                     *)

\* Whoever replaces a session's entry leaves nobody a fresh capture of it.
LEMMA TouchCaptured ==
  ASSUME Types, Captured, NEW i \in Ids, Touch(i),
         \A j \in Ids : j # i => ver'[j] = ver[j] /\ status'[j] = status[j]
  PROVE  Captured'
<1> SUFFICES ASSUME NEW r \in Readers, reader'[r] # NoRead
             PROVE  /\ reader'[r].of \in Ids
                    /\ reader'[r].fresh => /\ reader'[r].ver = ver'[reader'[r].of]
                                           /\ reader'[r].st = status'[reader'[r].of]
  BY DEF Captured
<1>1. reader[r] \in Captures
  BY DEF Types
<1>2. CASE reader[r].of = i
  <2>1. reader'[r] = Stale(reader[r])
    BY <1>2 DEF Touch, Stale
  <2> QED
    BY <1>1, <1>2, <2>1, CaptureTyped
<1>3. CASE reader[r].of # i
  <2>1. reader'[r] = reader[r]
    BY <1>3 DEF Touch
  <2> QED
    BY <1>3, <2>1 DEF Captured
<1> QED
  BY <1>2, <1>3

\* A capture that is published is what the owner has: nothing changes but the Arc.
LEMMA ReplaceSame ==
  ASSUME Types, Captured, NEW r \in Readers, Replace(r)
  PROVE  UNCHANGED <<ver, status, life>>
<1>1. reader[r].of \in Ids /\ reader[r].ver = ver[reader[r].of]
      /\ reader[r].st = status[reader[r].of] /\ life[reader[r].of] = "open"
  BY DEF Replace, Captured
<1> QED
  BY <1>1 DEF Replace, Types, Set

LEMMA NextCaptured == Types /\ RunHeld /\ Automatic /\ Captured /\ [Next]_vars => Captured'
<1> SUFFICES ASSUME Types, RunHeld, Automatic, Captured, [Next]_vars PROVE Captured'
  OBVIOUS
<1> USE DEF coreVars, taskVars, Set
<1>1. ASSUME NEW i \in Ids, Create(i) \/ Ask(i) \/ Refuse(i) \/ Open(i) PROVE Captured'
  BY <1>1 DEF Create, Ask, Refuse, Open, Captured
<1>2. ASSUME NEW i \in Ids, Admit(i) PROVE Captured'
  BY <1>2, TouchCaptured DEF Admit, Start, Types
<1>3. ASSUME NEW i \in Ids, Close(i) PROVE Captured'
  <2>1. CASE slot[i] = "none"
    BY <1>3, <2>1, TouchCaptured DEF Close
  <2>2. CASE slot[i] # "none"
    BY <1>3, <2>2 DEF Close, Captured
  <2> QED
    BY <2>1, <2>2
<1>4. ASSUME NEW i \in Ids, Agent(i) PROVE Captured'
  BY <1>4 DEF Agent, AgentAdvance, AgentTalks, AgentFinish, AgentPanic, Captured
<1>5. ASSUME NEW i \in Ids, Pump(i) PROVE Captured'
  <2>1. CASE Touch(i)
    BY <1>5, <2>1, TouchCaptured DEF Pump, Publish, Types
  <2>2. CASE UNCHANGED <<ver, status, reader>>
    BY <2>2 DEF Captured
  <2> QED
    BY <1>5, <2>1, <2>2 DEF Pump, Publish
<1>6. ASSUME NEW i \in Ids, PumpPanic(i) \/ Drained(i) PROVE Captured'
  BY <1>6 DEF PumpPanic, Drained, Captured
<1>7. ASSUME NEW i \in Ids, SettlePanic(i) PROVE Captured'
  <2>1. CASE UNCHANGED <<ver, status, reader>>
    BY <2>1 DEF Captured
  <2>2. CASE Touch(i) /\ ver' = Set(ver, i, mine[i]) /\ status' = Set(status, i, "done")
    BY <2>2, TouchCaptured DEF Types
  <2> QED
    BY <1>7, <2>1, <2>2 DEF SettlePanic
<1>8. ASSUME NEW i \in Ids, Settle(i) \/ Recover(i) PROVE Captured'
  <2>1. Touch(i)
    BY <1>8 DEF Settle, Recover, FreeSlot
  <2>2. ver' = ver \/ ver' = Set(ver, i, mine[i])
    BY <1>8 DEF Settle, Recover
  <2>3. status' = status \/ status' = Set(status, i, "done") \/ status' = Set(status, i, "blocked")
    BY <1>8 DEF Settle, Recover
  <2> QED
    BY <2>1, <2>2, <2>3, TouchCaptured DEF Types
<1>9. ASSUME NEW r \in Readers, NEW i \in Ids, NEW update \in BOOLEAN, Capture(r, i, update)
      PROVE  Captured'
  BY <1>9 DEF Capture, Captured, Types
<1>10. ASSUME NEW r \in Readers, Discard(r) PROVE Captured'
  BY <1>10 DEF Discard, Captured, Types
<1>11. ASSUME NEW r \in Readers, Replace(r) PROVE Captured'
  <2>1. UNCHANGED <<ver, status>>
    BY <1>11, ReplaceSame
  <2> SUFFICES ASSUME NEW q \in Readers, reader'[q] # NoRead
               PROVE  /\ reader'[q].of \in Ids
                      /\ reader'[q].fresh => /\ reader'[q].ver = ver[reader'[q].of]
                                             /\ reader'[q].st = status[reader'[q].of]
    BY <2>1 DEF Captured
  <2>2. q # r /\ (reader'[q] = reader[q] \/ reader'[q] = Stale(reader[q]))
    BY <1>11 DEF Replace, Stale
  <2>3. reader[q] \in Captures /\ reader[q] # NoRead
    <3>1. reader[r].of \in Ids /\ NoRead.of = None
      BY <1>11 DEF Replace, Captured, NoRead
    <3>2. reader[q] = NoRead => reader'[q] = NoRead
      BY <1>11, <2>2, <3>1, NoneAssumption DEF Replace
    <3> QED
      BY <3>2 DEF Types
  <2> QED
    BY <2>2, <2>3, CaptureTyped DEF Captured
<1>12. CASE StartAutomatic
  BY <1>12, Opened, TouchCaptured DEF StartAutomatic, Start, Types
<1>13. CASE StartRefused
  BY <1>13, Opened, TouchCaptured DEF StartRefused
<1>14. CASE Decide \/ Persisted \/ Abandon \/ Stop \/ Stopped \/ UNCHANGED vars
  BY <1>14 DEF Decide, Persisted, Abandon, Stop, Stopped, vars, Captured
<1> QED
  BY <1>1, <1>2, <1>3, <1>4, <1>5, <1>6, <1>7, <1>8, <1>9, <1>10, <1>11, <1>12, <1>13, <1>14
  DEF Next, User, Task, Reading, Scheduler

-----------------------------------------------------------------------------
(* The queue between agent and pump.                                       *)

LEMMA NextDrains == Types /\ RunHeld /\ Automatic /\ Drains /\ [Next]_vars => Drains'
<1> SUFFICES ASSUME Types, RunHeld, Automatic, Drains, [Next]_vars PROVE Drains'
  OBVIOUS
<1> USE DEF Types, RunHeld, Drains, coreVars, taskVars, Set
<1>1. ASSUME NEW i \in Ids, User(i) PROVE Drains'
  BY <1>1 DEF User, Create, Ask, Admit, Admissible, Start, Refuse, Close
<1>2. ASSUME NEW i \in Ids, Agent(i) PROVE Drains'
  <2>1. \A j \in Ids : j # i => events'[j] = events[j]
    BY <1>2 DEF Agent, AgentAdvance, AgentTalks, AgentFinish, AgentPanic, Emit
  <2>2. pump[i] \/ events' = events
    BY <1>2 DEF Agent, AgentAdvance, AgentTalks, AgentFinish, AgentPanic, Emit
  <2>3. pump' = pump /\ task[i] = "agent" /\ (task' = task \/ task' = Set(task, i, "drain"))
    BY <1>2 DEF Agent, AgentAdvance, AgentTalks, AgentFinish, AgentPanic
  <2> QED
    BY <2>1, <2>2, <2>3
<1>3. ASSUME NEW i \in Ids, Pump(i) PROVE Drains'
  BY <1>3 DEF Pump
<1>4. ASSUME NEW i \in Ids, PumpPanic(i) \/ Drained(i) PROVE Drains'
  BY <1>4 DEF PumpPanic, Drained
<1>5. ASSUME NEW i \in Ids, Settle(i) \/ SettlePanic(i) \/ Recover(i) PROVE Drains'
  BY <1>5 DEF Settle, SettlePanic, Recover, FreeSlot
<1>6. ASSUME NEW r \in Readers, Reading(r) PROVE Drains'
  BY <1>6 DEF Reading, Capture, Discard, Replace
<1>7. CASE StartAutomatic
  BY <1>7, Opened DEF StartAutomatic, Start
<1>8. CASE Decide \/ Persisted \/ Abandon \/ (\E i \in Ids : Open(i)) \/ StartRefused
  BY <1>8 DEF Decide, Persisted, Abandon, Open, StartRefused
<1>9. CASE Stop \/ Stopped \/ UNCHANGED vars
  BY <1>9 DEF Stop, Stopped, vars
<1> QED
  BY <1>1, <1>2, <1>3, <1>4, <1>5, <1>6, <1>7, <1>8, <1>9 DEF Next, Task, Scheduler

LEMMA QueueAppend ==
  ASSUME NEW q \in Queues, NEW e \in Events, NEW low \in Nat, NEW high \in Nat, NEW top \in Nat,
         low <= high, high <= top, Between(q, low, high), Ordered(q),
         IsSnapshot(e) => high <= e.ver /\ e.ver <= top
  PROVE  Between(Append(q, e), low, top) /\ Ordered(Append(q, e))
<1> DEFINE p == Append(q, e)
<1>1. /\ Len(q) \in Nat /\ Len(p) = Len(q) + 1 /\ p[Len(q) + 1] = e
      /\ \A k \in 1..Len(q) : p[k] = q[k] /\ q[k] \in Events
  BY DEF Queues
<1>2. \A x \in Events : x.ver \in Nat
  BY EventTyped DEF Versions
<1> HIDE DEF p
<1>3. Between(p, low, top)
  BY <1>1, <1>2 DEF Between
<1>4. Ordered(p)
  <2> SUFFICES ASSUME NEW k \in 1..Len(p), NEW l \in 1..Len(p), k < l, IsSnapshot(p[k]),
                      IsSnapshot(p[l])
               PROVE  p[k].ver <= p[l].ver
    BY DEF Ordered
  <2>1. CASE l \in 1..Len(q)
    BY <1>1, <2>1 DEF Ordered
  <2>2. CASE l = Len(q) + 1
    <3>1. k \in 1..Len(q) /\ q[k].ver <= high /\ p[k].ver = q[k].ver /\ q[k].ver \in Nat
      BY <1>1, <1>2, <2>2 DEF Between
    <3> QED
      BY <1>1, <1>2, <2>2, <3>1
  <2> QED
    BY <1>1, <2>1, <2>2
<1> QED
  BY <1>3, <1>4 DEF p

LEMMA QueueRaise ==
  ASSUME NEW q \in Queues, NEW low \in Nat, NEW high \in Nat, NEW top \in Nat, high <= top,
         Between(q, low, high)
  PROVE  Between(q, low, top)
<1>1. \A k \in 1..Len(q) : q[k] \in Events
  BY DEF Queues
<1> QED
  BY <1>1, EventTyped DEF Between, Versions

LEMMA QueueTail ==
  ASSUME NEW q \in Queues, q # <<>>, NEW low \in Nat, NEW high \in Nat,
         Between(q, low, high), Ordered(q)
  PROVE  /\ Between(Tail(q), low, high) /\ Ordered(Tail(q))
         /\ IsSnapshot(Head(q)) => /\ low <= Head(q).ver /\ Head(q).ver <= high
                                   /\ Between(Tail(q), Head(q).ver, high)
<1> DEFINE t == Tail(q)
<1>1. /\ Len(q) \in Nat /\ Len(q) >= 1 /\ Len(t) = Len(q) - 1 /\ Head(q) = q[1]
      /\ \A k \in 1..Len(t) : t[k] = q[k + 1]
  BY DEF Queues
<1> HIDE DEF t
<1>2. \A k \in 1..Len(t) : k + 1 \in 1..Len(q) /\ 1 < k + 1
  BY <1>1
<1>3. Between(t, low, high)
  BY <1>1, <1>2 DEF Between
<1>4. Ordered(t)
  <2> SUFFICES ASSUME NEW k \in 1..Len(t), NEW l \in 1..Len(t), k < l, IsSnapshot(t[k]),
                      IsSnapshot(t[l])
               PROVE  t[k].ver <= t[l].ver
    BY DEF Ordered
  <2>1. k + 1 < l + 1 /\ k + 1 \in 1..Len(q) /\ l + 1 \in 1..Len(q)
    BY <1>2
  <2> QED
    BY <1>1, <2>1 DEF Ordered
<1>5. ASSUME IsSnapshot(Head(q))
      PROVE  low <= Head(q).ver /\ Head(q).ver <= high /\ Between(t, Head(q).ver, high)
  <2>1. 1 \in 1..Len(q) /\ IsSnapshot(q[1])
    BY <1>1, <1>5
  <2>2. low <= q[1].ver /\ q[1].ver <= high
    BY <2>1 DEF Between
  <2>3. ASSUME NEW k \in 1..Len(t), IsSnapshot(t[k]) PROVE q[1].ver <= t[k].ver /\ t[k].ver <= high
    BY <1>1, <1>2, <2>1, <2>3 DEF Between, Ordered
  <2> QED
    BY <1>1, <2>2, <2>3 DEF Between
<1> QED
  BY <1>3, <1>4, <1>5 DEF t

LEMMA QueueEmpty == \A low, high : Between(<<>>, low, high) /\ Ordered(<<>>)
BY DEF Between, Ordered

\* A session whose task, queue and versions a step leaves alone stays in order.
LEMMA SameAscending ==
  ASSUME Ascending, NEW i \in Ids,
         task'[i] = task[i], ver'[i] = ver[i], mine'[i] = mine[i], events'[i] = events[i]
  PROVE  /\ task'[i] # "none" => ver'[i] <= mine'[i]
         /\ Between(events'[i], ver'[i], mine'[i]) /\ Ordered(events'[i])
BY DEF Ascending

LEMMA NextAscending ==
  Types /\ RunHeld /\ Automatic /\ Drains /\ Ascending /\ Captured /\ [Next]_vars => Ascending'
<1> SUFFICES ASSUME Types, RunHeld, Automatic, Drains, Ascending, Captured, [Next]_vars,
                    NEW j \in Ids
             PROVE  /\ task'[j] # "none" => ver'[j] <= mine'[j]
                    /\ Between(events'[j], ver'[j], mine'[j]) /\ Ordered(events'[j])
  BY DEF Ascending
<1> DEFINE Good == /\ task'[j] # "none" => ver'[j] <= mine'[j]
                   /\ Between(events'[j], ver'[j], mine'[j]) /\ Ordered(events'[j])
<1>0. ver[j] \in Nat /\ mine[j] \in Nat /\ events[j] \in Queues
  BY DEF Types, Versions
<1> USE DEF Types, coreVars, taskVars, Set
<1>1. CASE UNCHANGED <<ver, task, mine, events>>
  BY <1>1, SameAscending
<1>2. ASSUME NEW i \in Ids, Start(i), slot[i] = "none" PROVE Good
  <2>1. CASE i = j
    <3>1. events[j] = <<>>
      BY <1>2, <2>1 DEF RunHeld, Drains
    <3>2. PICK v \in Versions : ver'[j] = v /\ mine'[j] = v
      BY <1>2, <2>1 DEF Start
    <3>3. events'[j] = <<>> /\ ver'[j] <= mine'[j]
      BY <1>2, <3>1, <3>2 DEF Start, Versions
    <3> QED
      BY <3>3, QueueEmpty
  <2>2. CASE i # j
    BY <1>2, <2>2, SameAscending DEF Start
  <2> QED
    BY <2>1, <2>2
<1>3. ASSUME NEW i \in Ids, AgentAdvance(i) \/ AgentTalks(i) \/ AgentFinish(i) PROVE Good
  <2>1. CASE i # j
    BY <1>3, <2>1, SameAscending DEF AgentAdvance, AgentTalks, AgentFinish, Emit
  <2>2. CASE i = j
    <3>1. ver'[j] = ver[j] /\ ver[j] <= mine[j] /\ Between(events[j], ver[j], mine[j])
          /\ Ordered(events[j])
      BY <1>3, <2>2 DEF AgentAdvance, AgentTalks, AgentFinish, Ascending
    <3>2. mine'[j] \in Nat /\ mine[j] <= mine'[j]
      <4>1. mine' = mine \/ mine' = [mine EXCEPT ![j] = mine[j] + 1]
        BY <1>3, <2>2 DEF AgentAdvance, AgentTalks, AgentFinish
      <4> QED
        BY <1>0, <4>1
    <3>3. CASE events'[j] = events[j]
      BY <1>0, <3>1, <3>2, <3>3, QueueRaise
    <3>4. ASSUME NEW e \in Events, events'[j] = Append(events[j], e),
                 IsSnapshot(e) => e.ver = mine'[j]
          PROVE  Good
      <4>1. IsSnapshot(e) => mine[j] <= e.ver /\ e.ver <= mine'[j]
        BY <3>2, <3>4
      <4>2. Between(Append(events[j], e), ver[j], mine'[j]) /\ Ordered(Append(events[j], e))
        BY <1>0, <3>1, <3>2, <4>1, QueueAppend
      <4> QED
        BY <1>0, <3>1, <3>2, <3>4, <4>2
    <3>5. CASE AgentAdvance(i)
      <4>1. mine'[j] = mine[j] + 1 /\ mine'[j] \in Versions
        BY <1>0, <2>2, <3>5, BoundsAssumption DEF AgentAdvance, Versions
      <4>2. events' = events \/ events'[j] = Append(events[j], Snapshot(mine'[j], "running"))
        BY <2>2, <3>5, <4>1 DEF AgentAdvance, Emit
      <4> QED
        BY <3>3, <3>4, <4>1, <4>2, EventTyped, Known
    <3>6. CASE AgentFinish(i)
      <4>1. mine'[j] = mine[j] /\ mine'[j] \in Versions
        BY <3>6 DEF AgentFinish
      <4>2. events' = events \/ events'[j] = Append(events[j], Snapshot(mine'[j], "done"))
        BY <2>2, <3>6, <4>1 DEF AgentFinish, Emit
      <4> QED
        BY <3>3, <3>4, <4>1, <4>2, EventTyped, Known
    <3>7. CASE AgentTalks(i)
      <4>1. PICK k \in {"delta", "tool", "notice"} : Emit(i, Light(k))
        BY <3>7 DEF AgentTalks
      <4>2. events' = events \/ events'[j] = Append(events[j], Light(k))
        BY <2>2, <4>1 DEF Emit
      <4> QED
        BY <3>3, <3>4, <4>2, EventTyped
    <3> QED
      BY <1>3, <3>5, <3>6, <3>7
  <2> QED
    BY <2>1, <2>2
<1>4. ASSUME NEW i \in Ids, AgentPanic(i) \/ Drained(i) PROVE Good
  BY <1>4 DEF AgentPanic, Drained, Ascending
<1>5. ASSUME NEW i \in Ids, Pump(i) PROVE Good
  <2>1. CASE i # j
    BY <1>5, <2>1, SameAscending DEF Pump, Publish
  <2>2. CASE i = j
    <3>1. events[j] # <<>> /\ events'[j] = Tail(events[j]) /\ UNCHANGED <<task, mine>>
      BY <1>5, <2>2 DEF Pump
    <3>2. /\ task[j] # "none" => ver[j] <= mine[j]
          /\ Between(events[j], ver[j], mine[j]) /\ Ordered(events[j])
      BY DEF Ascending
    <3>3. CASE ver'[j] = ver[j]
      BY <1>0, <3>1, <3>2, <3>3, QueueTail
    <3>4. CASE IsSnapshot(Head(events[j])) /\ ver'[j] = Head(events[j]).ver
      BY <1>0, <3>1, <3>2, <3>4, QueueTail
    <3>5. ver' = ver \/ (IsSnapshot(Head(events[j])) /\ ver'[j] = Head(events[j]).ver)
      BY <1>5, <2>2 DEF Pump, Publish, IsSnapshot
    <3> QED
      BY <3>3, <3>4, <3>5
  <2> QED
    BY <2>1, <2>2
<1>6. ASSUME NEW i \in Ids, PumpPanic(i) PROVE Good
  <2>1. CASE i = j
    BY <1>6, <2>1, QueueEmpty DEF PumpPanic, Ascending
  <2>2. CASE i # j
    BY <1>6, <2>2, SameAscending DEF PumpPanic
  <2> QED
    BY <2>1, <2>2
<1>7. ASSUME NEW i \in Ids, Settle(i) \/ Recover(i) PROVE Good
  <2>1. CASE i = j
    <3>1. events[j] = <<>> /\ events'[j] = <<>> /\ task'[j] = "none"
      BY <1>7, <2>1 DEF Settle, Recover, FreeSlot, Drains
    <3> QED
      BY <3>1, QueueEmpty
  <2>2. CASE i # j
    <3>1. task'[j] = task[j] /\ mine'[j] = mine[j] /\ events'[j] = events[j]
      BY <1>7, <2>2 DEF Settle, Recover, FreeSlot
    <3>2. ver'[j] = ver[j]
      BY <1>7, <2>2 DEF Settle, Recover
    <3> QED
      BY <3>1, <3>2, SameAscending
  <2> QED
    BY <2>1, <2>2
<1>8. ASSUME NEW i \in Ids, SettlePanic(i) PROVE Good
  <2>1. CASE i = j
    <3>1. events[j] = <<>> /\ events'[j] = <<>> /\ mine'[j] = mine[j] /\ ver[j] <= mine[j]
      BY <1>8, <2>1 DEF SettlePanic, Drains, Ascending
    <3>2. ver'[j] = ver[j] \/ ver'[j] = mine[j]
      BY <1>8, <2>1 DEF SettlePanic
    <3>3. ver'[j] <= mine'[j]
      BY <1>0, <3>1, <3>2
    <3> QED
      BY <3>1, <3>3, QueueEmpty
  <2>2. CASE i # j
    <3>1. ver'[j] = ver[j]
      <4>1. ver' = ver \/ ver' = [ver EXCEPT ![i] = mine[i]]
        BY <1>8 DEF SettlePanic
      <4> QED
        BY <2>2, <4>1
    <3> QED
      BY <1>8, <2>2, <3>1, SameAscending DEF SettlePanic
  <2> QED
    BY <2>1, <2>2
<1>9. ASSUME NEW r \in Readers, Reading(r) PROVE Good
  BY <1>1, <1>9, ReplaceSame DEF Reading, Capture, Discard, Replace
<1>10. CASE StartAutomatic
  BY <1>2, <1>10, Opened DEF StartAutomatic
<1>11. CASE StartRefused
  BY <1>1, <1>11 DEF StartRefused
<1>12. ASSUME NEW i \in Ids, User(i) PROVE Good
  <2>1. CASE Admit(i)
    BY <1>2, <2>1 DEF Admit, Admissible
  <2> QED
    BY <1>1, <1>12, <2>1 DEF User, Create, Ask, Refuse, Close
<1>13. CASE Decide \/ Persisted \/ Abandon \/ (\E i \in Ids : Open(i)) \/ Stop \/ Stopped
            \/ UNCHANGED vars
  BY <1>1, <1>13 DEF Decide, Persisted, Abandon, Open, Stop, Stopped, vars
<1> QED
  BY <1>3, <1>4, <1>5, <1>6, <1>7, <1>8, <1>9, <1>10, <1>11, <1>12, <1>13
  DEF Next, Agent, Task, Scheduler

-----------------------------------------------------------------------------
(* The theorems.                                                           *)

LEMMA Invariant == Spec => []IInv
<1>1. Init => IInv
  <2> SUFFICES ASSUME Init PROVE IInv
    OBVIOUS
  <2>1. TypeOK
    BY TypeInit
  <2>2. RunHeld /\ Quiet /\ DownIsQuiet
    BY DEF Init, RunHeld, Quiet, DownIsQuiet
  <2>3. Automatic
    BY DEF Init, Automatic, NoStrayAutomatic, Resting
  <2>4. Drains /\ Captured
    BY DEF Init, Drains, Captured
  <2>5. Ascending
    BY QueueEmpty DEF Init, Ascending
  <2> QED
    BY <2>1, <2>2, <2>3, <2>4, <2>5 DEF IInv
<1>2. IInv /\ [Next]_vars => IInv'
  BY TypesFold, TypeNext, NextRunHeld, NextQuiet, NextAutomatic, NextDown, NextCaptured,
     NextDrains, NextAscending DEF IInv
<1> QED
  BY <1>1, <1>2, PTL DEF Spec

\* The state of sessions, runs, readers and the scheduler keeps its type.
THEOREM SessionsTyped == Spec => []TypeOK
<1>1. IInv => TypeOK
  BY DEF IInv
<1> QED
  BY Invariant, <1>1, PTL

\* A session nobody runs never shows "running", whoever panics, closes or
\* publishes a stale capture (settlement and block_after_panic in start_run).
THEOREM NobodyRunsGhosts == Spec => []NoGhostRunning
<1>1. IInv => NoGhostRunning
  BY DEF IInv, Quiet, NoGhostRunning
<1> QED
  BY Invariant, <1>1, PTL

\* An automatic session is there for its run alone (automation.rs, start; the
\* settlement of start_run).
THEOREM AutomaticHasItsRun == Spec => []NoStrayAutomatic
<1>1. IInv => NoStrayAutomatic
  BY DEF IInv, Automatic
<1> QED
  BY Invariant, <1>1, PTL

\* Nothing runs, and nothing is admitted, once shutdown returned, whatever was
\* asked before (WebState::shutdown and the second look of start_run).
THEOREM ShutdownStays == Spec => []DownIsQuiet
<1>1. IInv => DownIsQuiet
  BY DEF IInv
<1> QED
  BY Invariant, <1>1, PTL

\* No late snapshot, capture or settlement brings a removed session back
\* (publish_snapshot, settlement, session_view::read).
THEOREM RemovedStays == Spec => ClosedNeverReturns
<1>1. IInv /\ [Next]_vars => [\A i \in Ids : life[i] = "gone" => life'[i] = "gone"]_vars
  <2> SUFFICES ASSUME Types, RunHeld, Automatic, Captured, [Next]_vars, NEW i \in Ids,
                      life[i] = "gone"
               PROVE  life'[i] = "gone"
    BY TypesFold DEF IInv
  <2> USE DEF Types, RunHeld, coreVars, taskVars, Set
  <2>1. slot[i] = "none" /\ task[i] = "none"
    OBVIOUS
  <2>2. ASSUME NEW j \in Ids, User(j) PROVE life'[i] = "gone"
    BY <2>2 DEF User, Create, Ask, Admit, Admissible, Start, Refuse, Close, Remove
  <2>3. ASSUME NEW j \in Ids, Agent(j) PROVE life'[i] = "gone"
    BY <2>3 DEF Agent, AgentAdvance, AgentTalks, AgentFinish, AgentPanic
  <2>4. ASSUME NEW j \in Ids, Pump(j) PROVE life'[i] = "gone"
    BY <2>1, <2>4 DEF Pump, Publish
  <2>5. ASSUME NEW j \in Ids, PumpPanic(j) \/ Drained(j) \/ SettlePanic(j) PROVE life'[i] = "gone"
    BY <2>5 DEF PumpPanic, Drained, SettlePanic
  <2>6. ASSUME NEW j \in Ids, Settle(j) \/ Recover(j) PROVE life'[i] = "gone"
    <3>1. i # j
      BY <2>1, <2>6 DEF Settle, Recover
    <3>2. life' = life \/ life' = Set(life, j, "gone") \/ life' = Set(life, j, "open")
      BY <2>6 DEF Settle, Recover, Remove
    <3> QED
      BY <3>1, <3>2
  <2>7. ASSUME NEW r \in Readers, Reading(r) PROVE life'[i] = "gone"
    BY <2>7, ReplaceSame DEF Reading, Capture, Discard
  <2>8. CASE StartAutomatic \/ StartRefused
    BY <2>8, Opened DEF StartAutomatic, StartRefused, Start, Remove
  <2>9. CASE Decide \/ Persisted \/ Abandon \/ (\E j \in Ids : Open(j))
    BY <2>9 DEF Decide, Persisted, Abandon, Open
  <2>10. CASE Stop \/ Stopped \/ UNCHANGED vars
    BY <2>10 DEF Stop, Stopped, vars
  <2> QED
    BY <2>2, <2>3, <2>4, <2>5, <2>6, <2>7, <2>8, <2>9, <2>10 DEF Next, Task, Scheduler
<1> QED
  BY Invariant, <1>1, PTL DEF ClosedNeverReturns, Spec

\* The owner's copy never goes back to an older history: not through snapshots
\* published late, nor through a settlement, nor through a reader's capture
\* (publish_snapshot, start_run, session_view::read).
THEOREM HistoryNeverGoesBack == Spec => NewestStateKept
<1>1. IInv /\ [Next]_vars =>
        [\A i \in Ids : life[i] = "open" /\ life'[i] = "open" => ver'[i] >= ver[i]]_vars
  <2> SUFFICES ASSUME Types, RunHeld, Automatic, Captured, Ascending, [Next]_vars, NEW i \in Ids
               PROVE  ver'[i] >= ver[i]
    BY TypesFold DEF IInv
  <2>0. ver[i] \in Nat /\ mine[i] \in Nat /\ events[i] \in Queues
    BY DEF Types, Versions
  <2> USE DEF Types, coreVars, taskVars, Set
  <2>1. CASE ver' = ver
    BY <2>0, <2>1
  <2>2. ASSUME NEW j \in Ids, Start(j) PROVE ver'[i] >= ver[i]
    <3>1. PICK v \in {ver[j], ver[j] + 1} : ver' = Set(ver, j, v)
      BY <2>2 DEF Start
    <3> QED
      BY <2>0, <3>1
  <2>3. ASSUME NEW j \in Ids, Pump(j) PROVE ver'[i] >= ver[i]
    <3>1. ver' = ver \/ (IsSnapshot(Head(events[j])) /\ ver' = Set(ver, j, Head(events[j]).ver))
      BY <2>3 DEF Pump, Publish, IsSnapshot
    <3>2. CASE i = j /\ IsSnapshot(Head(events[j])) /\ ver' = Set(ver, j, Head(events[j]).ver)
      <4>1. events[i] # <<>>
        BY <2>3, <3>2 DEF Pump
      <4>2. ver[i] <= Head(events[i]).ver
        BY <2>0, <3>2, <4>1, QueueTail DEF Ascending
      <4> QED
        BY <2>0, <3>2, <4>2
    <3> QED
      BY <2>0, <3>1, <3>2
  <2>4. ASSUME NEW j \in Ids, Settle(j) \/ SettlePanic(j) PROVE ver'[i] >= ver[i]
    <3>1. ver' = ver \/ ver' = Set(ver, j, mine[j])
      BY <2>4 DEF Settle, SettlePanic
    <3>2. ver[j] <= mine[j]
      BY <2>4 DEF Settle, SettlePanic, Ascending
    <3> QED
      BY <2>0, <3>1, <3>2
  <2>5. ASSUME NEW j \in Ids, Recover(j) PROVE ver'[i] >= ver[i]
    BY <2>1, <2>5 DEF Recover
  <2>6. ASSUME NEW j \in Ids, User(j) PROVE ver'[i] >= ver[i]
    BY <2>1, <2>2, <2>6 DEF User, Create, Ask, Admit, Refuse, Close
  <2>7. ASSUME NEW j \in Ids, Agent(j) \/ PumpPanic(j) \/ Drained(j) PROVE ver'[i] >= ver[i]
    BY <2>1, <2>7 DEF Agent, AgentAdvance, AgentTalks, AgentFinish, AgentPanic, PumpPanic, Drained
  <2>8. ASSUME NEW r \in Readers, Reading(r) PROVE ver'[i] >= ver[i]
    BY <2>1, <2>8, ReplaceSame DEF Reading, Capture, Discard
  <2>9. CASE Scheduler
    BY <2>1, <2>2, <2>9, Opened
    DEF Scheduler, Decide, Persisted, Abandon, Open, StartAutomatic, StartRefused
  <2>10. CASE Stop \/ Stopped \/ UNCHANGED vars
    BY <2>1, <2>10 DEF Stop, Stopped, vars
  <2> QED
    BY <2>3, <2>4, <2>5, <2>6, <2>7, <2>8, <2>9, <2>10 DEF Next, Task
<1> QED
  BY Invariant, <1>1, PTL DEF NewestStateKept, Spec
-----------------------------------------------------------------------------
Storing == {"keys", "restore", "publish"}
AtWork == {"begin", "save", "store"} \union Storing

\* The gate is held exactly while its holder's worker is at work.
Holder ==
  /\ \A s \in Saves : w[s] \in AtWork => gate = s
  /\ gate # Nothing => w[gate] \in AtWork
  /\ \A s \in Saves : at[s] \in {"new", "gate"} => w[s] \in {"none", "over"}

\* The stored keys are the live ones but between their write and its publication;
\* the stored config is the live one but between its write and its end.
Stages ==
  /\ (\A s \in Saves : w[s] # "publish") => liveKeys = credentials
  /\ ~halved /\ (\A s \in Saves : w[s] \notin Storing) => liveConfig = config
  /\ \A s \in Saves : w[s] \in Storing => config = s
  /\ \A s \in Saves : w[s] = "publish" => credentials = keys[s]

\* What a worker carries.
Copies ==
  /\ \A s \in Saves : w[s] \in {"save", "store", "keys", "restore"} => keys[s] = Live!Edited(s)
  /\ \A s \in Saves :
       ~halved /\ w[s] \in {"save", "store", "keys", "restore"} => before[s] = liveConfig

SaveInv == Live!TypeOK /\ Holder /\ Stages /\ Copies

-----------------------------------------------------------------------------
LEMMA EditTyped ==
  ASSUME Live!TypeOK, NEW s \in Saves
  PROVE  Live!Edited(s) \in Live!Keys
<1>1. CASE mode[s] = "keep"
  BY <1>1 DEF Live!TypeOK, Live!Edited
<1>2. CASE mode[s] = "save"
  BY <1>2 DEF Live!TypeOK, Live!Edited, Live!Keys
<1>3. CASE mode[s] = "clear"
  BY <1>3 DEF Live!TypeOK, Live!Edited, Live!Keys
<1> QED
  BY <1>1, <1>2, <1>3 DEF Live!TypeOK, Live!Modes

LEMMA InitSaves == Live!Init => SaveInv
<1> SUFFICES ASSUME Live!Init PROVE SaveInv
  OBVIOUS
<1>1. Live!NoKeys \in Live!Keys
  BY DEF Live!NoKeys, Live!Keys
<1>2. Live!TypeOK
  BY <1>1 DEF Live!Init, Live!TypeOK
<1>3. Holder /\ Stages /\ Copies
  BY DEF Live!Init, Holder, Stages, Copies, AtWork, Storing
<1> QED
  BY <1>2, <1>3 DEF SaveInv

LEMMA NextSaveTyped == SaveInv /\ [Live!Next]_saveVars => Live!TypeOK'
<1> SUFFICES ASSUME SaveInv, [Live!Next]_saveVars PROVE Live!TypeOK'
  OBVIOUS
<1> USE DEF SaveInv, Live!TypeOK, Live!files, Live!live, Live!Go
<1>1. ASSUME NEW s \in Saves, Live!Ask(s) \/ Live!Enter(s) \/ Live!GiveUp(s) PROVE Live!TypeOK'
  BY <1>1 DEF Live!Ask, Live!Enter, Live!GiveUp
<1>2. ASSUME NEW s \in Saves, Live!Prepare(s) PROVE Live!TypeOK'
  BY <1>2, EditTyped DEF Live!Prepare
<1>3. ASSUME NEW s \in Saves, Live!LastLook(s) \/ Live!Refuse(s) \/ Live!SaveConfig(s)
      PROVE  Live!TypeOK'
  BY <1>3 DEF Live!LastLook, Live!Refuse, Live!SaveConfig, Live!Done
<1>4. ASSUME NEW s \in Saves, Live!WriteKeys(s) PROVE Live!TypeOK'
  BY <1>4 DEF Live!WriteKeys
<1>5. ASSUME NEW s \in Saves, Live!Restore(s) PROVE Live!TypeOK'
  BY <1>5 DEF Live!Restore, Live!Done
<1>6. ASSUME NEW s \in Saves, Live!Publish(s) PROVE Live!TypeOK'
  BY <1>6 DEF Live!Publish, Live!Done
<1>7. CASE Live!Crash
  BY <1>7 DEF Live!Crash, Live!Restart
<1>8. CASE UNCHANGED saveVars
  BY <1>8 DEF saveVars
<1> QED
  BY <1>1, <1>2, <1>3, <1>4, <1>5, <1>6, <1>7, <1>8 DEF Live!Next, Live!Worker

LEMMA NextHolder ==
  ASSUME Nothing \notin Saves, SaveInv, [Live!Next]_saveVars
  PROVE  Holder'
<1> USE DEF SaveInv, Live!TypeOK, Holder, AtWork, Storing, Live!files, Live!live, Live!Go
<1>1. ASSUME NEW s \in Saves, Live!Ask(s) \/ Live!GiveUp(s) PROVE Holder'
  BY <1>1 DEF Live!Ask, Live!GiveUp
<1>2. ASSUME NEW s \in Saves, Live!Enter(s) PROVE Holder'
  BY <1>2 DEF Live!Enter
<1>3. ASSUME NEW s \in Saves, Live!Prepare(s) \/ Live!LastLook(s) \/ Live!SaveConfig(s)
      PROVE  Holder'
  BY <1>3 DEF Live!Prepare, Live!LastLook, Live!SaveConfig
<1>4. ASSUME NEW s \in Saves, Live!Refuse(s) \/ Live!Restore(s) \/ Live!Publish(s) PROVE Holder'
  BY <1>4 DEF Live!Refuse, Live!Restore, Live!Publish, Live!Done
<1>5. ASSUME NEW s \in Saves, Live!WriteKeys(s) PROVE Holder'
  BY <1>5 DEF Live!WriteKeys
<1>6. CASE Live!Crash
  BY <1>6 DEF Live!Crash, Live!Restart
<1>7. CASE UNCHANGED saveVars
  BY <1>7 DEF saveVars
<1> QED
  BY <1>1, <1>2, <1>3, <1>4, <1>5, <1>6, <1>7 DEF Live!Next, Live!Worker

LEMMA NextStages ==
  ASSUME Nothing \notin Saves, SaveInv, [Live!Next]_saveVars
  PROVE  Stages'
<1> USE DEF SaveInv, Live!TypeOK, Holder, Stages, AtWork, Storing, Live!files, Live!live, Live!Go
<1>1. ASSUME NEW s \in Saves, Live!Ask(s) \/ Live!GiveUp(s) PROVE Stages'
  BY <1>1 DEF Live!Ask, Live!GiveUp
<1>2. ASSUME NEW s \in Saves, Live!Enter(s) PROVE Stages'
  BY <1>2 DEF Live!Enter
<1>3. ASSUME NEW s \in Saves, Live!Prepare(s) \/ Live!LastLook(s) PROVE Stages'
  BY <1>3 DEF Live!Prepare, Live!LastLook
<1>4. ASSUME NEW s \in Saves, Live!SaveConfig(s) PROVE Stages'
  <2>1. \A q \in Saves : w[q] \in AtWork => q = s
    BY <1>4 DEF Live!SaveConfig
  <2>2. mode[s] = "keep" => keys[s] = credentials
    BY <1>4, <2>1 DEF Live!SaveConfig, Copies, Live!Edited
  <2> QED
    BY <1>4, <2>1, <2>2 DEF Live!SaveConfig
<1>5. ASSUME NEW s \in Saves, Live!WriteKeys(s) PROVE Stages'
  <2>1. \A q \in Saves : w[q] \in AtWork => q = s
    BY <1>5 DEF Live!WriteKeys
  <2> QED
    BY <1>5, <2>1 DEF Live!WriteKeys
<1>6. ASSUME NEW s \in Saves, Live!Refuse(s) PROVE Stages'
  BY <1>6 DEF Live!Refuse, Live!Done
<1>7. ASSUME NEW s \in Saves, Live!Restore(s) PROVE Stages'
  <2>1. \A q \in Saves : w[q] \in AtWork => q = s
    BY <1>7 DEF Live!Restore
  <2> QED
    BY <1>7, <2>1 DEF Live!Restore, Live!Done, Copies
<1>8. ASSUME NEW s \in Saves, Live!Publish(s) PROVE Stages'
  <2>1. \A q \in Saves : w[q] \in AtWork => q = s
    BY <1>8 DEF Live!Publish
  <2> QED
    BY <1>8, <2>1 DEF Live!Publish, Live!Done
<1>9. CASE Live!Crash
  BY <1>9 DEF Live!Crash, Live!Restart
<1>10. CASE UNCHANGED saveVars
  BY <1>10 DEF saveVars
<1> QED
  BY <1>1, <1>2, <1>3, <1>4, <1>5, <1>6, <1>7, <1>8, <1>9, <1>10 DEF Live!Next, Live!Worker

LEMMA NextCopies ==
  ASSUME Nothing \notin Saves, SaveInv, [Live!Next]_saveVars
  PROVE  Copies'
<1> USE DEF SaveInv, Live!TypeOK, Holder, Copies, Live!Edited, AtWork, Storing, Live!files,
        Live!live, Live!Go
<1>1. ASSUME NEW s \in Saves, Live!Ask(s) \/ Live!GiveUp(s) \/ Live!Enter(s) PROVE Copies'
  BY <1>1 DEF Live!Ask, Live!GiveUp, Live!Enter
<1>2. ASSUME NEW s \in Saves, Live!Prepare(s) PROVE Copies'
  <2>1. \A q \in Saves : w[q] \in AtWork => q = s
    BY <1>2 DEF Live!Prepare
  <2> QED
    BY <1>2, <2>1 DEF Live!Prepare, Stages
<1>3. ASSUME NEW s \in Saves, Live!LastLook(s) \/ Live!SaveConfig(s) \/ Live!WriteKeys(s)
      PROVE  Copies'
  BY <1>3 DEF Live!LastLook, Live!SaveConfig, Live!WriteKeys
<1>4. ASSUME NEW s \in Saves, Live!Refuse(s) \/ Live!Restore(s) PROVE Copies'
  BY <1>4 DEF Live!Refuse, Live!Restore, Live!Done
<1>5. ASSUME NEW s \in Saves, Live!Publish(s) PROVE Copies'
  <2>1. \A q \in Saves : w[q] \in AtWork => q = s
    BY <1>5 DEF Live!Publish
  <2> QED
    BY <1>5, <2>1 DEF Live!Publish, Live!Done
<1>6. CASE Live!Crash
  BY <1>6 DEF Live!Crash, Live!Restart
<1>7. CASE UNCHANGED saveVars
  BY <1>7 DEF saveVars
<1> QED
  BY <1>1, <1>2, <1>3, <1>4, <1>5, <1>6, <1>7 DEF Live!Next, Live!Worker

LEMMA SavesKeepInv == MCSpec => []SaveInv
<1>1. MCInit => SaveInv
  BY InitSaves DEF MCInit
<1>2. [MCNext]_<<part, vars, saveVars>> => [Live!Next]_saveVars
  BY DEF MCNext
<1>3. SaveInv /\ [Live!Next]_saveVars => SaveInv'
  BY SavesAssumption, NextSaveTyped, NextHolder, NextStages, NextCopies DEF SaveInv
<1> QED
  BY <1>1, <1>2, <1>3, PTL DEF MCSpec

-----------------------------------------------------------------------------
\* Whatever fails, times out or dies between the two files, the live settings are
\* the stored ones once the gate is free, and no save changes a key that is not its
\* own (save_settings behind the settings gate).
THEOREM SettingsAreStored == MCSpec => SettingsStored
<1>1. SaveInv => (gate = Nothing /\ ~halved => liveConfig = config /\ liveKeys = credentials)
  BY SavesAssumption DEF SaveInv, Holder, Stages, AtWork, Storing
<1>2. SaveInv /\ [Live!Next]_saveVars =>
        [\A e \in Envs :
           credentials'[e] # credentials[e] =>
             \E s \in Saves : env[s] = e /\ w[s] = "keys" /\ w'[s] = "publish"]_saveVars
  <2> SUFFICES ASSUME SaveInv, [Live!Next]_saveVars, NEW e \in Envs,
                      credentials'[e] # credentials[e]
               PROVE  \E s \in Saves : env[s] = e /\ w[s] = "keys" /\ w'[s] = "publish"
    OBVIOUS
  <2>1. PICK s \in Saves : Live!WriteKeys(s) /\ credentials' = keys[s] /\ Live!Go(s, "publish")
    BY DEF Live!Next, Live!Worker, saveVars, Live!files, Live!Ask, Live!Enter, Live!GiveUp,
           Live!Prepare, Live!LastLook, Live!Refuse, Live!SaveConfig, Live!WriteKeys,
           Live!Restore, Live!Publish, Live!Crash
  <2>2. \A q \in Saves : w[q] # "publish"
    BY <2>1 DEF Live!WriteKeys, SaveInv, Holder, AtWork, Storing
  <2>3. credentials' = Live!Edited(s) /\ credentials = liveKeys
    BY <2>1, <2>2 DEF Live!WriteKeys, SaveInv, Copies, Stages
  <2>4. env[s] = e
    BY <2>3 DEF Live!Edited, SaveInv, Live!TypeOK, Live!Keys, Live!Modes
  <2> QED
    BY <2>1, <2>4 DEF Live!WriteKeys, Live!Go, SaveInv, Live!TypeOK
<1>3. [MCNext]_<<part, vars, saveVars>> => [Live!Next]_saveVars
  BY DEF MCNext
<1> QED
  BY SavesKeepInv, <1>1, <1>2, <1>3, PTL
     DEF MCSpec, SettingsStored, Live!SettingsStored, Live!vars, saveVars
=============================================================================

--------------------------- MODULE SchedulePersist ---------------------------
(***************************************************************************)
(* How the idle-time scheduler's record reaches its file                   *)
(* (src/web/automation.rs, note_run_end, note_attempt, persist, write,     *)
(* written): every run end notes itself in memory and asks for a write     *)
(* before it gives its slot back, all under the core lock; the scheduler   *)
(* does the same for its attempts without it.  The requests that arrive    *)
(* while one detached thread writes share its next write.  Shutdown waits  *)
(* for every slot, then for the writes, but only so long (src/web.rs).     *)
(*                                                                         *)
(* Abstracted: what a record says (each note is its own record), and the   *)
(* lease (a write that is skipped without it is one that failed).          *)
(***************************************************************************)
EXTENDS FiniteSets

CONSTANTS
  RunEnds,      \* run ends, each calling persist once ...
  Attempts,     \* ... and the scheduler's notes, one after the other (disjoint)
  MaySpawnFail  \* bound: whether a thread may fail to start

\* A thread started for a request has the request's name.
Requests == RunEnds \union Attempts

VARIABLES
  at,          \* where each caller of persist stands
  waiting,     \* the senders pushed and not taken by a writer
  persisting,  \* the Busy flag
  th, batch,   \* where each detached thread stands, and the senders it took
  text,        \* what the thread serialized
  mem, disk,   \* the run ends noted in memory, and in the file
  told,        \* what each caller's receiver heard
  exit         \* up, stopping, looked (no sender waits), down, or cut short

vars == <<at, waiting, persisting, th, batch, text, mem, disk, told, exit>>

Init ==
  /\ at = [r \in Requests |-> "running"]
  /\ waiting = {}
  /\ persisting = FALSE
  /\ th = [t \in Requests |-> "none"]
  /\ batch = [t \in Requests |-> {}]
  /\ text = [t \in Requests |-> {}]
  /\ mem = {}
  /\ disk = {}
  /\ told = [r \in Requests |-> "no"]
  /\ exit = "up"

Go(f, x, s) == [f EXCEPT ![x] = s]
Tell(rs, what) == told' = [r \in Requests |-> IF r \in rs THEN what ELSE told[r]]

-----------------------------------------------------------------------------
(* note_run_end or note_attempt, then persist.                             *)

\* A run end keeps the core lock until persist returned.
LockFree(r) == \A q \in RunEnds \ {r} : at[q] \in {"running", "returned"}

\* The scheduler is one task; it awaits the write of an attempt, but not that
\* of a start that was refused.
Idle(r) == \A q \in Attempts \ {r} : at[q] \in {"running", "returned"}

Note(r) ==
  /\ at[r] = "running"
  /\ IF r \in RunEnds THEN LockFree(r) ELSE exit = "up" /\ Idle(r)
  /\ at' = Go(at, r, "noted")
  /\ mem' = mem \union {r}
  /\ UNCHANGED <<waiting, persisting, th, batch, text, disk, told, exit>>

Push(r) ==
  /\ at[r] = "noted"
  /\ at' = Go(at, r, "pushed")
  /\ waiting' = waiting \union {r}
  /\ UNCHANGED <<persisting, th, batch, text, mem, disk, told, exit>>

\* Busy::begin: a write already running takes this one with its next write.
Begin(r) ==
  /\ at[r] = "pushed"
  /\ at' = Go(at, r, IF persisting THEN "returned" ELSE "begun")
  /\ persisting' = TRUE
  /\ UNCHANGED <<waiting, th, batch, text, mem, disk, told, exit>>

Spawn(r) ==
  /\ at[r] = "begun"
  /\ at' = Go(at, r, "returned")
  /\ th' = Go(th, r, "take")
  /\ UNCHANGED <<waiting, persisting, batch, text, mem, disk, told, exit>>

\* No thread: the work is dropped, the Busy it owns with it; the senders go
\* in a step of their own.
SpawnFails(r) ==
  /\ MaySpawnFail
  /\ at[r] = "begun"
  /\ at' = Go(at, r, "clear")
  /\ persisting' = FALSE
  /\ UNCHANGED <<waiting, th, batch, text, mem, disk, told, exit>>

Clear(r) ==
  /\ at[r] = "clear"
  /\ at' = Go(at, r, "returned")
  /\ waiting' = {}
  /\ Tell(waiting, "dropped")
  /\ UNCHANGED <<persisting, th, batch, text, mem, disk, exit>>

-----------------------------------------------------------------------------
(* The detached thread's loop.                                             *)

Take(t) ==
  /\ th[t] = "take"
  /\ th' = Go(th, t, IF waiting = {} THEN "release" ELSE "write")
  /\ batch' = Go(batch, t, waiting)
  /\ waiting' = {}
  /\ UNCHANGED <<at, persisting, text, mem, disk, told, exit>>

\* The state is serialized under its lock, stored by a rename later.
Serialize(t) ==
  /\ th[t] = "write"
  /\ th' = Go(th, t, "store")
  /\ text' = Go(text, t, mem)
  /\ UNCHANGED <<at, waiting, persisting, batch, mem, disk, told, exit>>

Answer(t, what) ==
  /\ Tell(batch[t], what)
  /\ th' = Go(th, t, "release")
  /\ batch' = Go(batch, t, {})
  /\ text' = Go(text, t, {})

Store(t) ==
  /\ th[t] = "store"
  /\ disk' = text[t]
  /\ Answer(t, "written")
  /\ UNCHANGED <<at, waiting, persisting, mem, exit>>

\* An error, or another process holds the lease.
WriteFails(t) ==
  /\ th[t] \in {"write", "store"}
  /\ Answer(t, "failed")
  /\ UNCHANGED <<at, waiting, persisting, mem, disk, exit>>

\* A stuck folder: the system call never returns.
Hang(t) ==
  /\ th[t] \in {"write", "store"}
  /\ th' = Go(th, t, "hung")
  /\ UNCHANGED <<at, waiting, persisting, batch, text, mem, disk, told, exit>>

\* Mutant: the thread ends without looking for later requests.
ReleaseAndEnd(t) ==
  /\ th[t] = "release"
  /\ th' = Go(th, t, "ended")
  /\ persisting' = FALSE
  /\ UNCHANGED <<at, waiting, batch, text, mem, disk, told, exit>>

Release(t) ==
  /\ th[t] = "release"
  /\ th' = Go(th, t, "look")
  /\ persisting' = FALSE
  /\ UNCHANGED <<at, waiting, batch, text, mem, disk, told, exit>>

\* A request made after the batch was taken follows it ...
Look(t) ==
  /\ th[t] = "look"
  /\ th' = Go(th, t, IF waiting = {} THEN "ended" ELSE "again")
  /\ UNCHANGED <<at, waiting, persisting, batch, text, mem, disk, told, exit>>

\* ... unless another thread has taken over.
Again(t) ==
  /\ th[t] = "again"
  /\ th' = Go(th, t, IF persisting THEN "ended" ELSE "take")
  /\ persisting' = TRUE
  /\ UNCHANGED <<at, waiting, batch, text, mem, disk, told, exit>>

-----------------------------------------------------------------------------
(* shutdown: no slot is taken, then written().                             *)

SlotsFree == \A r \in RunEnds : at[r] = "returned"

Stop ==
  /\ exit = "up"
  /\ exit' = "stopping"
  /\ UNCHANGED <<at, waiting, persisting, th, batch, text, mem, disk, told>>

NoneWaits ==
  /\ exit = "stopping"
  /\ SlotsFree
  /\ waiting = {}
  /\ exit' = "looked"
  /\ UNCHANGED <<at, waiting, persisting, th, batch, text, mem, disk, told>>

NobodyWrites ==
  /\ exit = "looked"
  /\ exit' = IF persisting THEN "stopping" ELSE "down"
  /\ UNCHANGED <<at, waiting, persisting, th, batch, text, mem, disk, told>>

\* SCHEDULE_WRITE_WAIT: a stuck folder does not keep the process.
CutShort ==
  /\ exit = "stopping"
  /\ SlotsFree
  /\ exit' = "cut"
  /\ UNCHANGED <<at, waiting, persisting, th, batch, text, mem, disk, told>>

-----------------------------------------------------------------------------
Call(r) == Note(r) \/ Push(r) \/ Begin(r) \/ Spawn(r) \/ SpawnFails(r) \/ Clear(r)
Light(t) == Take(t) \/ Release(t) \/ Look(t) \/ Again(t)
Heavy(t) == Serialize(t) \/ Store(t) \/ WriteFails(t)
Shutdown == NoneWaits \/ NobodyWrites \/ CutShort

Next ==
  \/ \E r \in Requests : Call(r) \/ Light(r) \/ Heavy(r) \/ Hang(r)
  \/ Stop \/ Shutdown

Spec == Init /\ [][Next]_vars

\* Run ends, threads and the shutdown loop go on, and a write that does not
\* hang ends.  The wait for the record is counted, so it passes.
Fairness ==
  /\ \A r \in Requests : WF_vars(Call(r)) /\ WF_vars(Light(r)) /\ WF_vars(Heavy(r))
  /\ WF_vars(NobodyWrites)
  /\ SF_vars(CutShort)

FairSpec == Spec /\ Fairness

-----------------------------------------------------------------------------
(* Properties.                                                             *)

TypeOK ==
  /\ at \in [Requests -> {"running", "noted", "pushed", "begun", "clear", "returned"}]
  /\ waiting \subseteq Requests
  /\ persisting \in BOOLEAN
  /\ th \in [Requests -> {"none", "take", "write", "store", "release", "look", "again", "hung", "ended"}]
  /\ batch \in [Requests -> SUBSET Requests]
  /\ text \in [Requests -> SUBSET Requests]
  /\ mem \subseteq Requests
  /\ disk \subseteq mem
  /\ told \in [Requests -> {"no", "written", "failed", "dropped"}]
  /\ exit \in {"up", "stopping", "looked", "down", "cut"}

\* A sender that waits is never forgotten: a writer holds the flag, or a
\* thread or a caller is about to look for it (persist: "A request made after
\* the batch was taken follows it, unless another thread has taken over").
NoSenderForgotten ==
  waiting # {} => \/ persisting
                  \/ \E t \in Requests : th[t] \in {"look", "again"} \/ at[t] \in {"pushed", "clear"}

\* A caller told that the record was written finds its run end in the file.
ToldIsStored == \A r \in Requests : told[r] = "written" => r \in disk

\* The process stops of its own accord only after a write was tried for every
\* run end ("shutdown, which waits for every slot and then for written(),
\* cannot exit ahead of the record", src/web.rs start_run).
ExitAfterRecord == exit = "down" => \A r \in RunEnds : told[r] # "no"

\* src/web/automation.rs, persist, where no thread could start: "Nothing will
\* write them: release the callers".
NothingWouldWrite ==
  [][\A r \in Requests : told[r] = "no" /\ told'[r] = "dropped" => ~persisting]_vars

\* Shutdown ends even when the record's folder hangs.
ShutdownEnds == exit = "stopping" ~> exit \in {"down", "cut"}

\* The three together: what is noted reaches the file before anyone is told so, and the
\* process waits for it.
RecordKept == NoSenderForgotten /\ ToldIsStored /\ ExitAfterRecord
=============================================================================

----------------------------- MODULE WriteGate -----------------------------
(***************************************************************************)
(* External writes of the tools: the two process-wide gates of             *)
(* src/tools/writes.rs, the dedicated tool threads of src/worker.rs that   *)
(* wait at them, and the agent's side in src/agent.rs, which awaits one    *)
(* thread per call under a cancellation token and a deadline and may give  *)
(* up on it.  A run calls one tool at a time; a thread it gave up on goes  *)
(* on running beside the run's later calls.                                *)
(*                                                                         *)
(* Abstracted: what a tool writes (an effect is none, done or unknown),    *)
(* time (a deadline passes at any moment), and the loop around the calls   *)
(* (a run may call again, or end, after every report).                     *)
(***************************************************************************)
EXTENDS FiniteSets

CONSTANTS
  Runs,      \* sessions with a run of their own
  Threads,   \* MAX_TOOL_WORKERS permits: one per live tool thread
  Gates,     \* FILE_WRITES and DATABASE_WRITES
  Calls,     \* the kinds of calls each run makes
  None

ASSUME NoneAssumption == None \notin Threads
ASSUME GatesAssumption == "read" \notin Gates

\* A tool call writes behind one of the gates (external_write) or reads.
Kinds == Gates \union {"read"}

ASSUME CallsAssumption == \A r \in Runs : Calls[r] \subseteq Kinds

Outcomes == {"ok", "error", "cancelled", "timeout", "unresolved", "uncertain", "panic", "lost"}
Effects == {"none", "done", "unknown"}

\* Error codes after which an external write's outcome is not known.
UncertainErrors == {"unresolved", "uncertain", "panic"}

Receipts == [outcome : Outcomes \union {"none"}, effect : Effects]
Empty == [outcome |-> "none", effect |-> "none"]
Receipt(o, e) == [outcome |-> o, effect |-> e]

VARIABLES
  \* --- the agents -------------------------------------------------------
  stage,      \* off, between calls, in select!, or in the settle wait
  cancelled,  \* the run's cancellation token
  call,       \* the kind of the awaited call; "read" between calls
  thread,     \* the thread whose result the run still expects
  stopped,    \* why the run stopped waiting and entered the settle wait
  mail,       \* what the thread sent and the run has not received yet
  report,     \* what the run recorded of its last call, if that was a write
  \* --- the tool threads -------------------------------------------------
  pc, kind, told, result,
  \* --- the process ------------------------------------------------------
  gate,       \* the holder of each mutex
  poisoned,   \* a holder of the mutex panicked
  uncertain,  \* write_outcome_uncertain, shared by every session
  doubtful    \* history: a writer left this gate with an unknown outcome

runVars == <<stage, cancelled, call, thread, stopped, mail, report>>
threadVars == <<pc, kind, told, result>>
vars == <<stage, cancelled, call, thread, stopped, mail, report,
          pc, kind, told, result, gate, poisoned, uncertain, doubtful>>

Init ==
  /\ stage = [r \in Runs |-> "off"]
  /\ cancelled = [r \in Runs |-> FALSE]
  /\ call = [r \in Runs |-> "read"]
  /\ thread = [r \in Runs |-> None]
  /\ stopped = [r \in Runs |-> "none"]
  /\ mail = [r \in Runs |-> Empty]
  /\ report = [r \in Runs |-> Empty]
  /\ pc = [t \in Threads |-> "free"]
  /\ kind = [t \in Threads |-> "read"]
  /\ told = [t \in Threads |-> FALSE]
  /\ result = [t \in Threads |-> Empty]
  /\ gate = [g \in Gates |-> None]
  /\ poisoned = [g \in Gates |-> FALSE]
  /\ uncertain = FALSE
  /\ doubtful = [g \in Gates |-> FALSE]

-----------------------------------------------------------------------------
(* The run around the calls.                                               *)

\* start_run and run_session_controlled both refuse while the process is
\* quarantined.
BeginRun(r) ==
  /\ stage[r] = "off"
  /\ ~uncertain
  /\ stage' = [stage EXCEPT ![r] = "ready"]
  /\ UNCHANGED <<cancelled, call, thread, stopped, mail, report, threadVars,
                 gate, poisoned, uncertain, doubtful>>

EndRun(r) ==
  /\ stage[r] = "ready"
  /\ stage' = [stage EXCEPT ![r] = "off"]
  /\ cancelled' = [cancelled EXCEPT ![r] = FALSE]
  /\ report' = [report EXCEPT ![r] = Empty]
  /\ UNCHANGED <<call, thread, stopped, mail, threadVars,
                 gate, poisoned, uncertain, doubtful>>

\* Cancelling the run's token cancels the child token of the awaited call.
Cancel(r) ==
  /\ stage[r] # "off"
  /\ ~cancelled[r]
  /\ cancelled' = [cancelled EXCEPT ![r] = TRUE]
  /\ told' = [t \in Threads |-> told[t] \/ thread[r] = t]
  /\ UNCHANGED <<stage, call, thread, stopped, mail, report, pc, kind, result,
                 gate, poisoned, uncertain, doubtful>>

-----------------------------------------------------------------------------
(* execute_one: refuse before a thread exists, or spawn one.               *)

Record(r, k, receipt) ==
  report' = [report EXCEPT ![r] = IF k = "read" THEN Empty ELSE receipt]

NotStarted(r, k, o) ==
  /\ Record(r, k, Receipt(o, "none"))
  /\ UNCHANGED <<stage, cancelled, call, thread, stopped, mail, threadVars,
                 gate, poisoned, uncertain, doubtful>>

Refuse(r, k) ==
  /\ stage[r] = "ready"
  /\ \/ uncertain /\ NotStarted(r, k, "unresolved")
     \/ ~uncertain /\ cancelled[r] /\ NotStarted(r, k, "cancelled")
     \/ ~uncertain /\ ~cancelled[r] /\ NotStarted(r, k, "timeout")
     \/ /\ ~uncertain /\ ~cancelled[r]
        /\ \A t \in Threads : pc[t] # "free"     \* tool_worker_capacity
        /\ NotStarted(r, k, "error")

Spawn(r, k, t) ==
  /\ stage[r] = "ready"
  /\ ~uncertain
  /\ ~cancelled[r]
  /\ pc[t] = "free"
  /\ stage' = [stage EXCEPT ![r] = "await"]
  /\ call' = [call EXCEPT ![r] = k]
  /\ thread' = [thread EXCEPT ![r] = t]
  /\ pc' = [pc EXCEPT ![t] = IF k = "read" THEN "work" ELSE "poll"]
  /\ kind' = [kind EXCEPT ![t] = k]
  /\ report' = [report EXCEPT ![r] = Empty]
  /\ UNCHANGED <<cancelled, stopped, mail, told, result, gate, poisoned, uncertain, doubtful>>

-----------------------------------------------------------------------------
(* A tool thread at a gate (acquire_gate) and behind it (WriteGuard,       *)
(* execute_cancellable, guard_tool).                                       *)

Finish(t, o, e) ==
  /\ pc' = [pc EXCEPT ![t] = "send"]
  /\ result' = [result EXCEPT ![t] = Receipt(o, e)]

\* Mutant: cancellation and quarantine are read only under the lock.
PollUnderLockOnly(t) ==
  /\ pc[t] = "poll"
  /\ pc' = [pc EXCEPT ![t] = "try"]
  /\ UNCHANGED <<runVars, kind, told, result, gate, poisoned, uncertain, doubtful>>

\* The top of the loop: leave before trying the lock.
Poll(t) ==
  /\ pc[t] = "poll"
  /\ \/ told[t] /\ Finish(t, "cancelled", "none")
     \/ ~told[t] /\ uncertain /\ Finish(t, "unresolved", "none")
     \/ /\ ~told[t] /\ ~uncertain
        /\ pc' = [pc EXCEPT ![t] = "try"]
        /\ UNCHANGED result
  /\ UNCHANGED <<runVars, kind, told, gate, poisoned, uncertain, doubtful>>

\* try_lock: taken, poisoned, or held by another thread (sleep, then poll).
TryLock(t) ==
  LET g == kind[t] IN
  /\ pc[t] = "try"
  /\ \/ /\ gate[g] = None /\ ~poisoned[g]
        /\ gate' = [gate EXCEPT ![g] = t]
        /\ pc' = [pc EXCEPT ![t] = "recheck"]
        /\ UNCHANGED <<result, uncertain>>
     \/ /\ gate[g] = None /\ poisoned[g]
        /\ uncertain' = TRUE
        /\ Finish(t, "unresolved", "none")
        /\ UNCHANGED gate
     \/ /\ gate[g] # None
        /\ pc' = [pc EXCEPT ![t] = "poll"]
        /\ UNCHANGED <<result, gate, uncertain>>
  /\ UNCHANGED <<runVars, kind, told, poisoned, doubtful>>

\* Mutant: nothing is read again once the lock is held.
RecheckNothing(t) ==
  /\ pc[t] = "recheck"
  /\ pc' = [pc EXCEPT ![t] = "work"]
  /\ UNCHANGED <<runVars, kind, told, result, gate, poisoned, uncertain, doubtful>>

\* With the lock held, cancellation and quarantine are read once more.
Recheck(t) ==
  LET g == kind[t] IN
  /\ pc[t] = "recheck"
  /\ \/ /\ told[t]
        /\ gate' = [gate EXCEPT ![g] = None]
        /\ Finish(t, "cancelled", "none")
     \/ /\ ~told[t] /\ uncertain
        /\ gate' = [gate EXCEPT ![g] = None]
        /\ Finish(t, "unresolved", "none")
     \/ /\ ~told[t] /\ ~uncertain
        /\ pc' = [pc EXCEPT ![t] = "work"]
        /\ UNCHANGED <<gate, result>>
  /\ UNCHANGED <<runVars, kind, told, poisoned, uncertain, doubtful>>

\* The tool's own work.  A write may still commit after it was told to stop.
Write(t) ==
  /\ pc[t] = "work"
  /\ kind[t] # "read"
  /\ \/ result' = [result EXCEPT ![t] = Receipt("ok", "done")]
     \/ result' = [result EXCEPT ![t] = Receipt("error", "none")]
     \/ told[t] /\ result' = [result EXCEPT ![t] = Receipt("cancelled", "none")]
     \/ result' = [result EXCEPT ![t] = Receipt("uncertain", "unknown")]
     \/ result' = [result EXCEPT ![t] = Receipt("panic", "unknown")]
  /\ pc' = [pc EXCEPT ![t] = "publish"]
  /\ UNCHANGED <<runVars, kind, told, gate, poisoned, uncertain, doubtful>>

\* What a read answers is not told apart, only that it may panic.
Read(t) ==
  /\ pc[t] = "work"
  /\ kind[t] = "read"
  /\ Finish(t, "ok", "none") \/ Finish(t, "panic", "none")
  /\ UNCHANGED <<runVars, kind, told, gate, poisoned, uncertain, doubtful>>

\* Mutant: the error quarantines only when the agent receives it.
PublishNothing(t) ==
  /\ pc[t] = "publish"
  /\ pc' = [pc EXCEPT ![t] = "release"]
  /\ UNCHANGED <<runVars, kind, told, result, gate, poisoned, uncertain, doubtful>>

\* An uncertain error, or the guard dropped by a panic, quarantines the
\* process while the lock is still held.
Publish(t) ==
  /\ pc[t] = "publish"
  /\ uncertain' = (uncertain \/ result[t].outcome \in UncertainErrors)
  /\ pc' = [pc EXCEPT ![t] = "release"]
  /\ UNCHANGED <<runVars, kind, told, result, gate, poisoned, doubtful>>

\* The MutexGuard is dropped; during a panic that poisons the mutex.
Release(t) ==
  LET g == kind[t] IN
  /\ pc[t] = "release"
  /\ gate' = [gate EXCEPT ![g] = None]
  /\ poisoned' = [poisoned EXCEPT ![g] = @ \/ result[t].outcome = "panic"]
  /\ doubtful' = [doubtful EXCEPT ![g] = @ \/ result[t].effect = "unknown"]
  /\ pc' = [pc EXCEPT ![t] = "send"]
  /\ UNCHANGED <<runVars, kind, told, result, uncertain>>

\* The thread ends, its permit returns, and a run that still expects it has
\* mail.  A panic outside guard_tool drops the sender instead.
Leave(t, receipt) ==
  /\ pc[t] = "send"
  /\ pc' = [pc EXCEPT ![t] = "free"]
  /\ mail' = [r \in Runs |-> IF thread[r] = t THEN receipt ELSE mail[r]]
  /\ thread' = [r \in Runs |-> IF thread[r] = t THEN None ELSE thread[r]]
  /\ kind' = [kind EXCEPT ![t] = "read"]
  /\ told' = [told EXCEPT ![t] = FALSE]
  /\ result' = [result EXCEPT ![t] = Empty]
  /\ UNCHANGED <<stage, cancelled, call, stopped, report, gate, poisoned,
                 uncertain, doubtful>>

Send(t) == Leave(t, result[t])
Die(t) == Leave(t, Receipt("lost", result[t].effect))

-----------------------------------------------------------------------------
(* await_tool_worker and received_tool_outcome.                            *)

\* Mutant: the stop reason replaces every outcome of the settle wait.
RecordedStopReason(r) ==
  IF stage[r] = "settle" /\ stopped[r] # "cancelled"
  THEN Receipt(stopped[r], mail[r].effect) ELSE mail[r]

\* Mutant: the fields are swapped.
RecordedSwapped(r) ==
  IF stage[r] = "settle" THEN Receipt(mail[r].effect, stopped[r]) ELSE mail[r]

\* The outcome the run records: a stop reason replaces the worker's own
\* "cancelled", and nothing else.
Recorded(r) ==
  IF /\ stage[r] = "settle"
     /\ stopped[r] # "cancelled"
     /\ mail[r].outcome = "cancelled"
  THEN Receipt(stopped[r], mail[r].effect)
  ELSE mail[r]

\* The awaited call is over for the run.
Return(r) ==
  /\ stage' = [stage EXCEPT ![r] = "ready"]
  /\ call' = [call EXCEPT ![r] = "read"]
  /\ stopped' = [stopped EXCEPT ![r] = "none"]

Receive(r) ==
  /\ stage[r] \in {"await", "settle"}
  /\ mail[r] # Empty
  /\ Record(r, call[r], Recorded(r))
  /\ uncertain' = \/ uncertain
                  \/ /\ call[r] # "read"
                     /\ mail[r].outcome \in UncertainErrors \union {"lost"}
  /\ mail' = [mail EXCEPT ![r] = Empty]
  /\ Return(r)
  /\ UNCHANGED <<cancelled, thread, threadVars, gate, poisoned, doubtful>>

\* select! is biased: it stops waiting only when no result is there yet.
Stop(r, why) ==
  /\ stage[r] = "await"
  /\ mail[r] = Empty
  /\ why = "cancelled" => cancelled[r]
  /\ told' = [t \in Threads |-> told[t] \/ thread[r] = t]
  /\ IF call[r] = "read"
     THEN /\ Return(r)
          /\ thread' = [thread EXCEPT ![r] = None]
     ELSE /\ stage' = [stage EXCEPT ![r] = "settle"]
          /\ stopped' = [stopped EXCEPT ![r] = why]
          /\ UNCHANGED <<call, thread>>
  /\ UNCHANGED <<cancelled, mail, report, pc, kind, result, gate, poisoned,
                 uncertain, doubtful>>

\* Mutant: a write is abandoned without quarantine.
GiveUpSilently(r) ==
  /\ stage[r] = "settle"
  /\ mail[r] = Empty
  /\ Return(r)
  /\ thread' = [thread EXCEPT ![r] = None]
  /\ report' = [report EXCEPT ![r] = Receipt("unresolved", "unknown")]
  /\ UNCHANGED <<cancelled, mail, threadVars, gate, poisoned, uncertain, doubtful>>

\* The settle wait ran out: the write goes on without anyone expecting it.
GiveUp(r) ==
  /\ stage[r] = "settle"
  /\ mail[r] = Empty
  /\ uncertain' = TRUE
  /\ Return(r)
  /\ thread' = [thread EXCEPT ![r] = None]
  /\ report' = [report EXCEPT ![r] = Receipt("unresolved", "unknown")]
  /\ UNCHANGED <<cancelled, mail, threadVars, gate, poisoned, doubtful>>

-----------------------------------------------------------------------------
\* One step of a thread that is not inside its tool.
ThreadStep(t) ==
  Poll(t) \/ TryLock(t) \/ Recheck(t) \/ Publish(t) \/ Release(t) \/ Send(t) \/ Die(t)

AwaitStep(r) ==
  Receive(r) \/ (\E why \in {"cancelled", "timeout"} : Stop(r, why)) \/ GiveUp(r)

Next ==
  \/ \E r \in Runs :
       \/ BeginRun(r) \/ EndRun(r) \/ Cancel(r) \/ AwaitStep(r)
       \/ \E k \in Calls[r] : Refuse(r, k) \/ (\E t \in Threads : Spawn(r, k, t))
  \/ \E t \in Threads : ThreadStep(t) \/ Write(t) \/ Read(t)

Spec == Init /\ [][Next]_vars

\* Timers fire and threads outside a kernel call make progress.  Nothing is
\* assumed of the tool itself: a thread in "work" may hang forever.
Fairness ==
  /\ \A r \in Runs : WF_vars(AwaitStep(r))
  /\ \A t \in Threads : WF_vars(ThreadStep(t))

FairSpec == Spec /\ Fairness

-----------------------------------------------------------------------------
(* Properties.                                                             *)

TypeOK ==
  /\ stage \in [Runs -> {"off", "ready", "await", "settle"}]
  /\ cancelled \in [Runs -> BOOLEAN]
  /\ call \in [Runs -> Kinds]
  /\ thread \in [Runs -> Threads \union {None}]
  /\ stopped \in [Runs -> {"none", "cancelled", "timeout"}]
  /\ mail \in [Runs -> Receipts]
  /\ report \in [Runs -> Receipts]
  /\ pc \in [Threads -> {"free", "poll", "try", "recheck", "work", "publish", "release", "send"}]
  /\ kind \in [Threads -> Kinds]
  /\ told \in [Threads -> BOOLEAN]
  /\ result \in [Threads -> Receipts]
  /\ gate \in [Gates -> Threads \union {None}]
  /\ poisoned \in [Gates -> BOOLEAN]
  /\ uncertain \in BOOLEAN
  /\ doubtful \in [Gates -> BOOLEAN]

Writing(t) == kind[t] # "read" /\ pc[t] \in {"work", "publish", "release"}

\* A gate whose last writer left with an unknown outcome never admits another
\* one ("another session must not start writing in the gap", src/tools.rs
\* execute_cancellable), nor does a poisoned one.
NoWriteAfterDoubt ==
  \A g \in Gates : doubtful[g] => ~\E t \in Threads : Writing(t) /\ kind[t] = g

\* A write nobody waits for any more runs only in a quarantined process:
\* await_tool_worker never abandons a write silently.
OrphanWriterQuarantined ==
  \A t \in Threads :
    Writing(t) /\ (\A r \in Runs : thread[r] # t) => uncertain

\* What a run records of an external write is what happened: "ok" only for a
\* committed write, "error", "cancelled" and "timeout" only for one that left
\* nothing behind, and everything else with the process quarantined.
TruthfulReport ==
  \A r \in Runs :
    CASE report[r].outcome = "none" -> TRUE
      [] report[r].outcome = "ok" -> report[r].effect = "done"
      [] report[r].outcome \in {"error", "cancelled", "timeout"} -> report[r].effect = "none"
      [] OTHER -> uncertain

\* Only the gates' own threads hold them, each at most one thread.
OneWriterPerGate ==
  \A t, u \in Threads : Writing(t) /\ Writing(u) /\ kind[t] = kind[u] => t = u

\* Every awaited call returns to its run, even when its thread hangs in the
\* kernel (the deadline and the one second settle wait bound it); and a thread
\* whose run stopped waiting while it was queued at a gate ends and returns its
\* permit, however long the gate's holder takes.
CallsEnd ==
  /\ \A r \in Runs : stage[r] \in {"await", "settle"} ~> stage[r] \notin {"await", "settle"}
  /\ \A t \in Threads : pc[t] \in {"poll", "try"} /\ told[t] ~> pc[t] = "free"

\* Who changes files, or the database, behind each gate.
Writer ==
  [g \in Gates |->
     IF gate[g] # None /\ pc[gate[g]] \in {"work", "publish", "release"} THEN gate[g] ELSE None]

Quarantine == INSTANCE WriteQuarantine WITH writer <- Writer, quarantined <- uncertain

\* The gates keep the promise of WriteQuarantine.
ImplementsQuarantine == Quarantine!Spec
=============================================================================

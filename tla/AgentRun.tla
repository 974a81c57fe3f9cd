------------------------------ MODULE AgentRun ------------------------------
(***************************************************************************)
(* The loop of one run (src/agent.rs, run_session_controlled): requests to *)
(* the model until an accepted answer, a limit, a failure or a             *)
(* cancellation, and the runs that resume the task.  A document task is    *)
(* never stopped for lack of progress: it enters closing mode, and its     *)
(* saved document is finished with the gaps reported.                      *)
(*                                                                         *)
(* Abstracted: what a request or a tool does is a choice of its outcome;   *)
(* progress, a short budget, a full context and waiting settings are       *)
(* choices; only "out" remembers that the time or tokens of the run are    *)
(* spent.  Counters that decide nothing in a workflow stay at zero there.  *)
(***************************************************************************)
EXTENDS Integers, FiniteSets

CONSTANTS
  Workflows,           \* of {"answer", "source_document"}
  ClosingRounds,       \* CLOSING_ROUND_LIMIT
  CheckpointRequests,  \* CHECKPOINT_MAX_REQUESTS
  CheckpointFailures,  \* CHECKPOINT_MAX_FAILURES
  Outages,             \* waits in PROVIDER_OUTAGE_WAITS
  EmptyRetries,        \* EMPTY_COMPLETION_RETRIES
  EmptyToClose,        \* EMPTY_DOCUMENT_CLOSING
  Lengths,             \* LENGTH_RECOVERY_LIMIT
  FinalRetries,        \* FINALIZATION_RETRY_LIMIT
  StallRounds,         \* closing_stall_limit
  OutcomeRounds, SubstantiveRounds, ChurnRounds

ASSUME LimitsAssumption ==
  /\ Workflows \subseteq {"answer", "source_document"}
  /\ {ClosingRounds, CheckpointRequests, CheckpointFailures, EmptyRetries, EmptyToClose,
      Lengths, StallRounds, OutcomeRounds, SubstantiveRounds, ChurnRounds} \subseteq Nat \ {0}
  /\ {Outages, FinalRetries} \subseteq Nat

VARIABLES
  workflow,
  pc,         \* boundary, ladder, prepare, reply, settle, ended
  doc,        \* the output file: its state, whether it has a body, what an audit says
  plan,       \* an open to-do, unresolved items, the coverage check
  closing,
  cp,         \* the checkpoint
  stall,      \* the no-progress counters
  finals,     \* finalization_attempts
  retry,      \* what the next pass takes over from the last reply
  failure, status,
  gaps,       \* completion_gaps are not empty
  out, cancelled, uncertain,
  asked       \* history: answered requests of closing mode

env == <<out, cancelled, uncertain>>
vars == <<workflow, pc, doc, plan, closing, cp, stall, finals, retry, failure, status, gaps,
          env, asked>>

document == workflow = "source_document"
Audits == {"sound", "refused"}  \* refused: issues, or nothing cited
NotWritten == [state |-> "none", body |-> FALSE, audit |-> "refused"]
Changed == [state |-> "changed", body |-> FALSE, audit |-> "refused"]
Written == [state : {"saved"}, body : BOOLEAN, audit : Audits]
NoClosing == [on |-> FALSE, rounds |-> 0, finals |-> 0]
NoCheckpoint == [on |-> FALSE, attempts |-> 0, failures |-> 0]
NoRetry == [fresh |-> TRUE, counted |-> FALSE, empties |-> 0, lengths |-> 0, outages |-> 0,
            rejected |-> FALSE]

Capped(n, limit) == IF n > limit THEN limit ELSE n

Init ==
  /\ workflow \in Workflows
  /\ pc = "ended"
  /\ doc = NotWritten
  /\ plan = [todo |-> FALSE, unresolved |-> "none", covered |-> FALSE]
  /\ closing = NoClosing
  /\ cp = NoCheckpoint
  /\ stall = [best |-> 0, outcome |-> 0, substantive |-> 0, churn |-> 0]
  /\ finals = 0
  /\ retry = NoRetry
  /\ failure = FALSE
  /\ status = "idle"
  /\ gaps = FALSE
  /\ out = FALSE /\ cancelled = FALSE /\ uncertain = FALSE
  /\ asked = 0

-----------------------------------------------------------------------------
(* The ends of a run.                                                      *)

\* document_saved: this task wrote it, it has a body and nobody changed it.
Saved == doc.state = "saved" /\ doc.body

\* collect_gaps finds something.
Missing == plan.todo \/ plan.unresolved # "none" \/ doc.audit # "sound"

\* Mutant: any written document is finished.
CanForceWritten(c) == document /\ ~c.on /\ doc.state # "none"

CanForce(c) == document /\ ~c.on /\ Saved

Fail == pc' = "settle" /\ failure' = TRUE /\ UNCHANGED <<status, gaps>>

Accept ==
  /\ pc' = "settle"
  /\ gaps' = (document /\ Missing)
  /\ status' = IF document /\ Missing THEN "complete_with_gaps" ELSE "complete"
  /\ UNCHANGED failure

Partial == pc' = "settle" /\ status' = "partial" /\ UNCHANGED <<failure, gaps>>

\* force_finish, or the failure its caller reports.
ForceFinish(c) == IF CanForce(c) THEN Accept ELSE Fail

Continue(where) == pc' = where /\ UNCHANGED <<failure, status, gaps>>

\* can_resume.
Resumable ==
  \/ status \in {"blocked", "partial", "cancelled", "complete_with_gaps"}
  \/ cp.on \/ plan.todo \/ gaps

\* A resumed run has its own budget, ladder and closing; the counters of the
\* task go on.  With an unresolved write it ends at once.
Begin ==
  /\ pc = "ended"
  /\ status = "idle" \/ Resumable
  /\ IF uncertain
     THEN /\ status' = "blocked"
          /\ UNCHANGED <<pc, doc, closing, stall, failure, gaps>>
     ELSE /\ pc' = "boundary"
          /\ status' = "running"
          /\ doc' \in IF doc.state = "saved" THEN {doc, Changed} ELSE {doc}
          /\ closing' = NoClosing
          /\ stall' = [stall EXCEPT !.best = 0]
          /\ failure' \in BOOLEAN
          /\ gaps' = FALSE
  /\ UNCHANGED <<workflow, plan, cp, finals, retry, env, asked>>

\* What the run leaves says how it ended.
Settle ==
  /\ pc = "settle"
  /\ pc' = "ended"
  /\ status' = CASE uncertain -> "blocked"
                 [] ~uncertain /\ cancelled -> "cancelled"
                 [] ~uncertain /\ ~cancelled /\ failure -> "blocked"
                 [] OTHER -> status
  /\ retry' = NoRetry /\ failure' = FALSE
  /\ out' = FALSE /\ cancelled' = FALSE
  /\ asked' = 0
  /\ UNCHANGED <<workflow, doc, plan, closing, cp, stall, finals, gaps, uncertain>>

-----------------------------------------------------------------------------
(* Before a request.                                                       *)

\* Settings apply or stay pending; capacity, time and tokens are looked at,
\* and a request that would outlast the run is not begun.
Boundary ==
  /\ pc = "boundary"
  /\ IF failure \/ cancelled THEN Continue("settle")
     ELSE \/ Fail
          \/ out /\ ForceFinish(cp)
          \/ ~out /\ CanForce(cp) /\ Accept
          \/ ~out /\ Continue("ladder")
  /\ UNCHANGED <<workflow, doc, plan, closing, cp, stall, finals, retry, env, asked>>

\* The progress ladder, outside a checkpoint.  The first pass of a run and a
\* pass that resends a request count nothing.
Ladder ==
  /\ pc = "ladder"
  /\ IF cp.on
     THEN /\ Continue("prepare")
          /\ retry' = [retry EXCEPT !.fresh = FALSE, !.counted = FALSE]
          /\ UNCHANGED <<closing, stall>>
     ELSE \E progress, short \in BOOLEAN :
            LET best == IF progress \/ ~document THEN 0
                        ELSE IF retry.fresh THEN stall.best
                        ELSE Capped(stall.best + 1, StallRounds)
                on == closing.on \/ (document /\ (short \/ best >= StallRounds))
                counted == on /\ ~retry.fresh
                rounds == closing.rounds + (IF counted THEN 1 ELSE 0)
            IN /\ stall' = [stall EXCEPT !.best = best]
               /\ closing' = [closing EXCEPT !.on = on, !.rounds = rounds]
               /\ retry' = [retry EXCEPT !.fresh = FALSE, !.counted = counted]
               /\ IF rounds > ClosingRounds THEN ForceFinish(cp) ELSE Continue("prepare")
  /\ UNCHANGED <<workflow, doc, plan, cp, finals, env, asked>>

\* Mutant: a cleanup request that goes on gives a round back, too.
GiveBackAlways(opened) == closing.on /\ (opened \/ cp.on) /\ closing.rounds > 0

\* A checkpoint that opens here takes the request that was counted.
GiveBack(opened) == closing.on /\ opened /\ retry.counted

\* Mutant: the requests of a checkpoint are not counted against their limit.
ExhaustedByFailures(c) == c.on /\ c.failures >= CheckpointFailures

Exhausted(c) == c.on /\ (c.attempts >= CheckpointRequests \/ c.failures >= CheckpointFailures)

\* The request is built: a checkpoint may open, have no requests left or not
\* fit; budget and deadline are looked at once more.
Prepare ==
  /\ pc = "prepare"
  /\ \E opened \in IF cp.on THEN {FALSE} ELSE BOOLEAN :
       LET c == IF opened THEN [NoCheckpoint EXCEPT !.on = TRUE] ELSE cp
       IN /\ closing' = IF GiveBack(opened) THEN [closing EXCEPT !.rounds = @ - 1] ELSE closing
          /\ \/ Fail /\ cp' \in {cp, c}
             \/ ~Exhausted(c) /\ ForceFinish(c) /\ cp' = c
             \/ /\ ~Exhausted(c) /\ ~out
                /\ Continue("reply")
                /\ cp' = IF c.on THEN [c EXCEPT !.attempts = @ + 1] ELSE c
  /\ retry' = [retry EXCEPT !.counted = FALSE]
  /\ UNCHANGED <<workflow, doc, plan, stall, finals, env, asked>>

-----------------------------------------------------------------------------
(* The reply.  Nothing makes the provider answer; the deadline and a       *)
(* cancellation end the wait.                                              *)

Answered == asked' = IF closing.on /\ ~cp.on THEN asked + 1 ELSE asked

\* Mutant: the request has no deadline.
InterruptedByUser ==
  /\ pc = "reply" /\ cancelled
  /\ Fail
  /\ UNCHANGED <<workflow, doc, plan, closing, cp, stall, finals, retry, env, asked>>

\* The deadline falls, or the run is cancelled, while the request runs.
Interrupted ==
  /\ pc = "reply"
  /\ \/ cancelled /\ Fail
     \/ out /\ ForceFinish(cp)
  /\ UNCHANGED <<workflow, doc, plan, closing, cp, stall, finals, retry, env, asked>>

\* The provider is unavailable: wait and send again while waits and time are
\* left.
Outage ==
  /\ pc = "reply"
  /\ IF retry.outages < Outages
     THEN \/ /\ ~out
             /\ Continue("boundary")
             /\ retry' = [retry EXCEPT !.outages = @ + 1, !.fresh = TRUE]
             /\ cp' = IF cp.on THEN [cp EXCEPT !.attempts = @ - 1] ELSE cp
          \/ ForceFinish(cp) /\ UNCHANGED <<retry, cp>>
     ELSE Fail /\ UNCHANGED <<retry, cp>>
  /\ UNCHANGED <<workflow, doc, plan, closing, stall, finals, env, asked>>

\* Any other error of the request ends the run.
Error ==
  /\ pc = "reply"
  /\ Fail
  /\ Answered
  /\ UNCHANGED <<workflow, doc, plan, closing, cp, stall, finals, retry, env>>

\* A batch refused before any call of it ran: document work goes on, an
\* answer has one retry until a batch runs.
Rejected ==
  /\ pc = "reply"
  /\ Answered
  /\ IF document \/ ~retry.rejected
     THEN /\ Continue("boundary")
          /\ retry' \in {[retry EXCEPT !.rejected = ~document],
                         [retry EXCEPT !.rejected = ~document, !.outages = 0, !.empties = 0,
                                       !.lengths = 0]}
     ELSE Fail /\ UNCHANGED retry
  /\ UNCHANGED <<workflow, doc, plan, closing, cp, stall, finals, env>>

\* A reply without text and calls.  Document work enters closing.
Empty ==
  /\ pc = "reply"
  /\ Answered
  /\ LET n == retry.empties + 1 IN
     /\ retry' = [retry EXCEPT !.outages = 0,
                               !.empties = Capped(n, IF document THEN EmptyToClose
                                                     ELSE EmptyRetries + 1)]
     /\ closing' = IF document /\ n >= EmptyToClose /\ ~closing.on
                   THEN [NoClosing EXCEPT !.on = TRUE] ELSE closing
     /\ IF document \/ n <= EmptyRetries THEN Continue("boundary") ELSE Fail
  /\ UNCHANGED <<workflow, doc, plan, cp, stall, finals, env>>

\* A reply cut at the output limit; its calls are discarded.
Cut ==
  /\ pc = "reply"
  /\ Answered
  /\ LET n == IF document THEN 0 ELSE retry.lengths + 1 IN
     /\ retry' = [retry EXCEPT !.outages = 0, !.empties = 0, !.lengths = n]
     /\ IF n >= Lengths THEN Fail ELSE Continue("boundary")
  /\ UNCHANGED <<workflow, doc, plan, closing, cp, stall, finals, env>>

Complete == [retry EXCEPT !.outages = 0, !.empties = 0, !.lengths = 0]

-----------------------------------------------------------------------------
(* A final answer.                                                         *)

\* What the final checks find: the file as this task wrote it, and for a
\* document one that was written, passes its audit and cites its sources.
Passes ==
  /\ doc.state # "changed"
  /\ document => doc.state = "saved" /\ doc.audit = "sound"

\* An open to-do sends the answer back; only an answer task counts that.
OpenTodo ==
  LET n == Capped(stall.outcome + 1, OutcomeRounds) IN
  /\ stall' = IF document THEN stall ELSE [stall EXCEPT !.outcome = n]
  /\ IF ~document /\ n >= OutcomeRounds THEN Partial ELSE Continue("boundary")
  /\ UNCHANGED <<plan, finals>>

Refused ==
  /\ IF document \/ finals < FinalRetries
     THEN Continue("boundary") /\ finals' = IF document THEN finals ELSE finals + 1
     ELSE Partial /\ UNCHANGED finals
  /\ UNCHANGED <<plan, stall>>

\* A document's first final is compared with the request.
CoverageOwed == document /\ ~closing.on /\ ~plan.covered

\* Unresolved items are shown once before they are reported.
UnresolvedOwed(accept) == document /\ ~accept /\ plan.unresolved = "unseen"

Judge(accept) ==
  IF ~Passes /\ ~accept THEN Refused
  ELSE /\ IF CoverageOwed
          THEN Continue("boundary") /\ plan' = [plan EXCEPT !.covered = TRUE]
          ELSE IF UnresolvedOwed(accept)
          THEN Continue("boundary") /\ plan' = [plan EXCEPT !.unresolved = "shown"]
          ELSE Accept /\ UNCHANGED plan
       /\ UNCHANGED <<stall, finals>>

\* In closing the second final of a saved document is accepted with its gaps,
\* and open to-dos of a written one are reported, not refused.
Final ==
  /\ pc = "reply"
  /\ Answered
  /\ retry' = Complete
  /\ closing' = IF closing.on /\ ~cp.on THEN [closing EXCEPT !.finals = Capped(@ + 1, 2)] ELSE closing
  /\ IF cp.on THEN Continue("boundary") /\ UNCHANGED <<plan, stall, finals>>
     ELSE \/ /\ ~closing.on
             /\ IF document THEN Continue("boundary") ELSE Fail
             /\ UNCHANGED <<plan, stall, finals>>
          \/ LET accept == document /\ closing.on /\ closing'.finals >= 2 /\ Saved
                 reported == closing.on /\ doc.state # "none"
             IN IF plan.todo /\ ~accept /\ ~reported THEN OpenTodo ELSE Judge(accept)
  /\ UNCHANGED <<workflow, doc, cp, env>>

-----------------------------------------------------------------------------
(* A batch of calls.                                                       *)

\* What a batch brought an answer task; every other combination moves the
\* counters like one of these.
Gains == {{}, {"navigation"}, {"plan"}, {"evidence"}, {"artifact"}, {"artifact", "milestone"}}

Brings(gain, kinds) == gain \cap kinds # {}

Counted(n, limit) == IF cp.on THEN n ELSE Capped(n + 1, limit)

Stalled(gain) ==
  [stall EXCEPT
     !.outcome = IF gain # {} THEN 0 ELSE Counted(@, OutcomeRounds),
     !.substantive = IF Brings(gain, {"artifact", "evidence"}) THEN 0
                     ELSE Counted(@, SubstantiveRounds),
     !.churn = IF Brings(gain, {"plan", "milestone", "evidence"}) THEN 0
               ELSE IF "artifact" \in gain THEN Counted(@, ChurnRounds) ELSE @]

Stuck(s) ==
  /\ ~document /\ ~cp.on
  /\ s.outcome >= OutcomeRounds \/ s.substantive >= SubstantiveRounds \/ s.churn >= ChurnRounds

\* The calls' effects on the files, the plan and the unresolved items.
Effects ==
  /\ doc' \in {doc} \union
       (IF document THEN Written ELSE {[state |-> "saved", body |-> TRUE, audit |-> "sound"]})
  /\ \E todo \in BOOLEAN :
       \E open \in IF document THEN {"none", "unseen", plan.unresolved} ELSE {"none"} :
         plan' = [plan EXCEPT !.todo = todo, !.unresolved = open]
  /\ \E gain \in IF document THEN {{}} ELSE Gains :
       /\ "plan" \in gain => plan.todo
       /\ stall' = IF document THEN stall ELSE Stalled(gain)
       /\ finals' = IF "artifact" \in gain THEN 0 ELSE finals

\* A failed batch counts once.
CheckpointAfter(held) ==
  IF held THEN [cp EXCEPT !.failures = @ + 1] ELSE cp

\* Calls run to their end.  A failed call holds the checkpoint, an
\* acknowledged one commits, and a cancellation keeps it.
Batch ==
  /\ pc = "reply"
  /\ Answered
  /\ retry' = [Complete EXCEPT !.rejected = FALSE]
  /\ Effects
  /\ uncertain' \in BOOLEAN
  /\ \/ Fail /\ UNCHANGED cp
     \/ /\ ~uncertain' /\ ~out
        /\ \E how \in IF cp.on THEN {"open", "held", "acknowledged"} ELSE {"open"} :
             /\ cp' = IF how = "acknowledged" /\ ~cancelled THEN NoCheckpoint
                      ELSE CheckpointAfter(how = "held")
             /\ IF cancelled THEN Continue("settle")
                ELSE IF Stuck(stall') THEN Partial
                ELSE Continue("boundary")
  /\ UNCHANGED <<workflow, closing, out, cancelled>>

-----------------------------------------------------------------------------
(* The clock; the user and other programs, where the loop next looks.      *)

Cancel ==
  /\ pc \in {"boundary", "reply", "settle"} /\ ~cancelled
  /\ cancelled' = TRUE
  /\ UNCHANGED <<workflow, pc, doc, plan, closing, cp, stall, finals, retry, failure, status,
                 gaps, out, uncertain, asked>>

TimeUp ==
  /\ pc \notin {"settle", "ended"} /\ ~out
  /\ out' = TRUE
  /\ UNCHANGED <<workflow, pc, doc, plan, closing, cp, stall, finals, retry, failure, status,
                 gaps, cancelled, uncertain, asked>>

ExternalEdit ==
  /\ pc = "reply" /\ doc.state = "saved"
  /\ doc' = Changed
  /\ UNCHANGED <<workflow, pc, plan, closing, cp, stall, finals, retry, failure, status,
                 gaps, env, asked>>

-----------------------------------------------------------------------------

Loop == Boundary \/ Ladder \/ Prepare \/ Interrupted \/ Settle

Next ==
  \/ Begin \/ Loop \/ Outage \/ Error \/ Rejected \/ Empty \/ Cut \/ Final \/ Batch
  \/ Cancel \/ TimeUp \/ ExternalEdit

\* The loop's own steps run and the run's time passes; no answer is owed.
Fairness == WF_vars(Loop) /\ WF_vars(TimeUp)

Spec == Init /\ [][Next]_vars /\ Fairness

-----------------------------------------------------------------------------

Statuses == {"idle", "running", "blocked", "cancelled", "partial", "complete",
             "complete_with_gaps"}

\* Types; a checkpoint never uses more requests or failures than it has.
TypeOK ==
  /\ workflow \in Workflows
  /\ pc \in {"boundary", "ladder", "prepare", "reply", "settle", "ended"}
  /\ doc \in {NotWritten, Changed} \union Written
  /\ plan \in [todo : BOOLEAN, unresolved : {"none", "unseen", "shown"}, covered : BOOLEAN]
  /\ closing \in [on : BOOLEAN, rounds : 0 .. ClosingRounds + 1, finals : 0 .. 2]
  /\ cp \in [on : BOOLEAN, attempts : 0 .. CheckpointRequests, failures : 0 .. CheckpointFailures]
  /\ stall \in [best : 0 .. StallRounds, outcome : 0 .. OutcomeRounds,
                substantive : 0 .. SubstantiveRounds, churn : 0 .. ChurnRounds]
  /\ finals \in 0 .. FinalRetries
  /\ retry \in [fresh : BOOLEAN, counted : BOOLEAN, empties : Nat, lengths : 0 .. Lengths,
                outages : 0 .. Outages, rejected : BOOLEAN]
  /\ failure \in BOOLEAN /\ status \in Statuses /\ gaps \in BOOLEAN
  /\ out \in BOOLEAN /\ cancelled \in BOOLEAN /\ uncertain \in BOOLEAN
  /\ asked \in Nat

\* An ended run says what it leaves (agent.rs, force_finish and the final
\* checks): a run with an unresolved write is blocked; a complete document is
\* this task's own unchanged file without audit issues, open to-dos or
\* unresolved items; one with gaps has some of these to report; nothing is
\* complete with a checkpoint pending, and no complete answer leaves a to-do.
HonestEnd ==
  pc = "ended" =>
    /\ status # "running"
    /\ uncertain => status = "blocked"
    /\ status \in {"complete", "complete_with_gaps"} => ~cp.on /\ doc.state # "changed"
    /\ status = "complete" => ~plan.todo
    /\ document /\ status = "complete" => doc.state = "saved" /\ ~Missing
    /\ status = "complete_with_gaps" => doc.state = "saved" /\ Missing /\ gaps

\* Closing is short (agent.rs, CLOSING_ROUND_LIMIT): the provider answers at
\* most one request more than the limit in it, whatever checkpoints, outages,
\* refused answers and empty replies come between.
ClosingBounded == asked <= ClosingRounds + 1

\* Every run ends (agent.rs, run_deadline), though the provider may never
\* answer and document work is never stopped for lack of progress.
RunEnds == pc # "ended" ~> pc = "ended"
=============================================================================

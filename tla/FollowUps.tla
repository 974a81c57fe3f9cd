----------------------------- MODULE FollowUps -----------------------------
(***************************************************************************)
(* A message sent to a session that has a task: it is routed by the model  *)
(* to work on the task, to a discussion of it or to another session        *)
(* (agent/question/routing.rs), or asked as a question, and answered from  *)
(* a private copy of the session (agent/question.rs).  The task it         *)
(* interrupts is suspended (session.rs), and the run is recorded           *)
(* (session/run_history.rs).  The model may reply anything.                *)
(***************************************************************************)
EXTENDS Integers, Sequences

CONSTANTS MaxRounds,     \* bound: model requests of one session
          MaxEvidence,   \* bound: sources one session holds
          MaxAttempts    \* MAX_ATTEMPTS of the routing

ASSUME FollowUpsAssumption ==
  MaxRounds \in Nat \ {0} /\ MaxEvidence \in Nat /\ MaxAttempts \in Nat \ {0}

VARIABLES session,   \* what the agent's session holds
          question,  \* the pending message with what it interrupted
          pc, attempt, unanswered, feedback,
          work,      \* sources of the private copy that answers
          cancel,    \* the user cancelled the run
          owner,     \* the session the web server shows: the last snapshot
          record,    \* the run being recorded, and the last one recorded
          before     \* the suspended task as the message found it

vars == <<session, question, pc, attempt, unanswered, feedback, work, cancel, owner, record, before>>

Statuses == {"blocked", "cancelled", "complete", "partial", "running"}
Checkpoints == {"none", "fresh", "tried"}

\* goal: revisions of the requirements; unfinished: the ledger, continuation,
\* guidance and recovery counters of the interrupted work; sources: delivered
\* evidence; results: tool results kept in the message's bundle.
Sessions == [goal : 0..1, revision : 0..1, checkpoint : Checkpoints, unfinished : BOOLEAN,
             status : Statuses, rounds : 0..MaxRounds, sources : 0..MaxEvidence,
             results : 0..MaxEvidence, answered : BOOLEAN]
Work(s) == <<s.goal, s.revision, s.checkpoint, s.unfinished>>
Task(s) == [work |-> Work(s), status |-> s.status, rounds |-> s.rounds]

NoQuestion == [kind |-> "none", status |-> "complete", rounds |-> 0]
Reasons == Statuses \cup {"none", "panic"}
Kinds == {"asked", "resume", "free"}     \* a free message, one that only resumes, a question
Phases == {"idle", "start", "routing", "classify", "answer", "reply", "working"}
Idle == [now |-> "none", last |-> "none", reason |-> "none"]
Workflows == {"none", "message_routing", "follow_up", "task"}

Questions == [kind : Kinds \cup {"none"}, status : Statuses, rounds : 0..MaxRounds]

TypeOK ==
  /\ session \in Sessions /\ question \in Questions /\ pc \in Phases
  /\ owner \in [session : Sessions, question : Questions, run : Workflows]
  /\ record \in [now : Workflows, last : Workflows, reason : Reasons]
  /\ attempt \in 0..MaxAttempts /\ unanswered \in 0..1 /\ feedback \in BOOLEAN /\ cancel \in BOOLEAN
  /\ work \in 0..MaxEvidence

Init ==
  /\ session \in [goal : {0}, revision : {0}, checkpoint : Checkpoints, unfinished : BOOLEAN,
                  status : Statuses \ {"running"}, rounds : {0, 1}, sources : {0}, results : {0},
                  answered : {FALSE}]
  /\ question = NoQuestion /\ pc = "idle" /\ attempt = 0 /\ unanswered = 0 /\ feedback = FALSE
  /\ work = 0 /\ cancel = FALSE /\ record = Idle /\ before = Task(session)
  /\ owner = [session |-> session, question |-> NoQuestion, run |-> "none"]

\* What the web server is sent.
Snapshot(s, q, run) == owner' = [session |-> s, question |-> q, run |-> run]

\* The message is queued; the run starts and is recorded from here on.
Send(kind) ==
  LET q == [kind |-> kind, status |-> session.status, rounds |-> session.rounds]
      s == [session EXCEPT !.status = "running"]
      run == IF kind = "asked" THEN "follow_up" ELSE "message_routing"
  IN /\ pc = "idle" /\ session.rounds < MaxRounds
     /\ question' = q /\ session' = s /\ before' = Task(session) /\ pc' = "start"
     /\ record' = [record EXCEPT !.now = run] /\ Snapshot(s, q, run)
     /\ cancel' = FALSE /\ attempt' = 0 /\ unanswered' = 0 /\ feedback' = FALSE
     /\ UNCHANGED work

\* Mutant: the count of requests is not put back.
RestoreStatus(s, q) == [s EXCEPT !.status = q.status]

\* The suspended task comes back as it was.
Restore(s, q) == [s EXCEPT !.status = q.status, !.rounds = q.rounds]

\* The run ends: it is recorded as what it became, and the task restored.  A
\* cancellation is seen here even when it came after the last check for one.
Recorded(run, outcome) == record' = [now |-> "none", last |-> run,
                                     reason |-> IF cancel THEN "cancelled" ELSE outcome]
Finish(s, outcome, run) ==
  /\ session' = Restore(s, question) /\ question' = NoQuestion /\ pc' = "idle"
  /\ Recorded(run, outcome) /\ Snapshot(Restore(s, question), NoQuestion, "none")
  /\ UNCHANGED <<attempt, unanswered, feedback, cancel, before>>
End(s, outcome) == Finish(s, outcome, record.now) /\ UNCHANGED work

\* Settings that do not fit, a cancellation, the deadline, a limit or an error
\* of the provider stop the run wherever it is.
Fail == pc \in {"start", "routing", "classify", "answer", "reply"} /\ End(session, "blocked")

Cancel ==
  /\ pc # "idle" /\ cancel' = TRUE
  /\ UNCHANGED <<session, question, pc, attempt, unanswered, feedback, work, owner, record, before>>

\* The agent's task panics: the owner's last snapshot stands.
Panic ==
  LET s == [owner.session EXCEPT !.status = "blocked"]
  IN /\ pc # "idle"
     /\ session' = IF owner.question.kind = "none" THEN s ELSE Restore(s, owner.question)
     /\ question' = NoQuestion /\ pc' = "idle"
     /\ record' = [now |-> "none", last |-> owner.run, reason |-> "panic"]
     /\ owner' = [session |-> session', question |-> NoQuestion, run |-> "none"]
     /\ UNCHANGED <<attempt, unanswered, feedback, work, cancel, before>>

\* The private copy an answer works on holds no checkpoint and no plan.
Private == work' = session.sources

Begin ==
  /\ pc = "start" /\ pc' = IF question.kind = "asked" THEN "answer" ELSE "routing"
  /\ (IF question.kind = "asked" THEN Private ELSE UNCHANGED work)
  /\ Snapshot(session, question, record.now)
  /\ UNCHANGED <<session, question, attempt, unanswered, feedback, cancel, record, before>>

\* The message becomes work of the task: a new goal drops nothing but what the
\* unfinished work left, and a checkpoint starts over.
Amended(s, changes) ==
  [s EXCEPT !.goal = IF changes THEN 1 ELSE @, !.revision = 1, !.unfinished = FALSE,
            !.checkpoint = IF @ = "tried" THEN "fresh" ELSE @]
Accept(changes) ==
  /\ session' = Amended(session, changes) /\ question' = NoQuestion /\ pc' = "working"
  /\ record' = [record EXCEPT !.now = "task"]
  /\ UNCHANGED <<attempt, unanswered, feedback, work, cancel, owner, before>>

\* A message that only resumes needs no classification.
ResumeWork == pc = "routing" /\ question.kind = "resume" /\ attempt = 0 /\ Accept(FALSE)

\* One request to the model, counted when it is sent.
Ask(from, to) ==
  /\ pc = from /\ ~cancel /\ session.rounds < MaxRounds
  /\ Snapshot(session, question, record.now)
  /\ session' = [session EXCEPT !.rounds = @ + 1] /\ pc' = to
  /\ UNCHANGED <<question, unanswered, feedback, work, cancel, record, before>>
Classify ==
  /\ question.kind # "resume" /\ attempt < MaxAttempts /\ attempt' = attempt + 1
  /\ Ask("routing", "classify")

\* No answer: once more with less context, then the run gives up.
Unanswered(from, to) ==
  /\ pc = from
  /\ IF unanswered = 1 \/ (from = "classify" /\ attempt = MaxAttempts)
     THEN End(session, "blocked")
     ELSE /\ unanswered' = 1 /\ pc' = to
          /\ UNCHANGED <<session, question, attempt, feedback, work, cancel, owner, record, before>>

\* A reply that is no valid classification is fed back; it grants nothing.
Invalid ==
  /\ pc = "classify"
  /\ IF attempt = MaxAttempts THEN End(session, "blocked")
     ELSE /\ feedback' = TRUE /\ pc' = "routing"
          /\ UNCHANGED <<session, question, attempt, unanswered, work, cancel, owner, record, before>>

\* Work needs the words of this message, changes need the whole goal, and the
\* requirements have to fit; anything else is invalid.
Verdict(intent, quoted, changes) ==
  /\ pc = "classify"
  /\ CASE intent = "work" /\ quoted /\ changes # "partial" -> Accept(changes = "full")
       [] intent = "discuss" /\ changes = "none" ->
            /\ record' = [record EXCEPT !.now = "follow_up"] /\ pc' = "answer" /\ Private
            /\ unanswered' = 0
            /\ UNCHANGED <<session, question, attempt, feedback, cancel, owner, before>>
       [] intent = "new_task" /\ changes = "none" ->
            /\ Finish([session EXCEPT !.answered = TRUE], "complete", "follow_up")
            /\ UNCHANGED work
       [] OTHER -> Invalid

AskAnswer == Ask("answer", "reply") /\ UNCHANGED attempt

\* The answer's text is stored, whole or cut, if history holds it.
Answer(cut) ==
  /\ pc = "reply" /\ End([session EXCEPT !.answered = TRUE], IF cut THEN "blocked" ELSE "complete")

\* The sources of the copy and the results that cite them: both, or neither.
Stored(s, sources, fits) ==
  IF fits THEN [s EXCEPT !.sources = sources, !.results = sources] ELSE s

\* A batch of read tools runs on the copy, call after call; `found` sources
\* come in and are stored, or the run ends.  A batch with any tool that is not
\* allowed runs no call at all.
ToolBatch(found, allowed, fits) ==
  LET s == Stored(session, work + found, fits)
  IN /\ pc = "reply" /\ work + found <= MaxEvidence
     /\ IF question.kind = "asked" \/ ~allowed THEN End(session, "blocked")
        ELSE /\ work' = work + found
             /\ IF ~fits THEN Finish(s, "blocked", record.now)
                ELSE /\ session' = s /\ unanswered' = 0 /\ pc' = "answer"
                     /\ UNCHANGED <<question, attempt, feedback, cancel, owner, record, before>>

\* The task's own run (AgentRun), as far as a later message meets it.
Working ==
  /\ pc = "working" /\ owner.run # "task" /\ Snapshot(session, NoQuestion, "task")
  /\ UNCHANGED <<session, question, pc, attempt, unanswered, feedback, work, cancel, record, before>>
WorkEnds(status, cp, left) ==
  LET s == [session EXCEPT !.status = status, !.checkpoint = cp, !.unfinished = left]
  IN /\ pc = "working" /\ session' = s /\ pc' = "idle" /\ Recorded("task", status)
     /\ Snapshot(s, NoQuestion, "none")
     /\ UNCHANGED <<question, attempt, unanswered, feedback, work, cancel, before>>

Next ==
  \/ \E kind \in Kinds : Send(kind)
  \/ Begin \/ ResumeWork \/ Classify \/ Invalid \/ AskAnswer
  \/ Unanswered("classify", "routing") \/ Unanswered("reply", "answer")
  \/ \E intent \in {"work", "discuss", "new_task"}, quoted \in BOOLEAN,
        changes \in {"none", "partial", "full"} : Verdict(intent, quoted, changes)
  \/ \E cut \in BOOLEAN : Answer(cut)
  \/ \E found \in 0..1, allowed, fits \in BOOLEAN : ToolBatch(found, allowed, fits)
  \/ \E status \in {"blocked", "complete"}, cp \in Checkpoints, left \in BOOLEAN :
        WorkEnds(status, cp, left)
  \/ Working \/ Fail \/ Cancel \/ Panic

Spec == Init /\ [][Next]_vars

---------------------------------------------------------------------------
\* A message that is not made work of the task leaves the task as it found it,
\* however its run ends, a panic included: the requirements and the checkpoint
\* all along, and the status and the count of rounds at its end.  And every
\* source it delivered is stored together with the result that cites it.
Untouched(s) == Work(s) = before.work
FollowUpKeepsTask ==
  /\ pc \in Phases \ {"idle", "working"} => Untouched(session)
  /\ pc = "idle" /\ record.last \in {"message_routing", "follow_up"} => Task(session) = before
  /\ session.sources = session.results /\ owner.session.sources = owner.session.results
=============================================================================

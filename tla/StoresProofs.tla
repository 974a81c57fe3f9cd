----------------------------- MODULE StoresProofs -----------------------------
(***************************************************************************)
(* Proofs about FollowUps, SessionTools, SessionSettings and History, as   *)
(* MCStores composes them, for any constants.                              *)
(*                                                                         *)
(* FollowUps: what the session and its pending message hold during the     *)
(* run is not enough: a panic falls back on the owner's copy, so that copy *)
(* has to be able to bring the same task back (Shown), also in the first   *)
(* moments of work, when the owner still shows the message.                *)
(*                                                                         *)
(* SessionTools: no selection is made twice, so one that the run has not   *)
(* heard of is in no copy but the owner's, which keeps it (Unheard); once  *)
(* the run has it, so have the snapshots from some point on, and the owner *)
(* waits for the first of them (Heard).                                    *)
(*                                                                         *)
(* SessionSettings: with nothing waiting the owner takes a snapshot as it  *)
(* is, so such a snapshot must show the settings saved last.  It does      *)
(* because what the owner, the queued snapshots and the run have in force  *)
(* ascends in that order (Ascending), what waits in a copy is newer than   *)
(* what is in force there (Sound), and queued commands are newer still     *)
(* (Newer).                                                                *)
(*                                                                         *)
(* History: a checkpoint reads its groups again when it is confirmed, so   *)
(* whatever happens between the two has to keep them where they are, and   *)
(* as they are (Named).  That the next request fits is settled where one   *)
(* is decided on (Promised), and a confirmation counts only when its batch *)
(* was saved (Acknowledged).                                               *)
(*                                                                         *)
(* Induction on places is on the set of those for which something holds: a *)
(* set of numbers that holds 0 and with each number the next one holds     *)
(* them all, for the least it left out could not have a number before it   *)
(* (LeastIs, Climb).                                                       *)
(***************************************************************************)
EXTENDS MCStores, TLAPS, WellFoundedInduction, SequenceTheorems

-----------------------------------------------------------------------------
\* FollowUps.

MessageRuns == {"message_routing", "follow_up"}
OfMessage == Phases \ {"idle", "working"}

\* The pending message knows the status and the count it interrupted.
Interrupted(q) == q.kind # "none" /\ q.status = before.status /\ q.rounds = before.rounds

Pending ==
  /\ pc \in OfMessage => /\ Work(session) = before.work /\ Interrupted(question)
                         /\ record.now \in MessageRuns
  /\ pc \notin OfMessage => question.kind = "none"
  /\ pc = "working" => record.now = "task"

\* The owner shows the message with the untouched task, or the work it became.
Shown ==
  /\ pc \in OfMessage => owner.run \in MessageRuns
  /\ pc = "working" => owner.run \in MessageRuns \cup {"task"}
  /\ pc # "idle" /\ owner.run \in MessageRuns =>
       Work(owner.session) = before.work /\ Interrupted(owner.question)

Cited == session.sources = session.results /\ owner.session.sources = owner.session.results

\* The task remembered is one.
Remembered == before = [work |-> before.work, status |-> before.status, rounds |-> before.rounds]

Returned == pc = "idle" /\ record.last \in MessageRuns => Task(session) = before

MessageInv == TypeOK /\ Pending /\ Shown /\ Cited /\ Remembered /\ Returned

-----------------------------------------------------------------------------
LEMMA Restored ==
  ASSUME NEW s \in Sessions, NEW q \in Questions
  PROVE  /\ Restore(s, q) \in Sessions /\ Work(Restore(s, q)) = Work(s)
         /\ Restore(s, q).status = q.status /\ Restore(s, q).rounds = q.rounds
         /\ Restore(s, q).sources = s.sources /\ Restore(s, q).results = s.results
BY DEF Restore, Sessions, Questions, Work

\* Any end of a message's run that kept the work and the citations brings the task back.
LEMMA Finished ==
  ASSUME MessageInv, pc \in OfMessage,
         NEW s \in Sessions, Work(s) = Work(session), s.sources = s.results,
         NEW outcome \in Reasons, NEW run \in Workflows, Finish(s, outcome, run),
         work' \in 0 .. MaxEvidence
  PROVE  MessageInv'
<1>1. session' = Restore(s, question) /\ session' \in Sessions /\ Work(session') = Work(s)
      /\ session'.status = question.status /\ session'.rounds = question.rounds
      /\ session'.sources = session'.results
  BY Restored DEF Finish, MessageInv, TypeOK
<1>2. NoQuestion \in Questions /\ NoQuestion.kind = "none"
  BY FollowUpsAssumption DEF NoQuestion, Questions, Statuses
<1>3. owner' = [session |-> session', question |-> NoQuestion, run |-> "none"]
  BY <1>1 DEF Finish, Snapshot
<1>4. record' \in [now : Workflows, last : Workflows, reason : Reasons]
  BY DEF Finish, Recorded, Workflows, Reasons, Statuses
<1>5. TypeOK'
  BY <1>1, <1>2, <1>3, <1>4 DEF Finish, MessageInv, TypeOK, Phases, Workflows
<1>6. Task(session') = before
  BY <1>1 DEF MessageInv, Pending, Interrupted, Remembered, Task, Finish
<1> QED
  BY <1>1, <1>2, <1>3, <1>5, <1>6
     DEF Finish, MessageInv, Pending, Shown, Cited, Remembered, Returned, OfMessage, MessageRuns

-----------------------------------------------------------------------------
LEMMA MessageInit == Init => MessageInv
<1> SUFFICES ASSUME Init PROVE MessageInv
  OBVIOUS
<1>1. NoQuestion \in Questions /\ NoQuestion.kind = "none"
  BY FollowUpsAssumption DEF NoQuestion, Questions, Statuses
<1>0. {0, 1} \subseteq 0 .. MaxRounds /\ 0 \in 0 .. MaxEvidence /\ 0 \in 0 .. MaxAttempts
  BY FollowUpsAssumption
<1>2. session \in Sessions /\ session.sources = session.results
  <2>1. {FALSE} \subseteq BOOLEAN /\ {0} \subseteq 0 .. 1 /\ {0} \subseteq 0 .. MaxEvidence
    BY <1>0
  <2> QED
    BY <1>0, <2>1, Zenon DEF Init, Sessions
<1>3. record \in [now : Workflows, last : Workflows, reason : Reasons] /\ record.last = "none"
  BY DEF Init, Idle, Workflows, Reasons
<1>4. owner \in [session : Sessions, question : Questions, run : Workflows]
      /\ owner.session = session
  BY <1>1, <1>2 DEF Init, Workflows
<1>5. TypeOK
  <2>1. feedback \in BOOLEAN /\ cancel \in BOOLEAN
    BY DEF Init
  <2> QED
    BY <1>0, <1>1, <1>2, <1>3, <1>4, <2>1 DEF Init, TypeOK, Phases
<1>6. Pending /\ Shown /\ Returned
  BY <1>1, <1>3 DEF Init, Pending, Shown, Returned, OfMessage, MessageRuns
<1>7. Cited /\ Remembered
  BY <1>2, <1>4 DEF Init, Cited, Remembered, Task
<1> QED
  BY <1>5, <1>6, <1>7 DEF MessageInv

\* What stays the same in a step that only goes on.
LEMMA GoesOn ==
  ASSUME MessageInv, NEW s \in Sessions, Work(s) = Work(session), s.sources = s.results,
         pc \in OfMessage, pc' \in OfMessage, session' = s, UNCHANGED <<question, before>>,
         \/ UNCHANGED owner
         \/ owner' = [session |-> session, question |-> question, run |-> record.now],
         record'.now \in MessageRuns,
         TypeOK'
  PROVE  MessageInv'
BY DEF MessageInv, Pending, Shown, Cited, Remembered, Returned, OfMessage, Interrupted, TypeOK

LEMMA SendInv == ASSUME MessageInv, NEW kind \in Kinds, Send(kind) PROVE MessageInv'
<1> DEFINE q == [kind |-> kind, status |-> session.status, rounds |-> session.rounds]
           s == [session EXCEPT !.status = "running"]
<1>1. q \in Questions /\ q.kind # "none"
  BY DEF MessageInv, TypeOK, Questions, Sessions, Kinds
<1>2. s \in Sessions /\ Work(s) = Work(session) /\ s.sources = session.sources
      /\ s.results = session.results
  BY DEF MessageInv, TypeOK, Sessions, Statuses, Work
<1>3. session' = s /\ question' = q /\ before' = Task(session) /\ pc' = "start"
  BY DEF Send
<1>4. PICK run \in MessageRuns : /\ record' = [record EXCEPT !.now = run]
                                 /\ owner' = [session |-> s, question |-> q, run |-> run]
  BY DEF Send, MessageRuns, Snapshot
<1>5. record' \in [now : Workflows, last : Workflows, reason : Reasons] /\ record'.now = run
  BY <1>4 DEF MessageInv, TypeOK, Workflows, MessageRuns
<1>6. TypeOK'
  <2>1. owner' \in [session : Sessions, question : Questions, run : Workflows]
    BY <1>1, <1>2, <1>4 DEF MessageRuns, Workflows
  <2>2. session' \in Sessions /\ question' \in Questions /\ pc' \in Phases
    BY <1>1, <1>2, <1>3 DEF Phases
  <2>3. attempt' \in 0 .. MaxAttempts /\ unanswered' \in 0 .. 1 /\ work' \in 0 .. MaxEvidence
    BY FollowUpsAssumption DEF Send, MessageInv, TypeOK
  <2>4. feedback' \in BOOLEAN /\ cancel' \in BOOLEAN
    BY DEF Send
  <2> QED
    BY <1>5, <2>1, <2>2, <2>3, <2>4 DEF TypeOK
<1>7. before' = [work |-> Work(s), status |-> q.status, rounds |-> q.rounds]
  BY <1>2, <1>3 DEF Task
<1>8. Work(s) = before'.work /\ q.status = before'.status /\ q.rounds = before'.rounds
  BY <1>7
<1>9. owner'.session = s /\ owner'.question = q /\ owner'.run = run
  BY <1>4
<1>10. s.sources = s.results
  BY <1>2 DEF MessageInv, Cited
<1> HIDE DEF q, s
<1>11. Pending' /\ Shown'
  BY <1>1, <1>3, <1>5, <1>8, <1>9 DEF Pending, Shown, Interrupted, OfMessage, Phases
<1>12. Cited' /\ Remembered' /\ Returned'
  BY <1>3, <1>7, <1>9, <1>10 DEF Cited, Remembered, Returned
<1> QED
  BY <1>6, <1>11, <1>12 DEF MessageInv

LEMMA ClassifyInv == ASSUME MessageInv, Classify \/ AskAnswer PROVE MessageInv'
<1> DEFINE s == [session EXCEPT !.rounds = @ + 1]
<1>1. pc \in OfMessage /\ pc' \in OfMessage /\ session' = s /\ session.rounds < MaxRounds
      /\ UNCHANGED <<question, before, unanswered, feedback, work, cancel, record>>
      /\ owner' = [session |-> session, question |-> question, run |-> record.now]
  BY DEF Classify, AskAnswer, Ask, OfMessage, Phases, Snapshot
<1>2. s \in Sessions /\ Work(s) = Work(session) /\ s.sources = session.sources
      /\ s.results = session.results
  BY <1>1, FollowUpsAssumption DEF MessageInv, TypeOK, Sessions, Work
<1>3. attempt' \in 0 .. MaxAttempts
  BY FollowUpsAssumption DEF Classify, AskAnswer, MessageInv, TypeOK
<1>4. TypeOK'
  BY <1>1, <1>2, <1>3 DEF MessageInv, TypeOK, OfMessage, Phases
<1> HIDE DEF s
<1> QED
  BY <1>1, <1>2, <1>4, GoesOn DEF MessageInv, Cited, Pending

LEMMA BeginInv == ASSUME MessageInv, Begin PROVE MessageInv'
<1>1. pc \in OfMessage /\ pc' \in OfMessage /\ work' \in 0 .. MaxEvidence
      /\ UNCHANGED <<session, question, before, attempt, unanswered, feedback, cancel, record>>
      /\ owner' = [session |-> session, question |-> question, run |-> record.now]
  BY DEF Begin, OfMessage, Phases, Snapshot, Private, MessageInv, TypeOK, Sessions
<1>2. TypeOK'
  BY <1>1 DEF MessageInv, TypeOK, OfMessage
<1> QED
  BY <1>1, <1>2, GoesOn DEF MessageInv, TypeOK, Cited, Pending

LEMMA EndInv ==
  ASSUME MessageInv, pc \in OfMessage, NEW outcome \in Reasons,
         NEW s \in Sessions, Work(s) = Work(session), s.sources = s.results, End(s, outcome)
  PROVE  MessageInv'
BY Finished DEF End, MessageInv, TypeOK

LEMMA InvalidInv == ASSUME MessageInv, Invalid PROVE MessageInv'
<1>1. CASE End(session, "blocked")
  BY <1>1, EndInv DEF Invalid, OfMessage, Phases, MessageInv, TypeOK, Cited, Reasons, Statuses
<1>2. CASE pc' = "routing" /\ feedback' = TRUE
           /\ UNCHANGED <<session, question, attempt, unanswered, work, cancel, owner, record, before>>
  <2>1. pc \in OfMessage /\ pc' \in OfMessage
    BY <1>2 DEF Invalid, OfMessage, Phases
  <2>2. TypeOK'
    BY <1>2, <2>1 DEF MessageInv, TypeOK, OfMessage
  <2> QED
    BY <1>2, <2>1, <2>2, GoesOn DEF MessageInv, TypeOK, Cited, Pending
<1> QED
  BY <1>1, <1>2 DEF Invalid

LEMMA UnansweredInv ==
  ASSUME MessageInv, NEW from \in {"classify", "reply"}, NEW to \in {"routing", "answer"},
         Unanswered(from, to)
  PROVE  MessageInv'
<1>1. pc \in OfMessage
  BY DEF Unanswered, OfMessage, Phases
<1>2. CASE End(session, "blocked")
  BY <1>1, <1>2, EndInv DEF MessageInv, TypeOK, Cited, Reasons, Statuses
<1>3. CASE unanswered' = 1 /\ pc' = to
           /\ UNCHANGED <<session, question, attempt, feedback, work, cancel, owner, record, before>>
  <2>1. pc' \in OfMessage
    BY <1>3 DEF OfMessage, Phases
  <2>2. TypeOK'
    BY <1>3, <2>1 DEF MessageInv, TypeOK, OfMessage
  <2> QED
    BY <1>1, <1>3, <2>1, <2>2, GoesOn DEF MessageInv, TypeOK, Cited, Pending
<1> QED
  BY <1>2, <1>3 DEF Unanswered

LEMMA AcceptInv ==
  ASSUME MessageInv, pc \in OfMessage, NEW changes \in BOOLEAN, Accept(changes)
  PROVE  MessageInv'
<1> DEFINE s == Amended(session, changes)
<1>1. s \in Sessions /\ s.sources = session.sources /\ s.results = session.results
  <2> DEFINE goal == IF changes THEN 1 ELSE session.goal
             kept == IF session.checkpoint = "tried" THEN "fresh" ELSE session.checkpoint
  <2>1. goal \in 0 .. 1 /\ kept \in Checkpoints
    BY DEF MessageInv, TypeOK, Sessions, Checkpoints
  <2>2. s = [session EXCEPT !.goal = goal, !.revision = 1, !.unfinished = FALSE, !.checkpoint = kept]
    BY DEF Amended, MessageInv, TypeOK, Sessions
  <2> HIDE DEF goal, kept, s
  <2>3. s.sources = session.sources /\ s.results = session.results
    BY <2>2 DEF MessageInv, TypeOK, Sessions
  <2>4. 1 \in 0 .. 1 /\ FALSE \in BOOLEAN
    OBVIOUS
  <2>5. s \in Sessions
    BY <2>1, <2>2, <2>4, Zenon DEF MessageInv, TypeOK, Sessions
  <2> QED
    BY <2>3, <2>5
<1>2. NoQuestion \in Questions /\ NoQuestion.kind = "none"
  BY FollowUpsAssumption DEF NoQuestion, Questions, Statuses
<1>3. session' = s /\ question' = NoQuestion /\ pc' = "working"
      /\ record' = [record EXCEPT !.now = "task"]
      /\ UNCHANGED <<attempt, unanswered, feedback, work, cancel, owner, before>>
  BY DEF Accept
<1>4. record' \in [now : Workflows, last : Workflows, reason : Reasons] /\ record'.now = "task"
  BY <1>3 DEF MessageInv, TypeOK, Workflows
<1> HIDE DEF s
<1>5. TypeOK'
  BY <1>1, <1>2, <1>3, <1>4 DEF MessageInv, TypeOK, Phases
<1>6. Pending' /\ Shown'
  BY <1>2, <1>3, <1>4 DEF MessageInv, Pending, Shown, Interrupted, OfMessage
<1>7. Cited' /\ Remembered' /\ Returned'
  BY <1>1, <1>3 DEF MessageInv, Cited, Remembered, Returned
<1> QED
  BY <1>5, <1>6, <1>7 DEF MessageInv

LEMMA VerdictInv ==
  ASSUME MessageInv, NEW intent, NEW quoted, NEW changes, Verdict(intent, quoted, changes)
  PROVE  MessageInv'
<1>1. pc \in OfMessage
  BY DEF Verdict, OfMessage, Phases
<1>2. CASE Accept(changes = "full")
  BY <1>1, <1>2, AcceptInv
<1>3. CASE /\ record' = [record EXCEPT !.now = "follow_up"] /\ pc' = "answer" /\ Private
           /\ unanswered' = 0
           /\ UNCHANGED <<session, question, attempt, feedback, cancel, owner, before>>
  <2>1. pc' \in OfMessage /\ work' \in 0 .. MaxEvidence
    BY <1>3 DEF OfMessage, Phases, Private, MessageInv, TypeOK, Sessions
  <2>2. record' \in [now : Workflows, last : Workflows, reason : Reasons]
        /\ record'.now \in MessageRuns
    BY <1>3 DEF MessageInv, TypeOK, Workflows, MessageRuns
  <2>3. TypeOK'
    BY <1>3, <2>1, <2>2 DEF MessageInv, TypeOK, OfMessage
  <2> QED
    BY <1>1, <1>3, <2>1, <2>2, <2>3, GoesOn DEF MessageInv, TypeOK, Cited
<1>4. CASE Finish([session EXCEPT !.answered = TRUE], "complete", "follow_up") /\ UNCHANGED work
  <2> DEFINE s == [session EXCEPT !.answered = TRUE]
  <2>1. s \in Sessions /\ Work(s) = Work(session) /\ s.sources = s.results
    BY DEF MessageInv, TypeOK, Sessions, Work, Cited
  <2>2. "complete" \in Reasons /\ "follow_up" \in Workflows /\ work' \in 0 .. MaxEvidence
    BY <1>4 DEF Reasons, Statuses, Workflows, MessageInv, TypeOK
  <2> QED
    BY <1>1, <1>4, <2>1, <2>2, Finished
<1>5. CASE Invalid
  BY <1>5, InvalidInv
<1> QED
  BY <1>2, <1>3, <1>4, <1>5 DEF Verdict

LEMMA AnswerInv == ASSUME MessageInv, NEW cut \in BOOLEAN, Answer(cut) PROVE MessageInv'
<1> DEFINE s == [session EXCEPT !.answered = TRUE]
           outcome == IF cut THEN "blocked" ELSE "complete"
<1>1. s \in Sessions /\ Work(s) = Work(session) /\ s.sources = s.results
  BY DEF MessageInv, TypeOK, Sessions, Work, Cited
<1>2. pc \in OfMessage /\ outcome \in Reasons /\ End(s, outcome)
  BY DEF Answer, OfMessage, Phases, Reasons, Statuses
<1> QED
  BY <1>1, <1>2, EndInv

LEMMA ToolBatchInv ==
  ASSUME MessageInv, NEW found \in 0 .. 1, NEW allowed \in BOOLEAN, NEW fits \in BOOLEAN,
         ToolBatch(found, allowed, fits)
  PROVE  MessageInv'
<1> DEFINE s == Stored(session, work + found, fits)
<1>1. pc \in OfMessage /\ work + found \in 0 .. MaxEvidence
  BY FollowUpsAssumption DEF ToolBatch, OfMessage, Phases, MessageInv, TypeOK
<1>2. s \in Sessions /\ Work(s) = Work(session) /\ s.sources = s.results
  BY <1>1 DEF Stored, MessageInv, TypeOK, Sessions, Work, Cited
<1>3. "blocked" \in Reasons
  BY DEF Reasons, Statuses
<1>4. CASE End(session, "blocked")
  BY <1>1, <1>3, <1>4, EndInv DEF MessageInv, TypeOK, Cited
<1>5. CASE work' = work + found /\ Finish(s, "blocked", record.now)
  <2>1. record.now \in Workflows
    BY DEF MessageInv, TypeOK
  <2> HIDE DEF s
  <2> QED
    BY <1>1, <1>2, <1>3, <1>5, <2>1, Finished
<1>6. CASE /\ work' = work + found /\ session' = s /\ unanswered' = 0 /\ pc' = "answer"
           /\ UNCHANGED <<question, attempt, feedback, cancel, owner, record, before>>
  <2>1. pc' \in OfMessage
    BY <1>6 DEF OfMessage, Phases
  <2> HIDE DEF s
  <2>2. TypeOK'
    BY <1>1, <1>2, <1>6, <2>1 DEF MessageInv, TypeOK, OfMessage
  <2> QED
    BY <1>1, <1>2, <1>6, <2>1, <2>2, GoesOn DEF MessageInv, Pending
<1> QED
  BY <1>4, <1>5, <1>6 DEF ToolBatch

LEMMA PanicInv == ASSUME MessageInv, Panic PROVE MessageInv'
<1> DEFINE s == [owner.session EXCEPT !.status = "blocked"]
<1>1. s \in Sessions /\ Work(s) = Work(owner.session) /\ s.sources = s.results
  BY DEF MessageInv, TypeOK, Sessions, Statuses, Work, Cited
<1>2. NoQuestion \in Questions /\ NoQuestion.kind = "none"
  BY FollowUpsAssumption DEF NoQuestion, Questions, Statuses
<1>3. pc # "idle" /\ pc' = "idle" /\ question' = NoQuestion
      /\ record' = [now |-> "none", last |-> owner.run, reason |-> "panic"]
      /\ owner' = [session |-> session', question |-> NoQuestion, run |-> "none"]
      /\ UNCHANGED <<attempt, unanswered, feedback, work, cancel, before>>
      /\ session' = IF owner.question.kind = "none" THEN s ELSE Restore(s, owner.question)
  BY DEF Panic
<1> HIDE DEF s
<1>4. owner.question \in Questions /\ owner.run \in Workflows
  BY DEF MessageInv, TypeOK
<1>5. session' \in Sessions /\ session'.sources = session'.results
  BY <1>1, <1>3, <1>4, Restored
<1>6. TypeOK'
  <2>1. record' \in [now : Workflows, last : Workflows, reason : Reasons]
    BY <1>3, <1>4 DEF Workflows, Reasons
  <2>2. owner' \in [session : Sessions, question : Questions, run : Workflows]
    BY <1>2, <1>3, <1>5 DEF Workflows
  <2> QED
    BY <1>2, <1>3, <1>5, <2>1, <2>2 DEF MessageInv, TypeOK, Phases
<1>7. ASSUME owner.run \in MessageRuns PROVE Task(session') = before
  <2>1. Work(owner.session) = before.work /\ Interrupted(owner.question)
    BY <1>3, <1>7 DEF MessageInv, Shown
  <2>2. Work(session') = before.work /\ session'.status = before.status
        /\ session'.rounds = before.rounds
    BY <1>1, <1>3, <1>4, <2>1, Restored DEF Interrupted
  <2> QED
    BY <2>2 DEF MessageInv, Remembered, Task
<1>8. record'.last = owner.run /\ owner'.session = session'
  BY <1>3
<1> QED
  BY <1>2, <1>3, <1>5, <1>6, <1>7, <1>8
     DEF MessageInv, Pending, Shown, Cited, Remembered, Returned, OfMessage

LEMMA WorkInv ==
  ASSUME MessageInv, NEW status \in {"blocked", "complete"}, NEW kept \in Checkpoints, NEW left \in BOOLEAN,
         Working \/ WorkEnds(status, kept, left)
  PROVE  MessageInv'
<1>1. NoQuestion \in Questions /\ NoQuestion.kind = "none"
  BY FollowUpsAssumption DEF NoQuestion, Questions, Statuses
<1>2. CASE Working
  <2>1. owner' = [session |-> session, question |-> NoQuestion, run |-> "task"]
    BY <1>2 DEF Working, Snapshot
  <2>2. owner' \in [session : Sessions, question : Questions, run : Workflows]
    BY <1>1, <2>1 DEF MessageInv, TypeOK, Workflows
  <2>3. owner'.session = session /\ owner'.run = "task"
    BY <2>1
  <2>4. TypeOK'
    BY <1>2, <2>2 DEF Working, MessageInv, TypeOK
  <2> QED
    BY <1>2, <2>3, <2>4
       DEF Working, MessageInv, Pending, Shown, Cited, Remembered, Returned, OfMessage, MessageRuns,
           Interrupted
<1>3. CASE WorkEnds(status, kept, left)
  <2> DEFINE s == [session EXCEPT !.status = status, !.checkpoint = kept, !.unfinished = left]
  <2>1. s \in Sessions /\ s.sources = s.results
    BY DEF MessageInv, TypeOK, Sessions, Statuses, Cited
  <2>2. pc = "working" /\ pc' = "idle" /\ session' = s
        /\ owner' = [session |-> s, question |-> NoQuestion, run |-> "none"]
        /\ UNCHANGED <<question, attempt, unanswered, feedback, work, cancel, before>>
    BY <1>3 DEF WorkEnds, Snapshot
  <2>3. record' \in [now : Workflows, last : Workflows, reason : Reasons] /\ record'.last = "task"
    BY <1>3 DEF WorkEnds, Recorded, Workflows, Reasons, Statuses
  <2> HIDE DEF s
  <2>4. owner' \in [session : Sessions, question : Questions, run : Workflows]
        /\ owner'.session = s
    BY <1>1, <2>1, <2>2 DEF Workflows
  <2>5. TypeOK'
    BY <2>1, <2>2, <2>3, <2>4 DEF MessageInv, TypeOK, Phases
  <2> QED
    BY <2>1, <2>2, <2>3, <2>4, <2>5
       DEF MessageInv, Pending, Shown, Cited, Remembered, Returned, OfMessage, MessageRuns
<1> QED
  BY <1>2, <1>3

LEMMA MessageNext == MessageInv /\ [Next]_vars => MessageInv'
<1> SUFFICES ASSUME MessageInv, [Next]_vars PROVE MessageInv'
  OBVIOUS
<1>1. CASE ResumeWork
  BY <1>1, AcceptInv DEF ResumeWork, OfMessage, Phases
<1>2. CASE Fail
  <2>1. pc \in OfMessage /\ "blocked" \in Reasons
    BY <1>2 DEF Fail, OfMessage, Phases, Reasons, Statuses
  <2> QED
    BY <1>2, <2>1, EndInv DEF Fail, MessageInv, TypeOK, Cited
<1>3. CASE Cancel
  <2>1. TypeOK'
    BY <1>3 DEF Cancel, MessageInv, TypeOK
  <2> QED
    BY <1>3, <2>1 DEF Cancel, MessageInv, Pending, Shown, Cited, Remembered, Returned, Interrupted
<1>4. CASE UNCHANGED vars
  BY <1>4 DEF vars, MessageInv, TypeOK, Pending, Shown, Cited, Remembered, Returned, Interrupted
<1>5. CASE Working
  <2>1. "blocked" \in {"blocked", "complete"} /\ "none" \in Checkpoints /\ FALSE \in BOOLEAN
    BY DEF Checkpoints
  <2> QED
    BY <1>5, <2>1, WorkInv
<1>6. ASSUME NEW kind \in Kinds, Send(kind) PROVE MessageInv'
  BY <1>6, SendInv
<1>7. CASE Begin \/ Classify \/ Invalid \/ AskAnswer \/ Panic
  BY <1>7, BeginInv, ClassifyInv, InvalidInv, PanicInv
<1>8. CASE Unanswered("classify", "routing") \/ Unanswered("reply", "answer")
  BY <1>8, UnansweredInv
<1>9. ASSUME NEW intent, NEW quoted, NEW changes, Verdict(intent, quoted, changes) PROVE MessageInv'
  BY <1>9, VerdictInv
<1>10. ASSUME NEW cut \in BOOLEAN, Answer(cut) PROVE MessageInv'
  BY <1>10, AnswerInv
<1>11. ASSUME NEW found \in 0 .. 1, NEW allowed \in BOOLEAN, NEW fits \in BOOLEAN,
              ToolBatch(found, allowed, fits)
       PROVE  MessageInv'
  BY <1>11, ToolBatchInv
<1>12. ASSUME NEW status \in {"blocked", "complete"}, NEW kept \in Checkpoints,
              NEW left \in BOOLEAN, WorkEnds(status, kept, left)
       PROVE  MessageInv'
  BY <1>12, WorkInv
<1> QED
  BY <1>1, <1>2, <1>3, <1>4, <1>5, <1>6, <1>7, <1>8, <1>9, <1>10, <1>11, <1>12 DEF Next

-----------------------------------------------------------------------------

-----------------------------------------------------------------------------
\* SessionTools.

\* What a copy will have in force once nothing waits in it.
Aim(copy) == IF copy.pending = None THEN copy.active ELSE copy.pending
Selections(copy) == {copy.active} \cup ({copy.pending} \ {None})
Fresh(copy) == latest \notin Selections(copy)
Shows(copy) == copy = Choice!Copy(latest, None)

ChoiceTyped ==
  /\ shown \in Choice!Copies /\ agent \in Choice!Copies
  /\ events \in Seq(Choice!Copies) /\ commands \in Seq(Choice!Valid)
  /\ latest \in {None} \cup Choice!Valid /\ said \in {"nothing", "unheard", "heard"}

\* Every selection a copy or the channel carries was made before.
Made ==
  /\ Selections(shown) \cup Selections(agent) \subseteq seen
  /\ \A k \in 1 .. Len(events) : Selections(events[k]) \subseteq seen

\* Commands wait for a run that goes on, and only while one is unheard.
Waiting ==
  /\ said # "unheard" \/ at = "ended" => commands = <<>>
  /\ said = "unheard" /\ at # "ended" => commands # <<>> /\ commands[Len(commands)] = latest

\* Without a choice in this run every copy aims at the earlier one.
Unspoken ==
  said = "nothing" /\ latest # None =>
    /\ Aim(shown) = latest
    /\ at # "idle" => Aim(agent) = latest
    /\ \A k \in 1 .. Len(events) : Aim(events[k]) = latest

\* One the run has not heard of is in no copy but the owner's, which keeps it.
Unheard ==
  said = "unheard" =>
    /\ latest # None /\ shown.pending = latest /\ Fresh(agent)
    /\ \A k \in 1 .. Len(events) : Fresh(events[k])

\* One it has heard is in the run's copy and in the snapshots from some point on.
Heard ==
  said = "heard" /\ latest # None =>
    /\ Shows(agent)
    /\ \A k \in 1 .. Len(events) : Shows(events[k]) \/ Fresh(events[k])
    /\ \A k, l \in 1 .. Len(events) : k < l /\ Shows(events[k]) => Shows(events[l])
    /\ \/ shown.pending = latest
       \/ Shows(shown) /\ \A k \in 1 .. Len(events) : Shows(events[k])

AtRest == at = "idle" => events = <<>> /\ said = "nothing"

ChoiceInv == ChoiceTyped /\ Made /\ Waiting /\ Unspoken /\ Unheard /\ Heard /\ AtRest

-----------------------------------------------------------------------------
LEMMA ChoiceFacts ==
  /\ None \notin Choice!Valid
  /\ \A names \in Choice!Valid : Choice!Normalize(names) = names
  /\ \A a \in Choice!Valid, p \in {None} \cup Choice!Valid :
       /\ Choice!Copy(a, p) \in Choice!Copies
       /\ Choice!Copy(a, p).active = a /\ Choice!Copy(a, p).pending = p
  /\ \A c \in Choice!Copies :
       /\ c.active \in Choice!Valid /\ c.pending \in {None} \cup Choice!Valid
       /\ c = Choice!Copy(c.active, c.pending)
BY NoToolsAssumption DEF Choice!Valid, Choice!Normalize, Choice!Copy, Choice!Copies

\* The last of a queue after an append, and the rest of one.
LEMMA QueueFacts ==
  ASSUME NEW S, NEW q \in Seq(S)
  PROVE  /\ Len(q) \in Nat
         /\ \A k \in 1 .. Len(q) : q[k] \in S
         /\ \A e \in S : /\ Append(q, e) \in Seq(S) /\ Append(q, e) # <<>>
                         /\ Len(Append(q, e)) = Len(q) + 1 /\ Append(q, e)[Len(q) + 1] = e
                         /\ \A k \in 1 .. Len(q) : Append(q, e)[k] = q[k]
         /\ q # <<>> => /\ Len(q) > 0 /\ Head(q) = q[1] /\ Tail(q) \in Seq(S)
                        /\ Len(Tail(q)) = Len(q) - 1
                        /\ \A k \in 1 .. Len(Tail(q)) : Tail(q)[k] = q[k + 1]
OBVIOUS

LEMMA ChoiceInit == ASSUME Choice!Init PROVE ChoiceInv
<1>1. PICK names \in Choice!Valid :
        /\ at = "idle" /\ shown = Choice!Copy(names, None) /\ agent = Choice!Copy(names, None)
        /\ commands = <<>> /\ events = <<>> /\ latest = names /\ said = "nothing" /\ seen = {names}
  BY DEF Choice!Init
<1>2. shown.active = names /\ shown.pending = None /\ agent = shown /\ shown \in Choice!Copies
  BY <1>1, ChoiceFacts
<1>3. Len(events) = 0 /\ events \in Seq(Choice!Copies) /\ commands \in Seq(Choice!Valid)
  BY <1>1
<1> QED
  BY <1>1, <1>2, <1>3
  DEF ChoiceInv, ChoiceTyped, Made, Waiting, Unspoken, Unheard, Heard, AtRest, Aim, Selections

\* A step of the run that moves no selection.
LEMMA ChoiceStill ==
  ASSUME ChoiceInv, UNCHANGED <<shown, agent, commands, events, latest, said, seen>>,
         (at' = "idle") <=> (at = "idle"), (at = "ended") <=> (at' = "ended")
  PROVE  ChoiceInv'
BY DEF ChoiceInv, ChoiceTyped, Made, Waiting, Unspoken, Unheard, Heard, AtRest, Aim, Selections,
       Fresh, Shows

LEMMA SelectAtRestKeeps ==
  ASSUME ChoiceInv, NEW names \in Choice!Valid, Choice!SelectAtRest(names) PROVE ChoiceInv'
<1>1. /\ at = "idle" /\ shown' = Choice!Copy(names, None) /\ latest' = names
      /\ seen' = seen \union {names}
      /\ UNCHANGED <<at, agent, commands, events, said>>
  BY DEF Choice!SelectAtRest
<1>2. events = <<>> /\ said = "nothing"
  BY <1>1 DEF ChoiceInv, AtRest
<1>3. shown'.active = names /\ shown'.pending = None /\ shown' \in Choice!Copies
  BY <1>1, ChoiceFacts
<1>4. Len(events') = 0
  BY <1>1, <1>2
<1>5. ChoiceTyped' /\ Made'
  BY <1>1, <1>3, <1>4 DEF ChoiceInv, ChoiceTyped, Made, Selections
<1> QED
  BY <1>1, <1>2, <1>3, <1>4, <1>5
  DEF ChoiceInv, Waiting, Unspoken, Unheard, Heard, AtRest, Aim

\* Nobody made this selection before, so no other copy has it.
LEMMA SelectWhileRunningKeeps ==
  ASSUME ~Repeats, ChoiceInv, NEW names \in Choice!Valid, Choice!SelectWhileRunning(names)
  PROVE  ChoiceInv'
<1>1. /\ at \in Choice!Stages /\ names \notin seen /\ commands' = Append(commands, names)
      /\ shown' = [shown EXCEPT !.pending = names] /\ latest' = names /\ said' = "unheard"
      /\ seen' = seen \union {names} /\ UNCHANGED <<at, agent, events>>
  BY DEF Choice!SelectWhileRunning, Choice!Running, Choice!Selectable
<1>2. at # "idle" /\ at # "ended" /\ names # None
  BY <1>1, ChoiceFacts DEF Choice!Stages
<1>3. /\ shown' \in Choice!Copies /\ shown'.active = shown.active /\ shown'.pending = names
  BY <1>1 DEF ChoiceInv, ChoiceTyped, Choice!Copies
<1>4. commands' \in Seq(Choice!Valid) /\ commands' # <<>> /\ commands'[Len(commands')] = names
  <2>1. commands \in Seq(Choice!Valid)
    BY DEF ChoiceInv, ChoiceTyped
  <2> QED
    BY <1>1, <2>1, QueueFacts
<1>5. ChoiceTyped' /\ Made'
  BY <1>1, <1>3, <1>4 DEF ChoiceInv, ChoiceTyped, Made, Selections
<1>6. Unheard'
  BY <1>1, <1>2, <1>3 DEF ChoiceInv, Made, Unheard, Fresh, Selections
<1> QED
  BY <1>1, <1>2, <1>4, <1>5, <1>6 DEF ChoiceInv, Waiting, Unspoken, Heard, AtRest

LEMMA ChoiceStartKeeps == ASSUME ChoiceInv, Choice!StartRun PROVE ChoiceInv'
<1>1. /\ at = "idle" /\ at' = "boundary" /\ agent' = shown
      /\ UNCHANGED <<shown, commands, events, latest, said, seen>>
  BY DEF Choice!StartRun
<1>2. said = "nothing"
  BY <1>1 DEF ChoiceInv, AtRest
<1>3. ChoiceTyped' /\ Made'
  BY <1>1 DEF ChoiceInv, ChoiceTyped, Made, Selections
<1>4. Unspoken'
  BY <1>1, <1>2 DEF ChoiceInv, Unspoken, Aim
<1> QED
  BY <1>1, <1>2, <1>3, <1>4 DEF ChoiceInv, Waiting, Unheard, Heard, AtRest

\* The run takes the last command, which is the latest choice.
LEMMA ChoiceConsumeKeeps == ASSUME ChoiceInv, Choice!ConsumeCommands PROVE ChoiceInv'
<1>1. /\ at = "boundary" /\ at' = "announce" /\ commands' = <<>>
      /\ agent' = IF commands = <<>> THEN agent
                  ELSE Choice!Copy(Choice!Normalize(commands[Len(commands)]), None)
      /\ said' = IF said = "unheard" THEN "heard" ELSE said
      /\ UNCHANGED <<shown, events, latest, seen>>
  BY DEF Choice!ConsumeCommands
<1>2. commands' \in Seq(Choice!Valid)
  BY <1>1
<1>3. CASE said # "unheard"
  <2>1. UNCHANGED <<shown, agent, commands, events, latest, said, seen>>
    BY <1>1, <1>3 DEF ChoiceInv, Waiting
  <2> QED
    BY <1>1, <2>1, ChoiceStill
<1>4. CASE said = "unheard"
  <2>1. /\ commands # <<>> /\ commands[Len(commands)] = latest /\ latest # None
        /\ latest \in Choice!Valid /\ shown.pending = latest
        /\ \A k \in 1 .. Len(events) : Fresh(events[k])
    BY <1>1, <1>4 DEF ChoiceInv, Waiting, Unheard, ChoiceTyped
  <2>2. agent' = Choice!Copy(latest, None)
    BY <1>1, <2>1, ChoiceFacts
  <2>3. agent' \in Choice!Copies /\ agent'.active = latest /\ agent'.pending = None
    BY <2>1, <2>2, ChoiceFacts
  <2>4. latest \in seen
    BY <2>1 DEF ChoiceInv, Made, Selections
  <2>5. ChoiceTyped' /\ Made'
    BY <1>1, <1>2, <1>4, <2>3, <2>4 DEF ChoiceInv, ChoiceTyped, Made, Selections
  <2>6. \A k \in 1 .. Len(events) : ~Shows(events[k])
    BY <2>1, ChoiceFacts DEF Fresh, Shows, Selections
  <2>7. Heard'
    BY <1>1, <2>1, <2>2, <2>6 DEF Heard, Shows, Fresh, Selections
  <2> QED
    BY <1>1, <1>4, <2>5, <2>7 DEF ChoiceInv, Waiting, Unspoken, Unheard, AtRest
<1> QED
  BY <1>3, <1>4

\* A snapshot is the run's copy behind those of before.
LEMMA SnapshotKeeps ==
  ASSUME ChoiceInv, events' = Append(events, agent),
         UNCHANGED <<shown, agent, latest, said, seen>>, at \notin {"idle", "ended"}, at' # "idle",
         IF at' = "ended" THEN commands' = <<>> ELSE UNCHANGED commands
  PROVE  ChoiceInv'
<1>1. events \in Seq(Choice!Copies) /\ agent \in Choice!Copies
  BY DEF ChoiceInv, ChoiceTyped
<1>2. /\ events' \in Seq(Choice!Copies) /\ Len(events) \in Nat
      /\ Len(events') = Len(events) + 1 /\ events'[Len(events) + 1] = agent
      /\ \A k \in 1 .. Len(events) : events'[k] = events[k]
  BY <1>1, QueueFacts
<1>3. \A k \in 1 .. Len(events') : k \in 1 .. Len(events) \/ k = Len(events) + 1
  BY <1>2
<1>4. commands' \in Seq(Choice!Valid)
  <2>1. <<>> \in Seq(Choice!Valid) /\ commands \in Seq(Choice!Valid)
    BY DEF ChoiceInv, ChoiceTyped
  <2> QED
    BY <2>1
<1>5. ChoiceTyped' /\ Made'
  BY <1>2, <1>3, <1>4 DEF ChoiceInv, ChoiceTyped, Made, Selections
<1>6. Unspoken'
  BY <1>2, <1>3 DEF ChoiceInv, Unspoken, Aim
<1>7. Unheard'
  BY <1>2, <1>3 DEF ChoiceInv, Unheard, Fresh, Selections
<1>8. Heard'
  <2> SUFFICES ASSUME said = "heard", latest # None PROVE Heard'
    BY DEF Heard
  <2>1. /\ Shows(agent) /\ \A k \in 1 .. Len(events) : Shows(events[k]) \/ Fresh(events[k])
        /\ \A k, l \in 1 .. Len(events) : k < l /\ Shows(events[k]) => Shows(events[l])
        /\ \/ shown.pending = latest
           \/ Shows(shown) /\ \A k \in 1 .. Len(events) : Shows(events[k])
    BY DEF ChoiceInv, Heard
  <2>3. \A k \in 1 .. Len(events') :
          events'[k] = Choice!Copy(latest, None) \/ latest \notin Selections(events'[k])
    BY <1>2, <1>3, <2>1 DEF Shows, Fresh
  <2>4. \A k, l \in 1 .. Len(events') :
          k < l /\ events'[k] = Choice!Copy(latest, None) => events'[l] = Choice!Copy(latest, None)
    BY <1>2, <1>3, <2>1 DEF Shows
  <2>5. (\A k \in 1 .. Len(events) : Shows(events[k]))
          => \A k \in 1 .. Len(events') : events'[k] = Choice!Copy(latest, None)
    BY <1>2, <1>3, <2>1 DEF Shows
  <2> QED
    BY <2>1, <2>3, <2>4, <2>5 DEF Heard, Shows, Fresh, Selections
<1> QED
  BY <1>5, <1>6, <1>7, <1>8 DEF ChoiceInv, Waiting, AtRest

\* The model's selection is a new one, and replaces what the run has heard.
LEMMA ToolSelectKeeps ==
  ASSUME ~Repeats, ChoiceInv, NEW names \in Choice!Valid, Choice!ToolSelect(names)
  PROVE  ChoiceInv'
<1>1. /\ at = "call" /\ at' \in {"group", "wrapup"} /\ names \notin seen
      /\ agent' = [agent EXCEPT !.pending = names]
      /\ latest' = IF said = "unheard" THEN latest ELSE None
      /\ seen' = seen \union {names} /\ UNCHANGED <<shown, commands, events, said>>
  BY DEF Choice!ToolSelect, Choice!Selectable
<1>2. agent' \in Choice!Copies /\ agent'.active = agent.active /\ agent'.pending = names
  BY <1>1 DEF ChoiceInv, ChoiceTyped, Choice!Copies
<1>3. ChoiceTyped' /\ Made'
  BY <1>1, <1>2 DEF ChoiceInv, ChoiceTyped, Made, Selections
<1>4. CASE said = "unheard"
  <2>1. latest' = latest /\ latest # names
    BY <1>1, <1>4 DEF ChoiceInv, Unheard, Made, Selections
  <2>2. Unheard'
    BY <1>1, <1>2, <1>4, <2>1 DEF ChoiceInv, Unheard, Fresh, Selections
  <2> QED
    BY <1>1, <1>3, <1>4, <2>1, <2>2 DEF ChoiceInv, Waiting, Unspoken, Heard, AtRest
<1>5. CASE said # "unheard"
  BY <1>1, <1>3, <1>5 DEF ChoiceInv, Waiting, Unspoken, Unheard, Heard, AtRest
<1> QED
  BY <1>4, <1>5

LEMMA EndBatchKeeps == ASSUME ChoiceInv, Choice!EndBatch PROVE ChoiceInv'
<1>1. /\ at = "wrapup" /\ at' \in {"settled", "last"}
      /\ agent' = IF agent.pending # None THEN Choice!Copy(agent.pending, None) ELSE agent
      /\ UNCHANGED <<shown, commands, events, latest, said, seen>>
  BY DEF Choice!EndBatch
<1>2. CASE agent.pending = None
  BY <1>1, <1>2, ChoiceStill
<1>3. CASE agent.pending # None
  <2>1. agent.pending \in Choice!Valid
    BY <1>3 DEF ChoiceInv, ChoiceTyped, Choice!Copies
  <2>2. agent' \in Choice!Copies /\ agent'.active = agent.pending /\ agent'.pending = None
    BY <1>1, <1>3, <2>1, ChoiceFacts
  <2>3. Aim(agent') = Aim(agent) /\ Selections(agent') \subseteq Selections(agent)
    BY <1>3, <2>2 DEF Aim, Selections
  <2>4. ~Shows(agent) \/ latest = None
    BY <1>3, ChoiceFacts DEF Shows, ChoiceInv, ChoiceTyped
  <2>5. ChoiceTyped' /\ Made'
    BY <1>1, <2>2, <2>3 DEF ChoiceInv, ChoiceTyped, Made, Selections
  <2>6. Unspoken' /\ Unheard'
    BY <1>1, <2>3 DEF ChoiceInv, Unspoken, Unheard, Aim, Fresh, Selections
  <2>7. ~(said = "heard" /\ latest # None)
    BY <2>4 DEF ChoiceInv, Heard
  <2> QED
    BY <1>1, <2>5, <2>6, <2>7 DEF ChoiceInv, Waiting, Heard, AtRest
<1> QED
  BY <1>2, <1>3

\* The agent's end and its panic close the channel.
LEMMA ChoiceStops ==
  ASSUME ChoiceInv, at \in Choice!Stages, at' = "ended", commands' = <<>>,
         UNCHANGED <<shown, agent, events, latest, said, seen>>
  PROVE  ChoiceInv'
<1>1. at # "idle" /\ commands' \in Seq(Choice!Valid)
  BY DEF Choice!Stages
<1> QED
  BY <1>1 DEF ChoiceInv, ChoiceTyped, Made, Waiting, Unspoken, Unheard, Heard, AtRest, Aim,
              Selections, Fresh, Shows

\* Publishing keeps a choice the snapshot does not show yet.
LEMMA ChoicePublishKeeps == ASSUME ChoiceInv, Choice!Publish PROVE ChoiceInv'
<1> DEFINE head == Head(events)
<1>1. /\ events # <<>> /\ shown' = Choice!Merged(head) /\ events' = Tail(events)
      /\ UNCHANGED <<at, agent, commands, latest, said, seen>>
  BY DEF Choice!Publish
<1>2. events \in Seq(Choice!Copies)
  BY DEF ChoiceInv, ChoiceTyped
<1>3. /\ Len(events) \in Nat /\ Len(events) > 0 /\ head = events[1]
      /\ events' \in Seq(Choice!Copies) /\ Len(events') = Len(events) - 1
      /\ \A k \in 1 .. Len(events') : events'[k] = events[k + 1]
      /\ \A k \in 1 .. Len(events) : events[k] \in Choice!Copies
  BY <1>1, <1>2, QueueFacts
<1>4. 1 \in 1 .. Len(events) /\ \A k \in 1 .. Len(events') : k + 1 \in 1 .. Len(events) /\ 1 < k + 1
  BY <1>3
<1>5. head \in Choice!Copies /\ shown \in Choice!Copies
  BY <1>3, <1>4 DEF ChoiceInv, ChoiceTyped
<1> HIDE DEF head
<1>6. /\ shown.pending = None => shown' = head
      /\ shown.pending # None =>
           /\ shown.pending \in Choice!Valid /\ shown'.active = shown.pending
           /\ shown'.pending = IF head.active = shown.pending THEN None ELSE shown.pending
           /\ shown' = Choice!Copy(shown'.active, shown'.pending)
      /\ shown' \in Choice!Copies
  <2>1. CASE shown.pending = None
    BY <1>1, <1>5, <2>1 DEF Choice!Merged
  <2>2. CASE shown.pending # None
    <3> DEFINE names == shown.pending
               left == IF head.active = names THEN None ELSE names
    <3>1. names \in Choice!Valid /\ Choice!Normalize(names) = names
      BY <1>5, <2>2, ChoiceFacts
    <3>2. shown' = Choice!Copy(names, left)
      BY <1>1, <2>2, <3>1 DEF Choice!Merged
    <3>3. left \in {None} \cup Choice!Valid
      BY <3>1
    <3> HIDE DEF left
    <3>4. shown'.active = names /\ shown'.pending = left /\ shown' \in Choice!Copies
      BY <3>1, <3>2, <3>3, ChoiceFacts
    <3> QED
      BY <2>2, <3>1, <3>2, <3>4 DEF left
  <2> QED
    BY <2>1, <2>2
<1>7. ChoiceTyped' /\ Made'
  <2>1. Selections(shown') \subseteq Selections(shown) \cup Selections(head)
    BY <1>6 DEF Selections
  <2>2. Selections(head) \subseteq seen
    BY <1>3, <1>4 DEF ChoiceInv, Made
  <2>3. \A k \in 1 .. Len(events') : Selections(events'[k]) \subseteq seen
    BY <1>3, <1>4 DEF ChoiceInv, Made
  <2>4. Made'
    BY <1>1, <2>1, <2>2, <2>3 DEF ChoiceInv, Made, Selections
  <2> QED
    BY <1>1, <1>3, <1>6, <2>4 DEF ChoiceInv, ChoiceTyped
<1>8. Unspoken'
  <2> SUFFICES ASSUME said = "nothing", latest # None PROVE Unspoken'
    BY <1>1 DEF Unspoken
  <2>1. Aim(shown) = latest /\ (at # "idle" => Aim(agent) = latest)
        /\ \A k \in 1 .. Len(events) : Aim(events[k]) = latest
    BY DEF ChoiceInv, Unspoken
  <2>2. Aim(head) = latest
    BY <1>3, <1>4, <2>1
  <2>3. Aim(shown') = latest
    BY <1>6, <2>1, <2>2 DEF Aim
  <2>4. \A k \in 1 .. Len(events') : Aim(events'[k]) = latest
    BY <1>3, <1>4, <2>1
  <2> QED
    BY <1>1, <2>1, <2>3, <2>4 DEF Unspoken, Aim
<1>9. Unheard'
  <2> SUFFICES ASSUME said = "unheard" PROVE Unheard'
    BY <1>1 DEF Unheard
  <2>1. latest # None /\ shown.pending = latest /\ Fresh(agent)
        /\ \A k \in 1 .. Len(events) : Fresh(events[k])
    BY DEF ChoiceInv, Unheard
  <2>2. head.active # latest
    BY <1>3, <1>4, <2>1 DEF Fresh, Selections
  <2>3. shown'.pending = latest
    BY <1>6, <2>1, <2>2
  <2>4. \A k \in 1 .. Len(events') : Fresh(events'[k])
    BY <1>3, <1>4, <2>1
  <2> QED
    BY <1>1, <2>1, <2>3, <2>4 DEF Unheard, Fresh, Selections
<1>10. Heard'
  <2> SUFFICES ASSUME said = "heard", latest # None PROVE Heard'
    BY <1>1 DEF Heard
  <2>1. /\ Shows(agent) /\ \A k \in 1 .. Len(events) : Shows(events[k]) \/ Fresh(events[k])
        /\ \A k, l \in 1 .. Len(events) : k < l /\ Shows(events[k]) => Shows(events[l])
        /\ \/ shown.pending = latest
           \/ Shows(shown) /\ \A k \in 1 .. Len(events) : Shows(events[k])
    BY DEF ChoiceInv, Heard
  <2>2. /\ \A k \in 1 .. Len(events') : Shows(events'[k]) \/ Fresh(events'[k])
        /\ \A k, l \in 1 .. Len(events') : k < l /\ Shows(events'[k]) => Shows(events'[l])
    <3>1. ASSUME NEW k \in 1 .. Len(events'), NEW l \in 1 .. Len(events'), k < l
          PROVE  k + 1 < l + 1
      BY <1>3, <3>1
    <3> QED
      BY <1>3, <1>4, <2>1, <3>1
  <2>3. \/ shown'.pending = latest
        \/ Shows(shown') /\ \A k \in 1 .. Len(events') : Shows(events'[k])
    <3>1. CASE Shows(shown) /\ \A k \in 1 .. Len(events) : Shows(events[k])
      <4>1. shown.pending = None
        BY <3>1, ChoiceFacts DEF Shows, ChoiceInv, ChoiceTyped
      <4>2. Shows(head) /\ shown' = head
        BY <1>3, <1>4, <1>6, <3>1, <4>1
      <4> QED
        BY <1>3, <1>4, <3>1, <4>2
    <3>2. CASE shown.pending = latest /\ head.active # latest
      BY <1>6, <3>2
    <3>3. CASE shown.pending = latest /\ head.active = latest
      <4>1. Shows(head)
        BY <1>3, <1>4, <2>1, <3>3 DEF Fresh, Selections
      <4>2. \A k \in 1 .. Len(events') : Shows(events'[k])
        BY <1>3, <1>4, <2>1, <4>1
      <4>3. Shows(shown')
        BY <1>6, <3>3 DEF Shows
      <4> QED
        BY <4>2, <4>3
    <3> QED
      BY <2>1, <3>1, <3>2, <3>3
  <2> QED
    BY <1>1, <2>1, <2>2, <2>3 DEF Heard, Shows, Fresh, Selections
<1>11. AtRest'
  BY <1>1 DEF ChoiceInv, AtRest
<1> QED
  BY <1>1, <1>7, <1>8, <1>9, <1>10, <1>11 DEF ChoiceInv, Waiting

LEMMA ChoiceSettleKeeps == ASSUME ChoiceInv, Choice!Settle PROVE ChoiceInv'
<1>1. /\ at = "ended" /\ at' = "idle" /\ events = <<>> /\ said' = "nothing"
      /\ shown' = IF survived THEN Choice!Settled(agent) ELSE shown
      /\ UNCHANGED <<agent, commands, events, latest, seen>>
  BY DEF Choice!Settle
<1>2. shown \in Choice!Copies /\ agent \in Choice!Copies
  BY DEF ChoiceInv, ChoiceTyped
<1>3. /\ shown.pending = None => shown' \in {agent, shown}
      /\ shown.pending # None => shown' \in {shown, Choice!Copy(shown.pending, None)}
  BY <1>1, <1>2, ChoiceFacts DEF Choice!Settled
<1>4. /\ shown' \in Choice!Copies
      /\ shown.pending # None => Aim(shown') = shown.pending
      /\ Selections(shown') \subseteq Selections(shown) \cup Selections(agent)
  BY <1>2, <1>3, ChoiceFacts DEF Aim, Selections
<1>5. latest # None => Aim(shown') = latest
  <2> SUFFICES ASSUME latest # None PROVE Aim(shown') = latest
    OBVIOUS
  <2>1. CASE said = "nothing"
    BY <1>1, <1>3, <1>4, <2>1 DEF ChoiceInv, Unspoken, Aim
  <2>2. CASE said = "unheard"
    BY <1>4, <2>2 DEF ChoiceInv, Unheard
  <2>3. CASE said = "heard"
    <3>1. Shows(agent) /\ (shown.pending = latest \/ Shows(shown))
      BY <2>3 DEF ChoiceInv, Heard
    <3>2. Aim(agent) = latest /\ (Shows(shown) => Aim(shown) = latest)
      BY <3>1, ChoiceFacts DEF Shows, Aim, ChoiceInv, ChoiceTyped
    <3> QED
      BY <1>3, <1>4, <3>1, <3>2 DEF Aim
  <2> QED
    BY <2>1, <2>2, <2>3 DEF ChoiceInv, ChoiceTyped
<1>6. commands = <<>>
  BY <1>1 DEF ChoiceInv, Waiting
<1>7. ChoiceTyped' /\ Made'
  BY <1>1, <1>4 DEF ChoiceInv, ChoiceTyped, Made, Selections
<1>8. Len(events') = 0
  BY <1>1
<1> QED
  BY <1>1, <1>5, <1>6, <1>7, <1>8 DEF ChoiceInv, Waiting, Unspoken, Unheard, Heard, AtRest, Aim

LEMMA ChoiceNext == ASSUME ~Repeats, ChoiceInv, [Choice!Next]_choiceVars PROVE ChoiceInv'
<1> USE DEF Choice!Stages
<1>1. CASE UNCHANGED choiceVars
  BY <1>1, ChoiceStill DEF choiceVars
<1>2. CASE \E names \in Choice!Valid : \/ Choice!SelectAtRest(names)
                                      \/ Choice!SelectWhileRunning(names)
                                      \/ Choice!ToolSelect(names)
  BY <1>2, SelectAtRestKeeps, SelectWhileRunningKeeps, ToolSelectKeeps
<1>3. CASE Choice!StartRun \/ Choice!ConsumeCommands \/ Choice!EndBatch
  BY <1>3, ChoiceStartKeeps, ChoiceConsumeKeeps, EndBatchKeeps
<1>4. CASE Choice!Hurry \/ Choice!Respond \/ Choice!OtherTools \/ Choice!LeaveLoop
  <2>1. /\ UNCHANGED <<shown, agent, commands, events, latest, said, seen>>
        /\ (at' = "idle") <=> (at = "idle")
        /\ (at = "ended") <=> (at' = "ended")
    BY <1>4 DEF Choice!Hurry, Choice!Respond, Choice!OtherTools, Choice!LeaveLoop, Choice!Running
  <2> QED
    BY <2>1, ChoiceStill
<1>5. CASE Choice!Announce \/ Choice!NextGroup \/ Choice!BatchShown
  <2>1. /\ UNCHANGED <<shown, agent, commands, latest, said, seen>>
        /\ at \notin {"idle", "ended"} /\ at' \notin {"idle", "ended"}
        /\ events' = Append(events, agent) \/ UNCHANGED events
    BY <1>5 DEF Choice!Announce, Choice!NextGroup, Choice!BatchShown, Choice!Snapshot
  <2>2. CASE UNCHANGED events
    BY <2>1, <2>2, ChoiceStill
  <2>3. CASE events' = Append(events, agent)
    BY <2>1, <2>3, SnapshotKeeps
  <2> QED
    BY <2>1, <2>2, <2>3
<1>6. CASE Choice!AgentEnds
  <2>1. /\ at = "last" /\ at' = "ended" /\ commands' = <<>>
        /\ UNCHANGED <<shown, agent, latest, said, seen>>
        /\ events' = Append(events, agent) \/ UNCHANGED events
    BY <1>6 DEF Choice!AgentEnds
  <2>2. CASE UNCHANGED events
    BY <2>1, <2>2, ChoiceStops
  <2>3. CASE events' = Append(events, agent)
    BY <2>1, <2>3, SnapshotKeeps
  <2> QED
    BY <2>1, <2>2, <2>3
<1>7. CASE Choice!AgentPanics
  BY <1>7, ChoiceStops DEF Choice!AgentPanics, Choice!Running
<1>8. CASE Choice!Publish \/ Choice!Settle
  BY <1>8, ChoicePublishKeeps, ChoiceSettleKeeps
<1> QED
  BY <1>1, <1>2, <1>3, <1>4, <1>5, <1>6, <1>7, <1>8 DEF Choice!Next

-----------------------------------------------------------------------------
\* SessionSettings.

RankIn(s, x) == CHOOSE n \in DOMAIN s : s[n] = x
In(s, x) == \E n \in DOMAIN s : s[n] = x
Distinct(s) == \A m, n \in DOMAIN s : s[m] = s[n] => m = n

\* A copy of accepted settings; those that wait are newer than those in force.
Sound(s, copy) ==
  /\ copy \in Config!Copies /\ In(s, copy.config)
  /\ copy.pending # None => /\ In(s, copy.pending)
                            /\ RankIn(s, copy.config) < RankIn(s, copy.pending)

\* Settings are accepted once.
Log ==
  /\ accepted \in Seq(Config!Settings) /\ accepted # <<>> /\ Distinct(accepted)
  /\ req \in [Requests -> {"new", "prepare", "over"}]
  /\ \A r \in Requests : req[r] # "over" => ~In(accepted, r)

ChosenLast == Config!Wanted(runOwner) = accepted[Len(accepted)]

AllSound ==
  /\ Sound(accepted, runOwner) /\ Sound(accepted, runAgent)
  /\ runEvents \in Seq(Config!Copies)
  /\ \A k \in 1 .. Len(runEvents) : Sound(accepted, runEvents[k])

Newer ==
  /\ runCommands \in Seq(Requests)
  /\ runAt \in {"idle", "ended"} => runCommands = <<>>
  /\ \A k \in 1 .. Len(runCommands) :
       /\ In(accepted, runCommands[k])
       /\ RankIn(accepted, Config!Wanted(runAgent)) < RankIn(accepted, runCommands[k])

InForce(copy) == RankIn(accepted, copy.config)

Ascending ==
  IF runAt = "idle" THEN runEvents = <<>>
  ELSE /\ InForce(runOwner) <= InForce(runAgent)
       /\ \A k \in 1 .. Len(runEvents) : /\ InForce(runOwner) <= InForce(runEvents[k])
                                         /\ InForce(runEvents[k]) <= InForce(runAgent)
       /\ \A k, l \in 1 .. Len(runEvents) : k < l => InForce(runEvents[k]) <= InForce(runEvents[l])

SettingsInv == Log /\ ChosenLast /\ AllSound /\ Newer /\ Ascending

Distinguished == None \notin Config!Settings /\ Initial \notin Requests

-----------------------------------------------------------------------------
(* Ranks in a sequence.                                                    *)

LEMMA RankFacts ==
  ASSUME NEW S, NEW s \in Seq(S), NEW x, In(s, x)
  PROVE  RankIn(s, x) \in 1 .. Len(s) /\ s[RankIn(s, x)] = x
<1>1. DOMAIN s = 1 .. Len(s)
  OBVIOUS
<1>2. RankIn(s, x) \in DOMAIN s /\ s[RankIn(s, x)] = x
  BY Zenon DEF In, RankIn
<1> QED
  BY <1>1, <1>2

LEMMA RankOf ==
  ASSUME NEW S, NEW s \in Seq(S), Distinct(s), NEW n \in 1 .. Len(s)
  PROVE  In(s, s[n]) /\ RankIn(s, s[n]) = n
<1>1. n \in DOMAIN s
  OBVIOUS
<1>2. In(s, s[n])
  BY <1>1 DEF In
<1> QED
  BY <1>1, <1>2, RankFacts DEF Distinct

LEMMA RankAppend ==
  ASSUME NEW S, NEW s \in Seq(S), Distinct(s), NEW r \in S, ~In(s, r)
  PROVE  /\ Append(s, r) \in Seq(S) /\ Distinct(Append(s, r))
         /\ Len(Append(s, r)) = Len(s) + 1 /\ Append(s, r)[Len(s) + 1] = r
         /\ In(Append(s, r), r) /\ RankIn(Append(s, r), r) = Len(s) + 1
         /\ \A x : In(s, x) => /\ In(Append(s, r), x)
                               /\ RankIn(Append(s, r), x) = RankIn(s, x)
<1> DEFINE t == Append(s, r)
<1>1. /\ t \in Seq(S) /\ Len(t) = Len(s) + 1 /\ t[Len(s) + 1] = r
      /\ \A n \in 1 .. Len(s) : t[n] = s[n]
      /\ DOMAIN s = 1 .. Len(s) /\ DOMAIN t = 1 .. Len(s) + 1 /\ Len(s) \in Nat
  OBVIOUS
<1> HIDE DEF t
<1>2. Distinct(t)
  BY <1>1 DEF Distinct, In
<1>3. In(t, r) /\ RankIn(t, r) = Len(s) + 1
  <2>1. Len(s) + 1 \in 1 .. Len(t)
    BY <1>1
  <2> QED
    BY <1>1, <1>2, <2>1, RankOf
<1>4. ASSUME NEW x, In(s, x) PROVE In(t, x) /\ RankIn(t, x) = RankIn(s, x)
  <2>1. RankIn(s, x) \in 1 .. Len(s) /\ s[RankIn(s, x)] = x
    BY <1>4, RankFacts
  <2>2. RankIn(s, x) \in 1 .. Len(t) /\ t[RankIn(s, x)] = x
    BY <1>1, <2>1
  <2> QED
    BY <1>1, <1>2, <2>2, RankOf
<1> QED
  BY <1>1, <1>2, <1>3, <1>4 DEF t

-----------------------------------------------------------------------------
LEMMA CopyTyped ==
  ASSUME Distinguished, NEW c \in Config!Settings, NEW p \in Config!Settings \cup {None}
  PROVE  /\ Config!Copy(c, p) \in Config!Copies
         /\ Config!Copy(c, p).config = c /\ Config!Copy(c, p).pending = p
BY DEF Config!Copy, Config!Copies

LEMMA LastRank ==
  ASSUME SettingsInv
  PROVE  /\ Len(accepted) \in Nat \ {0} /\ In(accepted, Config!Wanted(runOwner))
         /\ RankIn(accepted, Config!Wanted(runOwner)) = Len(accepted)
<1>1. Len(accepted) \in 1 .. Len(accepted)
  BY DEF SettingsInv, Log
<1> QED
  BY <1>1, RankOf DEF SettingsInv, Log, ChosenLast

\* What the owner makes of a copy that is not older than its own.
LEMMA MergedKept ==
  ASSUME Distinguished, SettingsInv, NEW copy, Sound(accepted, copy),
         InForce(runOwner) <= InForce(copy)
  PROVE  /\ Sound(accepted, Config!Merged(copy))
         /\ Config!Wanted(Config!Merged(copy)) = Config!Wanted(runOwner)
         /\ Config!Merged(copy).config = copy.config
<1>1. /\ accepted \in Seq(Config!Settings) /\ Distinct(accepted) /\ Sound(accepted, runOwner)
      /\ copy \in Config!Copies /\ In(accepted, copy.config) /\ runOwner \in Config!Copies
  BY DEF SettingsInv, Log, AllSound, Sound
<1>2. /\ RankIn(accepted, copy.config) \in 1 .. Len(accepted)
      /\ accepted[RankIn(accepted, copy.config)] = copy.config
  BY <1>1, RankFacts
<1>3. CASE runOwner.pending = None
  <2>1. RankIn(accepted, copy.config) = Len(accepted)
    BY <1>1, <1>2, <1>3, LastRank DEF InForce, Config!Wanted
  <2>2. copy.config = Config!Wanted(runOwner)
    BY <1>2, <2>1 DEF SettingsInv, ChosenLast
  <2>3. ASSUME copy.pending # None PROVE FALSE
    <3>1. RankIn(accepted, copy.pending) \in 1 .. Len(accepted)
      BY <1>1, <2>3, RankFacts DEF Sound
    <3> QED
      BY <2>1, <2>3, <3>1 DEF Sound
  <2> QED
    BY <1>3, <2>2, <2>3 DEF Config!Merged, Config!Wanted
<1>4. CASE runOwner.pending # None
  <2> DEFINE p == IF runOwner.pending = copy.config THEN None ELSE runOwner.pending
  <2>1. Config!Merged(copy) = Config!Copy(copy.config, p)
    BY <1>4 DEF Config!Merged
  <2>2. copy.config \in Config!Settings /\ runOwner.pending \in Config!Settings
    BY <1>1, <1>4 DEF Config!Copies
  <2>3. p \in Config!Settings \cup {None}
    BY <2>2
  <2>4. Config!Wanted(runOwner) = runOwner.pending /\ RankIn(accepted, runOwner.pending) = Len(accepted)
        /\ In(accepted, runOwner.pending)
    BY <1>4, LastRank DEF Config!Wanted
  <2>5. p # None => /\ p = runOwner.pending
                    /\ RankIn(accepted, copy.config) # Len(accepted)
    BY <1>2, <2>4 DEF SettingsInv, ChosenLast
  <2>6. p = None => copy.config = runOwner.pending
    BY <1>4
  <2> HIDE DEF p
  <2>7. Config!Merged(copy) \in Config!Copies
        /\ Config!Merged(copy).config = copy.config /\ Config!Merged(copy).pending = p
    BY <2>1, <2>2, <2>3, CopyTyped
  <2>8. Sound(accepted, Config!Merged(copy))
    BY <1>1, <1>2, <2>4, <2>5, <2>7 DEF Sound
  <2> QED
    BY <2>4, <2>5, <2>6, <2>7, <2>8 DEF Config!Wanted
<1> QED
  BY <1>3, <1>4

-----------------------------------------------------------------------------
(* The steps.                                                              *)

LEMMA SettingsInit == ASSUME Distinguished PROVE Config!Init => SettingsInv
<1> SUFFICES ASSUME Config!Init PROVE SettingsInv
  OBVIOUS
<1>1. /\ Initial \in Config!Settings /\ runOwner = Config!Copy(Initial, None) /\ runAgent = runOwner
      /\ accepted = <<Initial>>
  BY DEF Config!Init, Config!Settings
<1>2. runOwner \in Config!Copies /\ runOwner.config = Initial /\ runOwner.pending = None
  BY <1>1, CopyTyped
<1>3. /\ accepted \in Seq(Config!Settings) /\ Len(accepted) = 1 /\ accepted[1] = Initial
      /\ DOMAIN accepted = {1}
  BY <1>1
<1>4. Log
  BY <1>1, <1>3 DEF Config!Init, Log, Distinct, In, Distinguished
<1>5. In(accepted, Initial)
  BY <1>3 DEF In
<1>6. ChosenLast /\ AllSound
  BY <1>1, <1>2, <1>3, <1>5 DEF Config!Init, ChosenLast, AllSound, Sound, Config!Wanted
<1>7. Newer /\ Ascending
  BY DEF Config!Init, Newer, Ascending
<1> QED
  BY <1>4, <1>6, <1>7 DEF SettingsInv

\* A step that saves nothing.
LEMMA SameLog ==
  ASSUME SettingsInv, UNCHANGED accepted,
         \/ UNCHANGED req
         \/ \E r \in Requests : req' = [req EXCEPT ![r] = "over"]
         \/ \E r \in Requests : req[r] = "new" /\ req' = [req EXCEPT ![r] = "prepare"]
  PROVE  Log'
BY DEF SettingsInv, Log, Distinct, In

\* A step of a request or the run that moves no settings.
LEMMA SettingsStill ==
  ASSUME SettingsInv, Log', UNCHANGED <<runOwner, runAgent, runCommands, runEvents, accepted>>,
         runAt' = "idle" <=> runAt = "idle", runAt' = "ended" => runAt = "ended"
  PROVE  SettingsInv'
<1>1. ChosenLast' /\ AllSound'
  BY DEF SettingsInv, ChosenLast, AllSound, Config!Wanted
<1>2. Newer'
  BY DEF SettingsInv, Newer, Config!Wanted
<1>3. Ascending'
  BY DEF SettingsInv, Ascending, InForce
<1> QED
  BY <1>1, <1>2, <1>3 DEF SettingsInv

LEMMA RequestKeeps ==
  ASSUME NEW r \in Requests
  PROVE  SettingsInv /\ (Config!Ask(r) \/ Config!GiveUp(r) \/ Config!Busy(r)) => SettingsInv'
<1> SUFFICES ASSUME SettingsInv, Config!Ask(r) \/ Config!GiveUp(r) \/ Config!Busy(r) PROVE SettingsInv'
  OBVIOUS
<1>1. UNCHANGED <<runAt, runOwner, runAgent, runCommands, runEvents, accepted>>
  BY DEF Config!Ask, Config!GiveUp, Config!Busy, Config!Answered, Config!run
<1>2. Log'
  BY <1>1, SameLog DEF Config!Ask, Config!GiveUp, Config!Busy, Config!Answered
<1> QED
  BY <1>1, <1>2, SettingsStill

LEMMA RunStillKeeps == SettingsInv /\ (Config!Hurry \/ Config!Respond) => SettingsInv'
<1> SUFFICES ASSUME SettingsInv, Config!Hurry \/ Config!Respond PROVE SettingsInv'
  OBVIOUS
<1>1. UNCHANGED <<req, runOwner, runAgent, runCommands, runEvents, accepted>>
      /\ (runAt' = "idle" <=> runAt = "idle") /\ (runAt' = "ended" => runAt = "ended")
  BY DEF Config!Hurry, Config!Respond, Config!request
<1> QED
  BY <1>1, SameLog, SettingsStill

\* What was sound stays so when settings are saved, and its rank stays.
LEMMA SoundAppend ==
  ASSUME Distinguished, SettingsInv, NEW r \in Requests, req[r] = "prepare", Config!Saved(r),
         Config!Answered(r)
  PROVE  /\ Log' /\ accepted'[Len(accepted')] = r /\ In(accepted', r)
         /\ RankIn(accepted', r) = Len(accepted) + 1
         /\ \A x : In(accepted, x) => /\ In(accepted', x)
                                      /\ RankIn(accepted', x) = RankIn(accepted, x)
                                      /\ RankIn(accepted', x) < RankIn(accepted', r)
         /\ \A c : Sound(accepted, c) => Sound(accepted', c)
<1>1. accepted \in Seq(Config!Settings) /\ Distinct(accepted) /\ r \in Config!Settings /\ ~In(accepted, r)
      /\ accepted' = Append(accepted, r)
  BY DEF SettingsInv, Log, Config!Saved, Config!Settings
<1>2. /\ accepted' \in Seq(Config!Settings) /\ Distinct(accepted') /\ Len(accepted') = Len(accepted) + 1
      /\ accepted'[Len(accepted) + 1] = r /\ In(accepted', r)
      /\ RankIn(accepted', r) = Len(accepted) + 1
      /\ \A x : In(accepted, x) => /\ In(accepted', x)
                                   /\ RankIn(accepted', x) = RankIn(accepted, x)
  BY <1>1, RankAppend
<1>3. \A x : In(accepted, x) => RankIn(accepted, x) < Len(accepted) + 1
  BY <1>1, RankFacts
<1>4. Log'
  <2>1. accepted' # <<>>
    BY <1>1
  <2>2. req' = [req EXCEPT ![r] = "over"] /\ req \in [Requests -> {"new", "prepare", "over"}]
    BY DEF Config!Answered, SettingsInv, Log
  <2>3. ASSUME NEW q \in Requests, req'[q] # "over" PROVE ~In(accepted', q)
    <3>1. q # r /\ ~In(accepted, q)
      BY <2>2, <2>3 DEF SettingsInv, Log
    <3> QED
      BY <1>1, <3>1 DEF In
  <2> QED
    BY <1>2, <2>1, <2>2, <2>3 DEF Log
<1>5. \A c : Sound(accepted, c) => Sound(accepted', c)
  BY <1>2 DEF Sound
<1> QED
  BY <1>2, <1>3, <1>4, <1>5

LEMMA SaveAtRestKeeps ==
  ASSUME Distinguished,
         NEW r \in Requests PROVE SettingsInv /\ Config!SaveAtRest(r) => SettingsInv'
<1> SUFFICES ASSUME SettingsInv, Config!SaveAtRest(r) PROVE SettingsInv'
  OBVIOUS
<1>1. /\ runAt = "idle" /\ UNCHANGED <<runAt, runAgent, runCommands, runEvents>>
      /\ req[r] = "prepare" /\ Config!Saved(r) /\ Config!Answered(r)
      /\ runOwner' \in {Config!Copy(r, None), Config!Copy(runOwner.config, r)}
  BY DEF Config!SaveAtRest, Config!run
<1>2. runEvents = <<>> /\ runCommands = <<>>
  BY <1>1 DEF SettingsInv, Newer, Ascending
<1>3. /\ Log' /\ accepted'[Len(accepted')] = r /\ In(accepted', r)
      /\ Sound(accepted', runAgent) /\ Sound(accepted', runOwner)
      /\ RankIn(accepted', runOwner.config) < RankIn(accepted', r)
      /\ r \in Config!Settings /\ r # None /\ runOwner.config \in Config!Settings
  BY <1>1, SoundAppend DEF SettingsInv, AllSound, Sound, Config!Settings, Distinguished,
     Config!Copies
<1>4. Sound(accepted', runOwner') /\ Config!Wanted(runOwner') = r
  <2>1. CASE runOwner' = Config!Copy(r, None)
    BY <1>3, <2>1, CopyTyped DEF Sound, Config!Wanted
  <2>2. CASE runOwner' = Config!Copy(runOwner.config, r)
    BY <1>3, <2>2, CopyTyped DEF Sound, Config!Wanted
  <2> QED
    BY <1>1, <2>1, <2>2
<1>5. ChosenLast' /\ AllSound'
  BY <1>1, <1>2, <1>3, <1>4 DEF ChosenLast, AllSound, Config!Wanted
<1>6. Newer' /\ Ascending'
  BY <1>1, <1>2 DEF Newer, Ascending
<1> QED
  BY <1>3, <1>5, <1>6 DEF SettingsInv

LEMMA SaveInRunKeeps ==
  ASSUME Distinguished,
         NEW r \in Requests PROVE SettingsInv /\ Config!SaveInRun(r) => SettingsInv'
<1> SUFFICES ASSUME SettingsInv, Config!SaveInRun(r) PROVE SettingsInv'
  OBVIOUS
<1>1. /\ runAt \notin {"idle", "ended"} /\ UNCHANGED <<runAt, runAgent, runEvents>>
      /\ req[r] = "prepare" /\ Config!Saved(r) /\ Config!Answered(r)
      /\ runOwner' = [runOwner EXCEPT !.pending = r] /\ runCommands' = Append(runCommands, r)
  BY DEF Config!SaveInRun, Config!Running
<1>2. /\ Log' /\ accepted'[Len(accepted')] = r /\ In(accepted', r)
      /\ \A x : In(accepted, x) => /\ In(accepted', x)
                                   /\ RankIn(accepted', x) = RankIn(accepted, x)
                                   /\ RankIn(accepted', x) < RankIn(accepted', r)
      /\ \A c : Sound(accepted, c) => Sound(accepted', c)
  BY <1>1, SoundAppend
<1>3. /\ Sound(accepted, runOwner) /\ Sound(accepted, runAgent) /\ runEvents \in Seq(Config!Copies)
      /\ \A k \in 1 .. Len(runEvents) : Sound(accepted, runEvents[k])
      /\ r \in Config!Settings /\ r # None
  BY DEF SettingsInv, AllSound, Config!Settings, Distinguished
<1>4. runOwner' \in Config!Copies /\ runOwner'.config = runOwner.config /\ runOwner'.pending = r
  BY <1>1, <1>3 DEF Sound, Config!Copies
<1>5. Sound(accepted', runOwner')
  BY <1>2, <1>3, <1>4 DEF Sound
<1>6. ChosenLast' /\ AllSound'
  BY <1>1, <1>2, <1>3, <1>4, <1>5 DEF ChosenLast, AllSound, Config!Wanted
<1>7. Newer'
  <2>1. In(accepted, Config!Wanted(runAgent))
    BY <1>3 DEF Sound, Config!Wanted
  <2>2. runCommands \in Seq(Requests) /\ runCommands' \in Seq(Requests)
        /\ Config!Wanted(runAgent)' = Config!Wanted(runAgent)
    BY <1>1 DEF SettingsInv, Newer, Config!Wanted
  <2>3. ASSUME NEW k \in 1 .. Len(runCommands')
        PROVE  In(accepted', runCommands'[k])
               /\ RankIn(accepted', Config!Wanted(runAgent)) < RankIn(accepted', runCommands'[k])
    <3>1. CASE k \in 1 .. Len(runCommands)
      <4>1. runCommands'[k] = runCommands[k]
        BY <1>1, <2>2, <3>1
      <4> QED
        BY <1>2, <2>1, <3>1, <4>1 DEF SettingsInv, Newer
    <3>2. CASE k = Len(runCommands) + 1
      <4>1. runCommands'[k] = r
        BY <1>1, <2>2, <3>2
      <4> QED
        BY <1>2, <2>1, <4>1
    <3> QED
      BY <1>1, <2>2, <2>3, <3>1, <3>2
  <2> QED
    BY <1>1, <2>2, <2>3 DEF Newer
<1>8. Ascending'
  <2>1. /\ RankIn(accepted', runOwner'.config) = RankIn(accepted, runOwner.config)
        /\ RankIn(accepted', runAgent'.config) = RankIn(accepted, runAgent.config)
        /\ \A k \in 1 .. Len(runEvents) :
             RankIn(accepted', runEvents'[k].config) = RankIn(accepted, runEvents[k].config)
    BY <1>1, <1>2, <1>3, <1>4 DEF Sound
  <2> QED
    BY <1>1, <2>1 DEF SettingsInv, Ascending, InForce
<1> QED
  BY <1>2, <1>6, <1>7, <1>8 DEF SettingsInv

LEMMA StartRunKeeps == SettingsInv /\ Config!StartRun => SettingsInv'
<1> SUFFICES ASSUME SettingsInv, Config!StartRun PROVE SettingsInv'
  OBVIOUS
<1>1. /\ runAgent' = runOwner /\ runAt = "idle" /\ runAt' = "announce"
      /\ UNCHANGED <<req, runOwner, runCommands, runEvents, accepted>>
  BY DEF Config!StartRun, Config!request
<1>2. runEvents = <<>> /\ runCommands = <<>>
  BY <1>1 DEF SettingsInv, Newer, Ascending
<1>3. Log'
  BY <1>1, SameLog
<1>4. ChosenLast' /\ AllSound' /\ Newer'
  BY <1>1, <1>2 DEF SettingsInv, ChosenLast, AllSound, Newer, Config!Wanted
<1>5. Ascending'
  <2>1. RankIn(accepted, runOwner.config) \in Nat
    BY RankFacts DEF SettingsInv, Log, AllSound, Sound
  <2> QED
    BY <1>1, <1>2, <2>1 DEF Ascending, InForce
<1> QED
  BY <1>3, <1>4, <1>5 DEF SettingsInv

\* A snapshot is queued behind the others, or none is; a run that ends gives
\* its commands up.
LEMMA QueuedInv ==
  ASSUME SettingsInv, runAt # "idle", runAt' # "idle", UNCHANGED <<req, runOwner, runAgent,
         accepted>>,
         runEvents' = Append(runEvents, runAgent) \/ runEvents' = runEvents,
         runCommands' = <<>> \/ (runCommands' = runCommands /\ runAt' # "ended")
  PROVE  SettingsInv'
<1>1. /\ Sound(accepted, runOwner) /\ Sound(accepted, runAgent) /\ runAgent \in Config!Copies
      /\ runEvents \in Seq(Config!Copies)
      /\ \A k \in 1 .. Len(runEvents) : Sound(accepted, runEvents[k])
  BY DEF SettingsInv, AllSound, Sound
<1>2. /\ runEvents' \in Seq(Config!Copies) /\ Len(runEvents') \in {Len(runEvents), Len(runEvents) + 1}
      /\ \A k \in 1 .. Len(runEvents) : runEvents'[k] = runEvents[k]
      /\ \A k \in 1 .. Len(runEvents') : k \in 1 .. Len(runEvents) \/ runEvents'[k] = runAgent
      /\ Len(runEvents') = Len(runEvents) + 1 => runEvents'[Len(runEvents) + 1] = runAgent
      /\ Len(runEvents) \in Nat
  BY <1>1
<1>3. Log'
  BY SameLog
<1>4. ChosenLast' /\ AllSound'
  BY <1>1, <1>2 DEF SettingsInv, ChosenLast, AllSound, Config!Wanted
<1>5. Newer'
  <2>1. CASE runCommands' = runCommands /\ runAt' # "ended"
    BY <2>1 DEF SettingsInv, Newer, Config!Wanted
  <2>2. CASE runCommands' = <<>>
    BY <2>2 DEF Newer
  <2> QED
    BY <2>1, <2>2
<1>6. Ascending'
  <2>1. /\ InForce(runAgent) \in Nat /\ InForce(runOwner) <= InForce(runAgent)
        /\ \A k \in 1 .. Len(runEvents) : InForce(runOwner) <= InForce(runEvents[k])
                                       /\ InForce(runEvents[k]) <= InForce(runAgent)
        /\ \A k, l \in 1 .. Len(runEvents) : k < l => InForce(runEvents[k]) <= InForce(runEvents[l])
    BY <1>1, RankFacts DEF SettingsInv, Log, Ascending, InForce, Sound
  <2>2. InForce(runAgent)' = InForce(runAgent) /\ InForce(runOwner)' = InForce(runOwner)
        /\ \A c : RankIn(accepted', c.config) = InForce(c)
    BY DEF InForce
  <2>3. \A k, l \in 1 .. Len(runEvents') : k < l => InForce(runEvents'[k]) <= InForce(runEvents'[l])
    <3> SUFFICES ASSUME NEW k \in 1 .. Len(runEvents'), NEW l \in 1 .. Len(runEvents'), k < l
                 PROVE  InForce(runEvents'[k]) <= InForce(runEvents'[l])
      OBVIOUS
    <3>1. k \in 1 .. Len(runEvents)
      BY <1>2
    <3>2. CASE l \in 1 .. Len(runEvents)
      BY <1>2, <2>1, <3>1, <3>2
    <3>3. CASE runEvents'[l] = runAgent
      BY <1>2, <2>1, <3>1, <3>3
    <3> QED
      BY <1>2, <3>2, <3>3
  <2>4. \A k \in 1 .. Len(runEvents') : InForce(runOwner) <= InForce(runEvents'[k])
                                     /\ InForce(runEvents'[k]) <= InForce(runAgent)
    BY <1>2, <2>1
  <2> QED
    BY <2>1, <2>2, <2>3, <2>4 DEF Ascending, InForce
<1> QED
  BY <1>3, <1>4, <1>5, <1>6 DEF SettingsInv

LEMMA AgentStopsKeeps ==
  SettingsInv /\ (Config!Announce \/ Config!AgentEnds \/ Config!AgentPanics) => SettingsInv'
<1> SUFFICES ASSUME SettingsInv, Config!Announce \/ Config!AgentEnds \/ Config!AgentPanics
             PROVE  SettingsInv'
  OBVIOUS
<1>1. /\ runAt # "idle" /\ runAt' # "idle" /\ UNCHANGED <<req, runOwner, runAgent, accepted>>
      /\ runEvents' = Append(runEvents, runAgent) \/ runEvents' = runEvents
      /\ runCommands' = <<>> \/ (runCommands' = runCommands /\ runAt' # "ended")
  BY DEF Config!Announce, Config!AgentEnds, Config!AgentPanics, Config!Running, Config!request
<1> QED
  BY <1>1, QueuedInv

\* The run takes what is newer than all it knew.
LEMMA ConsumeKeeps == SettingsInv /\ Config!ConsumeCommands => SettingsInv'
<1> SUFFICES ASSUME SettingsInv, Config!ConsumeCommands PROVE SettingsInv'
  OBVIOUS
<1>1. /\ runAt # "idle" /\ runAt' # "idle" /\ runCommands' = <<>>
      /\ UNCHANGED <<req, runOwner, runEvents, accepted>>
      /\ runAgent' = IF runCommands = <<>> THEN runAgent ELSE Config!Consume(runAgent)
  BY DEF Config!ConsumeCommands, Config!request
<1>2. CASE runCommands = <<>>
  BY <1>1, <1>2, QueuedInv
<1>3. CASE runCommands # <<>>
  <2> DEFINE last == runCommands[Len(runCommands)]
  <2>1. Len(runCommands) \in 1 .. Len(runCommands) /\ last \in Requests
    BY <1>3 DEF SettingsInv, Newer
  <2>2. In(accepted, last) /\ RankIn(accepted, Config!Wanted(runAgent)) < RankIn(accepted, last)
    BY <2>1 DEF SettingsInv, Newer
  <2>3. Sound(accepted, runAgent) /\ runAgent \in Config!Copies /\ last \in Config!Settings
    BY <2>1 DEF SettingsInv, AllSound, Sound, Config!Settings
  <2>4. runAgent' = [runAgent EXCEPT !.pending = last]
    BY <1>1, <1>3 DEF Config!Consume
  <2> HIDE DEF last
  <2>5. runAgent' \in Config!Copies /\ runAgent'.config = runAgent.config /\ runAgent'.pending = last
    BY <2>3, <2>4 DEF Config!Copies
  <2>6. /\ RankIn(accepted, runAgent.config) \in Nat /\ RankIn(accepted, Config!Wanted(runAgent)) \in Nat
        /\ RankIn(accepted, last) \in Nat
        /\ RankIn(accepted, runAgent.config) <= RankIn(accepted, Config!Wanted(runAgent))
    <3>1. In(accepted, runAgent.config) /\ In(accepted, Config!Wanted(runAgent))
      BY <2>3 DEF Sound, Config!Wanted
    <3>2. /\ RankIn(accepted, runAgent.config) \in Nat /\ RankIn(accepted, Config!Wanted(runAgent)) \in Nat
          /\ RankIn(accepted, last) \in Nat
      BY <2>2, <3>1, RankFacts DEF SettingsInv, Log
    <3> QED
      BY <2>3, <3>2 DEF Sound, Config!Wanted
  <2>7. Sound(accepted, runAgent')
    BY <2>2, <2>3, <2>5, <2>6 DEF Sound
  <2>8. Log'
    BY <1>1, SameLog
  <2>9. ChosenLast' /\ AllSound' /\ Newer'
    BY <1>1, <2>7 DEF SettingsInv, ChosenLast, AllSound, Newer, Config!Wanted
  <2>10. Ascending'
    BY <1>1, <2>5 DEF SettingsInv, Ascending, InForce
  <2> QED
    BY <2>8, <2>9, <2>10 DEF SettingsInv
<1> QED
  BY <1>2, <1>3

LEMMA ApplyKeeps == ASSUME Distinguished PROVE SettingsInv /\ Config!ApplyPending => SettingsInv'
<1> SUFFICES ASSUME SettingsInv, Config!ApplyPending PROVE SettingsInv'
  OBVIOUS
<1>1. /\ runAt # "idle" /\ runAt' \notin {"idle", "ended"}
      /\ UNCHANGED <<req, runOwner, runCommands, runEvents, accepted>>
      /\ runAgent' = Config!Copy(Config!Wanted(runAgent), None) \/ UNCHANGED runAgent
  BY DEF Config!ApplyPending, Config!request
<1>2. CASE UNCHANGED runAgent
  BY <1>1, <1>2, QueuedInv
<1>3. CASE runAgent' = Config!Copy(Config!Wanted(runAgent), None)
  <2>1. Sound(accepted, runAgent) /\ runAgent \in Config!Copies
    BY DEF SettingsInv, AllSound, Sound
  <2>2. Config!Wanted(runAgent) \in Config!Settings /\ In(accepted, Config!Wanted(runAgent))
    BY <2>1 DEF Sound, Config!Wanted, Config!Copies
  <2>3. runAgent' \in Config!Copies /\ runAgent'.config = Config!Wanted(runAgent) /\ runAgent'.pending = None
        /\ Config!Wanted(runAgent') = Config!Wanted(runAgent)
    BY <1>3, <2>2, CopyTyped DEF Config!Wanted
  <2>4. Sound(accepted, runAgent')
    BY <2>2, <2>3 DEF Sound
  <2>5. /\ RankIn(accepted, runAgent.config) <= RankIn(accepted, Config!Wanted(runAgent))
        /\ RankIn(accepted, runAgent.config) \in Nat /\ RankIn(accepted, Config!Wanted(runAgent)) \in Nat
    <3>1. /\ RankIn(accepted, runAgent.config) \in Nat
          /\ RankIn(accepted, Config!Wanted(runAgent)) \in Nat
      BY <2>1, <2>2, RankFacts DEF SettingsInv, Log, Sound
    <3> QED
      BY <2>1, <3>1 DEF Sound, Config!Wanted
  <2>6. Log'
    BY <1>1, SameLog
  <2>7. ChosenLast' /\ AllSound'
    BY <1>1, <2>4 DEF SettingsInv, ChosenLast, AllSound, Config!Wanted
  <2>8. Newer'
    BY <1>1, <2>3 DEF SettingsInv, Newer
  <2>9. Ascending'
    <3>1. /\ InForce(runOwner) \in Nat
          /\ \A k \in 1 .. Len(runEvents) : InForce(runEvents[k]) \in Nat
      BY RankFacts DEF SettingsInv, Log, AllSound, Sound, InForce
    <3> QED
      BY <1>1, <2>3, <2>5, <3>1 DEF SettingsInv, Ascending, InForce
  <2> QED
    BY <2>6, <2>7, <2>8, <2>9 DEF SettingsInv
<1> QED
  BY <1>1, <1>2, <1>3

LEMMA PublishKeeps == ASSUME Distinguished PROVE SettingsInv /\ Config!Publish => SettingsInv'
<1> SUFFICES ASSUME SettingsInv, Config!Publish PROVE SettingsInv'
  OBVIOUS
<1>1. /\ runEvents # <<>> /\ runOwner' = Config!Merged(Head(runEvents)) /\ runEvents' = Tail(runEvents)
      /\ UNCHANGED <<req, runAt, runAgent, runCommands, accepted>>
  BY DEF Config!Publish, Config!request
<1>2. /\ runEvents \in Seq(Config!Copies) /\ \A k \in 1 .. Len(runEvents) : Sound(accepted, runEvents[k])
      /\ runAt # "idle"
  BY <1>1 DEF SettingsInv, AllSound, Ascending
<1>3. 1 \in 1 .. Len(runEvents) /\ Head(runEvents) = runEvents[1]
  BY <1>1, <1>2
<1>4. /\ runEvents' \in Seq(Config!Copies)
      /\ \A k \in 1 .. Len(runEvents') : k + 1 \in 1 .. Len(runEvents) /\ runEvents'[k] = runEvents[k + 1]
  BY <1>1, <1>2
<1>5. /\ Sound(accepted, runOwner') /\ Config!Wanted(runOwner') = Config!Wanted(runOwner)
      /\ runOwner'.config = runEvents[1].config
  BY <1>1, <1>2, <1>3, MergedKept DEF SettingsInv, Ascending
<1>6. Log'
  BY <1>1, SameLog
<1>7. ChosenLast' /\ AllSound'
  BY <1>1, <1>2, <1>4, <1>5 DEF SettingsInv, ChosenLast, AllSound, Config!Wanted
<1>8. Newer'
  BY <1>1 DEF SettingsInv, Newer, Config!Wanted
<1>9. Ascending'
  <2>1. /\ InForce(runEvents[1]) <= InForce(runAgent)
        /\ \A k \in 1 .. Len(runEvents') : /\ InForce(runEvents[1]) <= InForce(runEvents'[k])
                                           /\ InForce(runEvents'[k]) <= InForce(runAgent)
        /\ \A k, l \in 1 .. Len(runEvents') : k < l => InForce(runEvents'[k]) <= InForce(runEvents'[l])
    BY <1>2, <1>3, <1>4 DEF SettingsInv, Ascending
  <2> QED
    BY <1>1, <1>2, <1>5, <2>1 DEF Ascending, InForce
<1> QED
  BY <1>6, <1>7, <1>8, <1>9 DEF SettingsInv

LEMMA SettleKeeps == ASSUME Distinguished PROVE SettingsInv /\ Config!Settle => SettingsInv'
<1> SUFFICES ASSUME SettingsInv, Config!Settle PROVE SettingsInv'
  OBVIOUS
<1>1. /\ runAt = "ended" /\ runEvents = <<>> /\ runAt' = "idle"
      /\ UNCHANGED <<req, runAgent, runCommands, runEvents, accepted>>
      /\ runOwner' = Config!Merged(runAgent) \/ runOwner' = runOwner
  BY DEF Config!Settle, Config!Settled, Config!request
<1>2. runCommands = <<>> /\ Sound(accepted, runAgent) /\ InForce(runOwner) <= InForce(runAgent)
  BY <1>1 DEF SettingsInv, AllSound, Newer, Ascending
<1>3. Sound(accepted, runOwner') /\ Config!Wanted(runOwner') = Config!Wanted(runOwner)
  <2>1. CASE runOwner' = Config!Merged(runAgent)
    BY <1>2, <2>1, MergedKept
  <2>2. CASE runOwner' = runOwner
    BY <2>2 DEF SettingsInv, AllSound
  <2> QED
    BY <1>1, <2>1, <2>2
<1>4. Log'
  BY <1>1, SameLog
<1>5. ChosenLast' /\ AllSound'
  BY <1>1, <1>3 DEF SettingsInv, ChosenLast, AllSound, Config!Wanted
<1>6. Newer' /\ Ascending'
  BY <1>1, <1>2 DEF Newer, Ascending
<1> QED
  BY <1>4, <1>5, <1>6 DEF SettingsInv

-----------------------------------------------------------------------------
LEMMA SettingsNext ==
  ASSUME Distinguished PROVE SettingsInv /\ [Config!Next]_configVars => SettingsInv'
<1> SUFFICES ASSUME SettingsInv, [Config!Next]_configVars PROVE SettingsInv'
  OBVIOUS
<1>1. CASE UNCHANGED configVars
  BY <1>1, SameLog, SettingsStill DEF configVars
<1> QED
  BY <1>1, RequestKeeps, SaveAtRestKeeps, SaveInRunKeeps, StartRunKeeps, RunStillKeeps,
     AgentStopsKeeps,
     ConsumeKeeps, ApplyKeeps, PublishKeeps, SettleKeeps
  DEF Config!Next

\* A run under way only moves to settings accepted later.
LEMMA OnlyNewer ==
  ASSUME Distinguished
  PROVE  SettingsInv /\ [Config!Next]_configVars
           => [runAt # "idle" => Config!Rank(runAgent.config) <= Config!Rank(runAgent'.config)]_configVars
<1> SUFFICES ASSUME SettingsInv, [Config!Next]_configVars, runAt # "idle"
             PROVE  RankIn(accepted, runAgent.config) <= RankIn(accepted, runAgent'.config)
  BY DEF Config!Rank, RankIn
<1>1. Sound(accepted, runAgent) /\ runAgent \in Config!Copies
  BY DEF SettingsInv, AllSound, Sound
<1>2. RankIn(accepted, runAgent.config) \in Nat
  BY <1>1, RankFacts DEF SettingsInv, Log, Sound
<1>3. CASE runAgent'.config = runAgent.config
  BY <1>2, <1>3
<1>4. CASE Config!ApplyPending /\ runAgent' = Config!Copy(Config!Wanted(runAgent), None)
  <2>1. Config!Wanted(runAgent) \in Config!Settings /\ In(accepted, Config!Wanted(runAgent))
    BY <1>1 DEF Sound, Config!Wanted, Config!Copies
  <2>2. runAgent'.config = Config!Wanted(runAgent)
    BY <1>4, <2>1, CopyTyped
  <2>3. RankIn(accepted, Config!Wanted(runAgent)) \in Nat
    BY <2>1, RankFacts DEF SettingsInv, Log
  <2> QED
    BY <1>1, <1>2, <2>2, <2>3 DEF Sound, Config!Wanted
<1>5. CASE Config!ConsumeCommands
  BY <1>1, <1>3, <1>5 DEF Config!ConsumeCommands, Config!Consume, Config!Copies
<1>6. CASE UNCHANGED runAgent
  BY <1>3, <1>6
<1> QED
  BY <1>4, <1>5, <1>6
  DEF Config!Next, configVars, Config!run, Config!request, Config!Ask, Config!GiveUp,
      Config!SaveAtRest, Config!SaveInRun, Config!Busy, Config!StartRun, Config!Hurry,
         Config!Announce,
      Config!ApplyPending, Config!Respond, Config!AgentEnds, Config!AgentPanics,
         Config!Publish, Config!Settle


-----------------------------------------------------------------------------
\* A step of the stores is a step of each part or leaves it alone.
mcVars == <<part, vars, keptVars, planVars, storeVars, choiceVars, configVars>>

LEMMA PartSteps ==
  [MCNext]_mcVars => [Next]_vars /\ [Choice!Next]_choiceVars /\ [Config!Next]_configVars
BY DEF MCNext, mcVars

\* FollowUps, FollowUpKeepsTask: however the run of a message ends, the task it
\* interrupted is as it was found, and delivered sources are stored with the
\* results that cite them (question.rs, run; web.rs, block_after_panic), for any
\* bounds.
THEOREM TaskSurvivesMessages == MCSpec => []FollowUpKeepsTask
<1>1. MCInit => MessageInv
  BY MessageInit DEF MCInit
<1>2. MessageInv /\ [MCNext]_mcVars => MessageInv'
  BY MessageNext, PartSteps
<1>3. MessageInv => FollowUpKeepsTask
  BY DEF MessageInv, Pending, Cited, Returned, FollowUpKeepsTask, Untouched, OfMessage, MessageRuns
<1> QED
  BY <1>1, <1>2, <1>3, PTL DEF MCSpec, mcVars

\* SessionTools, ChoiceKept: the user's latest choice of tools is what the owner
\* shows while a run has not heard of it, and in force or waiting after the run,
\* whatever stale snapshot arrives and however the run ends, unless the model
\* selected anew after hearing it (web.rs, publish_snapshot and start_run), for
\* any tools, batches and capacities, while nobody returns to a selection made
\* before.
THEOREM ChoiceIsKept == ASSUME ~Repeats PROVE MCSpec => []ChoiceKept
<1>1. MCInit => ChoiceInv
  BY ChoiceInit DEF MCInit
<1>2. ChoiceInv /\ [MCNext]_mcVars => ChoiceInv'
  BY ChoiceNext, PartSteps
<1>3. ChoiceInv => ChoiceKept
  BY DEF ChoiceInv, AtRest, Unspoken, Unheard, Aim, ChoiceKept, Choice!ChoiceKept,
         Choice!UserChoiceKept, Choice!Running, Choice!Stages
<1> QED
  BY <1>1, <1>2, <1>3, PTL DEF MCSpec, mcVars

\* SessionSettings, SettingsKept: the settings saved last are the owner's choice at
\* every moment, and a run never returns to older ones (web.rs, publish_snapshot and
\* the settlement), for any requests that ask for settings of their own.
THEOREM SettingsAreKept == MCSpec => SettingsKept
<1> Distinguished
  BY SettingsAssumption DEF Distinguished, Config!Settings
<1>1. MCInit => SettingsInv
  BY SettingsInit DEF MCInit
<1>2. SettingsInv /\ [MCNext]_mcVars => SettingsInv'
  BY SettingsNext, PartSteps
<1>3. SettingsInv => Config!Wanted(runOwner) = accepted[Len(accepted)]
  BY DEF SettingsInv, ChosenLast
<1>4. SettingsInv /\ [MCNext]_mcVars
        => [runAt # "idle" => Config!Rank(runAgent.config) <= Config!Rank(runAgent'.config)]_(Config!vars)
  BY OnlyNewer, PartSteps DEF configVars, Config!vars
<1> QED
  BY <1>1, <1>2, <1>3, <1>4, PTL DEF MCSpec, mcVars, SettingsKept, Config!SettingsKept

-----------------------------------------------------------------------------
\* A set of numbers that is not empty has a least one.
LEMMA LeastIs ==
  ASSUME NEW S \in SUBSET Nat, S # {}
  PROVE  \E x \in S : \A y \in S : x <= y
<1>1. PICK x \in S : \A y \in S : ~(<<y, x>> \in OpToRel(<, Nat))
  BY NatLessThanWellFounded, WFMin
<1>2. \A y \in S : ~(y < x)
  BY <1>1 DEF OpToRel
<1> QED
  BY <1>2

\* Induction up to m, on the set of the numbers for which something holds.
LEMMA Climb ==
  ASSUME NEW m \in Nat, NEW T, 0 \in T, \A n \in 1 .. m : n - 1 \in T => n \in T
  PROVE  \A n \in 0 .. m : n \in T
<1> DEFINE Bad == {n \in 0 .. m : n \notin T}
<1> SUFFICES ASSUME Bad # {} PROVE FALSE
  OBVIOUS
<1>1. Bad \in SUBSET Nat
  OBVIOUS
<1>2. PICK n \in Bad : \A k \in Bad : n <= k
  <2> HIDE DEF Bad
  <2> QED
    BY <1>1, LeastIs
<1>3. n \in 1 .. m /\ n \notin T
  BY <1>2
<1>4. n - 1 \in 0 .. m /\ ~(n <= n - 1)
  BY <1>3
<1>5. n - 1 \in T
  BY <1>2, <1>4
<1> QED
  BY <1>3, <1>5

LEMMA LowestIs ==
  ASSUME NEW S \in SUBSET Nat, S # {}
  PROVE  Kept!Lowest(S) \in S /\ \A y \in S : Kept!Lowest(S) <= y
BY LeastIs DEF Kept!Lowest

-----------------------------------------------------------------------------
\* History.

Groups == [id : Nat, kind : Kept!Kinds, size : Nat, active : BOOLEAN, reviewed : BOOLEAN]

\* The sums up to each place of a history.
Sums(h, m, f) == f = [n \in 0 .. m |-> IF n = 0 THEN 0 ELSE f[n - 1] + Kept!BundleBytes(h[n])]

LEMMA SumsExist ==
  ASSUME NEW h \in Seq(Groups)
  PROVE  \E f \in [0 .. Len(h) -> Nat] : Sums(h, Len(h), f)
<1> DEFINE Bad == {m \in Nat : m <= Len(h) /\ ~\E f \in [0 .. m -> Nat] : Sums(h, m, f)}
<1> SUFFICES ASSUME Bad # {} PROVE FALSE
  OBVIOUS
<1>1. PICK m \in Bad : \A k \in Bad : m <= k
  BY LeastIs
<1>2. m # 0
  <2>1. /\ [n \in 0 .. 0 |-> 0] \in [0 .. 0 -> Nat]
        /\ Sums(h, 0, [n \in 0 .. 0 |-> 0])
    BY DEF Sums
  <2> QED
    BY <2>1
<1>3. PICK f \in [0 .. m - 1 -> Nat] : Sums(h, m - 1, f)
  <2>1. m - 1 \in Nat /\ m - 1 <= Len(h) /\ ~(m <= m - 1)
    BY <1>1, <1>2
  <2>2. m - 1 \notin Bad
    <3> HIDE DEF Bad
    <3> QED
      BY <1>1, <2>1
  <2> QED
    BY <2>1, <2>2
<1>4. Kept!BundleBytes(h[m]) \in Nat
  <2>1. h[m] \in Groups
    BY <1>1, <1>2
  <2> QED
    BY <2>1 DEF Groups, Kept!BundleBytes
<1> DEFINE g == [n \in 0 .. m |-> IF n = m THEN f[m - 1] + Kept!BundleBytes(h[m]) ELSE f[n]]
<1>5. g \in [0 .. m -> Nat]
  BY <1>1, <1>2, <1>3, <1>4
<1>6. ASSUME NEW n \in 0 .. m
      PROVE  g[n] = IF n = 0 THEN 0 ELSE g[n - 1] + Kept!BundleBytes(h[n])
  BY <1>1, <1>2, <1>3 DEF Sums
<1>7. Sums(h, m, g)
  BY <1>5, <1>6 DEF Sums
<1> QED
  BY <1>1, <1>5, <1>7

LEMMA BytesNat ==
  ASSUME NEW h \in Seq(Groups)
  PROVE  Kept!Bytes(h) \in Nat /\ (Len(h) = 0 => Kept!Bytes(h) = 0)
<1> DEFINE upTo == CHOOSE f : Sums(h, Len(h), f)
<1>1. Sums(h, Len(h), upTo)
  BY SumsExist
<1>2. Kept!Bytes(h) = upTo[Len(h)]
  BY DEF Kept!Bytes, Sums
<1> QED
  BY <1>1, <1>2, SumsExist DEF Sums

-----------------------------------------------------------------------------
Pendings ==
  [open : BOOLEAN, ids : SUBSET Nat, maint : SUBSET Nat, acked : BOOLEAN, failed : BOOLEAN]
Names(c) == c.ids \cup c.maint

\* What a checkpoint names is retained, and may not leave.
Named(h, c, top) ==
  /\ h \in Seq(Groups)
  /\ \A i \in 1 .. Len(h) : h[i].id \in 1 .. top
  /\ \A i, j \in 1 .. Len(h) : i < j => h[i].id < h[j].id
  /\ \A id \in Names(c) : \E i \in 1 .. Len(h) : h[i].id = id
  /\ \A i \in 1 .. Len(h) : h[i].id \in Names(c) => ~Kept!Leavable(h[i])

\* How the groups of g may differ from those of h, where `ids` are retired.
Follows(h, g, maint, ids) ==
  \A i \in 1 .. Len(h) :
    \/ Kept!Leavable(h[i]) \/ h[i].id \in ids
    \/ \E j \in 1 .. Len(g) :
         /\ g[j].id = h[i].id /\ g[j].kind = h[i].kind
         /\ h[i].active => g[j].active \/ h[i].kind = "maintenance" \/ h[i].id \in maint

Intact(h, c, top, out) == Named(h, c, top) /\ Follows(history, h, cp.maint, out)

HistoryTyped ==
  /\ nextId \in Nat /\ limit \in Nat /\ pending \in Nat /\ phase \in Kept!Phases /\ cp \in Pendings
Promised == phase = "request" /\ ~cp.open => Kept!Bytes(history) <= limit
Acknowledged == phase = "commit" /\ cp.acked /\ ~cp.failed => batch = "saved"

HistoryInv == HistoryTyped /\ Named(history, cp, nextId) /\ Promised /\ Acknowledged

LEMMA IntactHistory == ASSUME HistoryInv PROVE Intact(history, cp, nextId, {})
BY DEF HistoryInv, Intact, Follows

LEMMA Relabelled ==
  ASSUME NEW h, NEW c, NEW top \in Nat, NEW out, Intact(h, c, top, out),
         NEW g \in Seq(Groups), Len(g) = Len(h),
         \A i \in 1 .. Len(h) :
           /\ g[i].id = h[i].id /\ g[i].kind = h[i].kind
           /\ h[i].id \in Names(c) => ~Kept!Leavable(g[i])
           /\ h[i].active => g[i].active \/ h[i].kind = "maintenance" \/ h[i].id \in cp.maint
  PROVE  Intact(g, c, top, out)
<1>1. Named(g, c, top)
  BY DEF Intact, Named
<1>2. Follows(history, g, cp.maint, out)
  BY DEF Intact, Follows, Named
<1> QED
  BY <1>1, <1>2 DEF Intact

LEMMA FinishIntact ==
  ASSUME NEW h, NEW c, NEW top \in Nat, NEW out, Intact(h, c, top, out)
  PROVE  Intact(Kept!FinishMaintenance(h, c), c, top, out)
<1> DEFINE g == Kept!FinishMaintenance(h, c)
<1>1. h \in Seq(Groups)
  BY DEF Intact, Named
<1>2. g = [i \in 1 .. Len(h) |->
             IF h[i].kind = "maintenance"
             THEN [h[i] EXCEPT !.active = FALSE, !.reviewed = h[i].id \notin c.ids \cup c.maint]
             ELSE h[i]]
  <2>1. DOMAIN h = 1 .. Len(h)
    BY <1>1
  <2> QED
    BY <2>1 DEF Kept!FinishMaintenance
<1>3. ASSUME NEW i \in 1 .. Len(h)
      PROVE  /\ g[i] \in Groups /\ g[i].id = h[i].id /\ g[i].kind = h[i].kind
             /\ h[i].id \in Names(c) => ~Kept!Leavable(g[i])
             /\ h[i].active => g[i].active \/ h[i].kind = "maintenance"
  <2>1. h[i] \in Groups
    BY <1>1
  <2>2. CASE h[i].kind = "maintenance"
    <3> DEFINE r == h[i].id \notin c.ids \cup c.maint
    <3>1. g[i] = [h[i] EXCEPT !.active = FALSE, !.reviewed = r] /\ r \in BOOLEAN
      BY <1>2, <2>2
    <3>2. h[i].id \in Names(c) => ~r
      BY DEF Names
    <3> HIDE DEF g, r
    <3> QED
      BY <2>1, <2>2, <3>1, <3>2 DEF Groups, Kept!Leavable
  <2>3. CASE h[i].kind # "maintenance"
    <3>1. g[i] = h[i]
      BY <1>2, <2>3
    <3> HIDE DEF g
    <3> QED
      BY <2>1, <3>1 DEF Intact, Named
  <2> QED
    BY <2>2, <2>3
<1>4. g \in Seq(Groups) /\ Len(g) = Len(h)
  <2>1. g = [i \in 1 .. Len(h) |-> g[i]]
    BY <1>2
  <2> HIDE DEF g
  <2> QED
    BY <1>1, <1>3, <2>1
<1>5. Intact(g, c, top, out)
  <2> HIDE DEF g
  <2> QED
    BY <1>3, <1>4, Relabelled
<1> QED
  BY <1>5 DEF g

LEMMA AppendIntact ==
  ASSUME NEW h, NEW c, NEW top \in Nat, NEW out, Intact(h, c, top, out),
         NEW b \in Groups, b.id = top + 1,
         Names(c) \subseteq Nat
  PROVE  /\ Intact(Append(h, b), c, top + 1, out)
         /\ Len(Append(h, b)) = Len(h) + 1 /\ Append(h, b)[Len(h) + 1] = b
<1> DEFINE g == Append(h, b)
<1>1. /\ h \in Seq(Groups) /\ g \in Seq(Groups) /\ Len(g) = Len(h) + 1 /\ g[Len(h) + 1] = b
      /\ \A i \in 1 .. Len(h) : g[i] = h[i]
  BY DEF Intact, Named
<1>2. \A i \in 1 .. Len(h) : h[i].id \in 1 .. top
  BY DEF Intact, Named
<1>3. top + 1 \notin Names(c)
  BY <1>2 DEF Intact, Named
<1> HIDE DEF g
<1>4. Named(g, c, top + 1)
  <2>1. \A i \in 1 .. Len(g) : g[i].id \in 1 .. top + 1
    BY <1>1, <1>2
  <2>2. ASSUME NEW i \in 1 .. Len(g), NEW j \in 1 .. Len(g), i < j
        PROVE  g[i].id < g[j].id
    <3>1. i \in 1 .. Len(h) /\ g[i] = h[i] /\ h[i].id \in 1 .. top
      BY <1>1, <1>2, <2>2
    <3>2. CASE j \in 1 .. Len(h)
      BY <1>1, <2>2, <3>1, <3>2 DEF Intact, Named
    <3>3. CASE j = Len(h) + 1
      BY <1>1, <3>1, <3>3
    <3> QED
      BY <1>1, <3>2, <3>3
  <2>3. \A id \in Names(c) : \E i \in 1 .. Len(g) : g[i].id = id
    BY <1>1 DEF Intact, Named
  <2>4. \A i \in 1 .. Len(g) : g[i].id \in Names(c) => ~Kept!Leavable(g[i])
    BY <1>1, <1>3 DEF Intact, Named
  <2> QED
    BY <1>1, <2>1, <2>2, <2>3, <2>4 DEF Named
<1>5. Follows(history, g, cp.maint, out)
  <2>1. \A j \in 1 .. Len(h) : j \in 1 .. Len(g) /\ g[j] = h[j]
    BY <1>1
  <2> QED
    BY <2>1 DEF Intact, Follows
<1>6. Intact(g, c, top + 1, out)
  BY <1>4, <1>5 DEF Intact
<1> QED
  BY <1>1, <1>6 DEF g

LEMMA NamesIntact ==
  ASSUME NEW h, NEW c, NEW d, NEW top \in Nat, NEW out, Intact(h, c, top, out),
         \A id \in Names(d) \ Names(c) :
           \E i \in 1 .. Len(h) : h[i].id = id /\ ~Kept!Leavable(h[i])
  PROVE  Intact(h, d, top, out)
<1>1. \A id \in Names(d) : \E i \in 1 .. Len(h) : h[i].id = id
  BY DEF Intact, Named
<1>2. ASSUME NEW i \in 1 .. Len(h), h[i].id \in Names(d) PROVE ~Kept!Leavable(h[i])
  <2>1. CASE h[i].id \in Names(c)
    BY <2>1 DEF Intact, Named
  <2>2. CASE h[i].id \notin Names(c)
    <3>1. PICK j \in 1 .. Len(h) : h[j].id = h[i].id /\ ~Kept!Leavable(h[j])
      BY <1>2, <2>2
    <3>2. i = j
      <4>1. h[i].id \in Nat /\ h[j].id \in Nat
        BY DEF Intact, Named
      <4> QED
        BY <3>1, <4>1 DEF Intact, Named
    <3> QED
      BY <3>1, <3>2
  <2> QED
    BY <2>1, <2>2
<1> QED
  BY <1>1, <1>2 DEF Intact, Named

LEMMA BytesFit ==
  ASSUME NEW h \in Seq(Groups), NEW max \in Nat
  PROVE  /\ Kept!Excess(h, max) \in 0 .. Len(h)
         /\ Kept!Bytes(Kept!From(h, Kept!Excess(h, max))) <= max
<1> DEFINE Fit == {n \in 0 .. Len(h) : Kept!Bytes(Kept!From(h, n)) <= max}
<1>1. Len(h) \in Fit
  <2>1. Kept!From(h, Len(h)) \in Seq(Groups) /\ Len(Kept!From(h, Len(h))) = 0
    BY DEF Kept!From
  <2>2. Kept!Bytes(Kept!From(h, Len(h))) = 0
    BY <2>1, BytesNat
  <2> QED
    BY <2>2
<1>2. Kept!Lowest(Fit) \in Fit
  <2>1. Fit \in SUBSET Nat
    OBVIOUS
  <2> HIDE DEF Fit
  <2> QED
    BY <1>1, <2>1, LowestIs
<1> QED
  BY <1>2 DEF Kept!Excess

\* g is what is left of h, in which r retires `ids`, without the first n.
Leaves(h, ids, r, n, g) ==
  /\ \A i \in 1 .. Len(h) : r[i].id = h[i].id /\ (h[i].id \notin ids => r[i] = h[i])
  /\ \A i \in 1 .. n : Kept!Leavable(r[i])
  /\ g \in Seq(Groups) /\ Len(g) = Len(h) - n
  /\ \A i \in 1 .. Len(g) : i + n \in 1 .. Len(h) /\ g[i] = r[i + n]
  /\ \A i \in 1 .. Len(h) : i > n => i - n \in 1 .. Len(g) /\ g[i - n] = r[i]

LEMMA PruneIs ==
  ASSUME NEW h \in Seq(Groups), NEW max \in Nat, NEW ids, Kept!PruneFits(h, max, ids)
  PROVE  /\ \E r, n : n \in 0 .. Len(h) /\ Leaves(h, ids, r, n, Kept!Prune(h, max, ids))
         /\ Kept!Bytes(Kept!Prune(h, max, ids)) <= max
<1> DEFINE r == Kept!Retired(h, ids)
           n == Kept!Excess(r, max)
<1>1. r = [i \in 1 .. Len(h) |->
             IF h[i].id \in ids THEN [h[i] EXCEPT !.active = FALSE, !.reviewed = TRUE] ELSE h[i]]
  <2>1. DOMAIN h = 1 .. Len(h)
    BY DEF Groups
  <2> QED
    BY <2>1 DEF Kept!Retired
<1>2. r \in Seq(Groups) /\ Len(r) = Len(h)
  <2>1. ASSUME NEW i \in 1 .. Len(h) PROVE r[i] \in Groups
    <3>1. h[i] \in Groups
      OBVIOUS
    <3> QED
      BY <1>1, <3>1 DEF Groups
  <2>2. r = [i \in 1 .. Len(h) |-> r[i]]
    BY <1>1
  <2> HIDE DEF r
  <2> QED
    BY <2>1, <2>2
<1>3. n \in 0 .. Len(r) /\ Kept!Bytes(Kept!From(r, n)) <= max
  <2> HIDE DEF r
  <2> QED
    BY <1>2, BytesFit
<1>4. Kept!Prune(h, max, ids) = Kept!From(r, n) /\ \A i \in 1 .. n : Kept!Leavable(r[i])
  BY DEF Kept!Prune, Kept!PruneFits
<1>5. /\ Kept!From(r, n) \in Seq(Groups) /\ Len(Kept!From(r, n)) = Len(h) - n
      /\ \A i \in 1 .. Len(h) - n : Kept!From(r, n)[i] = r[i + n]
  <2> HIDE DEF r, n
  <2> QED
    BY <1>2, <1>3 DEF Kept!From
<1>6. \A i \in 1 .. Len(h) : r[i].id = h[i].id /\ (h[i].id \notin ids => r[i] = h[i])
  <2> SUFFICES ASSUME NEW i \in 1 .. Len(h)
               PROVE  r[i].id = h[i].id /\ (h[i].id \notin ids => r[i] = h[i])
    OBVIOUS
  <2>1. h[i] \in Groups
    OBVIOUS
  <2> QED
    BY <1>1, <2>1 DEF Groups
<1>7. Leaves(h, ids, r, n, Kept!From(r, n))
  <2>1. /\ \A i \in 1 .. Len(h) - n : i + n \in 1 .. Len(h)
        /\ \A i \in 1 .. Len(h) : i > n => i - n \in 1 .. Len(h) - n /\ (i - n) + n = i
    <3> HIDE DEF r, n
    <3> QED
      BY <1>2, <1>3
  <2> HIDE DEF r, n
  <2> QED
    BY <1>2, <1>3, <1>4, <1>5, <1>6, <2>1 DEF Leaves
<1> HIDE DEF r, n
<1> QED
  BY <1>2, <1>3, <1>4, <1>7

LEMMA LeavesOrdered ==
  ASSUME NEW h \in Seq(Groups), NEW ids, NEW r, NEW n \in 0 .. Len(h), NEW g,
         Leaves(h, ids, r, n, g),
         NEW top \in Nat, \A i \in 1 .. Len(h) : h[i].id \in 1 .. top,
         \A i, j \in 1 .. Len(h) : i < j => h[i].id < h[j].id
  PROVE  /\ \A i \in 1 .. Len(g) : g[i].id \in 1 .. top
         /\ \A i, j \in 1 .. Len(g) : i < j => g[i].id < g[j].id
<1>1. g \in Seq(Groups) /\ \A i \in 1 .. Len(g) : i + n \in 1 .. Len(h) /\ g[i].id = h[i + n].id
  BY DEF Leaves
<1>2. ASSUME NEW i \in 1 .. Len(g), NEW j \in 1 .. Len(g), i < j PROVE g[i].id < g[j].id
  <2>1. i + n \in 1 .. Len(h) /\ j + n \in 1 .. Len(h) /\ i + n < j + n
    BY <1>1, <1>2
  <2> QED
    BY <1>1, <2>1
<1>3. \A i \in 1 .. Len(g) : g[i].id \in 1 .. top
  BY <1>1
<1> QED
  BY <1>2, <1>3

LEMMA PruneIntact ==
  ASSUME HistoryInv, NEW max \in Nat, Kept!PruneFits(history, max, {})
  PROVE  /\ Intact(Kept!Prune(history, max, {}), cp, nextId, {})
         /\ Kept!Bytes(Kept!Prune(history, max, {})) <= max
<1> DEFINE g == Kept!Prune(history, max, {})
<1>1. history \in Seq(Groups) /\ nextId \in Nat
  BY DEF HistoryInv, Named, HistoryTyped
<1>2. PICK r, n : n \in 0 .. Len(history) /\ Leaves(history, {}, r, n, g)
  BY <1>1, PruneIs
<1> HIDE DEF g
<1>3. \A i \in 1 .. Len(history) : r[i] = history[i]
  BY <1>2 DEF Leaves
<1>4. Named(g, cp, nextId)
  <2>1. /\ \A i \in 1 .. Len(g) : g[i].id \in 1 .. nextId
        /\ \A i, j \in 1 .. Len(g) : i < j => g[i].id < g[j].id
    BY <1>1, <1>2, LeavesOrdered DEF HistoryInv, Named
  <2>2. ASSUME NEW id \in Names(cp) PROVE \E i \in 1 .. Len(g) : g[i].id = id
    <3>1. PICK i \in 1 .. Len(history) : history[i].id = id
      BY DEF HistoryInv, Named
    <3>2. ~Kept!Leavable(history[i])
      BY <3>1 DEF HistoryInv, Named
    <3>3. i > n
      BY <1>1, <1>2, <1>3, <3>2 DEF Leaves
    <3>4. i - n \in 1 .. Len(g) /\ g[i - n] = history[i]
      BY <1>2, <1>3, <3>3 DEF Leaves
    <3> QED
      BY <3>1, <3>4
  <2>3. \A i \in 1 .. Len(g) : g[i].id \in Names(cp) => ~Kept!Leavable(g[i])
    BY <1>2, <1>3 DEF HistoryInv, Named, Leaves
  <2>4. g \in Seq(Groups)
    BY <1>2 DEF Leaves
  <2> QED
    BY <2>1, <2>2, <2>3, <2>4 DEF Named
<1>5. Follows(history, g, cp.maint, {})
  <2> SUFFICES ASSUME NEW i \in 1 .. Len(history), ~Kept!Leavable(history[i])
               PROVE  \E j \in 1 .. Len(g) : g[j] = history[i]
    BY DEF Follows
  <2>1. i > n
    BY <1>1, <1>2, <1>3 DEF Leaves
  <2> QED
    BY <1>2, <1>3, <2>1 DEF Leaves
<1>6. Kept!Bytes(g) <= max
  BY <1>1, PruneIs DEF g
<1> QED
  BY <1>4, <1>5, <1>6 DEF Intact, g

LEMMA CommitIntact ==
  ASSUME HistoryInv, NEW max \in Nat, Kept!PruneFits(history, max, Names(cp))
  PROVE  Intact(Kept!Prune(history, max, Names(cp)), Kept!NoCheckpoint, nextId, Names(cp))
<1> DEFINE g == Kept!Prune(history, max, Names(cp))
<1>1. history \in Seq(Groups) /\ nextId \in Nat
  BY DEF HistoryInv, Named, HistoryTyped
<1>2. PICK r, n : n \in 0 .. Len(history) /\ Leaves(history, Names(cp), r, n, g)
  BY <1>1, PruneIs
<1> HIDE DEF g
<1>3. Named(g, Kept!NoCheckpoint, nextId)
  <2>1. /\ \A i \in 1 .. Len(g) : g[i].id \in 1 .. nextId
        /\ \A i, j \in 1 .. Len(g) : i < j => g[i].id < g[j].id
    BY <1>1, <1>2, LeavesOrdered DEF HistoryInv, Named
  <2>2. g \in Seq(Groups)
    BY <1>2 DEF Leaves
  <2> QED
    BY <2>1, <2>2 DEF Named, Names, Kept!NoCheckpoint
<1>4. Follows(history, g, cp.maint, Names(cp))
  <2> SUFFICES ASSUME NEW i \in 1 .. Len(history), ~Kept!Leavable(history[i]),
                      history[i].id \notin Names(cp)
               PROVE  \E j \in 1 .. Len(g) : g[j] = history[i]
    BY DEF Follows
  <2>1. i > n /\ r[i] = history[i]
    BY <1>1, <1>2 DEF Leaves
  <2> QED
    BY <1>2, <2>1 DEF Leaves
<1> QED
  BY <1>3, <1>4 DEF Intact, g

-----------------------------------------------------------------------------
Confirms == batch = "saved" /\ cp.open /\ ~cp'.open
HistoryStep ==
  HistoryInv' /\ Follows(history, history', cp.maint, IF Confirms THEN Names(cp) ELSE {})

LEMMA Stepped ==
  ASSUME HistoryInv, HistoryTyped', Intact(history', cp', nextId', {}), Promised', Acknowledged'
  PROVE  HistoryStep
BY DEF HistoryStep, HistoryInv, Intact, Follows

LEMMA Stopped ==
  ASSUME HistoryInv, NEW h, NEW c \in Pendings, Kept!Stop(h, c), Intact(h, c, nextId', {}),
         nextId' \in Nat, limit' \in Nat, pending' \in Nat
  PROVE  HistoryStep
<1>1. Intact(history', cp', nextId', {})
  BY FinishIntact DEF Kept!Stop
<1>2. HistoryTyped' /\ Promised' /\ Acknowledged'
  BY DEF Kept!Stop, HistoryTyped, Promised, Acknowledged, Kept!Phases
<1> QED
  BY <1>1, <1>2, Stepped

LEMMA CheckpointFacts ==
  ASSUME NEW c \in Pendings
  PROVE  /\ Names(c) \subseteq Nat /\ Kept!Fresh(c) \in Pendings /\ Names(Kept!Fresh(c)) = Names(c)
         /\ Kept!NoCheckpoint \in Pendings /\ Names(Kept!NoCheckpoint) = {}
BY DEF Names, Pendings, Kept!NoCheckpoint, Kept!Fresh

LEMMA InMaintIs ==
  ASSUME cp \in Pendings, NEW id \in Nat
  PROVE  Kept!InMaint(id) \in Pendings /\ Names(Kept!InMaint(id)) \subseteq Names(cp) \cup {id}
BY DEF Names, Pendings, Kept!NoCheckpoint, Kept!InMaint

LEMMA BundleIs ==
  ASSUME HistoryInv, NEW kind \in Kept!Kinds, NEW size \in Nat, NEW a \in BOOLEAN, NEW v \in BOOLEAN
  PROVE  /\ Kept!Bundle(kind, size, a, v) \in Groups
         /\ Kept!Bundle(kind, size, a, v).id = nextId + 1
         /\ Kept!Bundle(kind, size, a, v).active = a
BY DEF HistoryInv, HistoryTyped, Groups, Kept!Bundle

LEMMA PushIntact ==
  ASSUME HistoryInv, NEW h, NEW top \in Nat, Intact(h, cp, top, {}),
         NEW b \in Groups, b.id = top + 1
  PROVE  /\ Intact(Append(h, b), cp, top + 1, {})
         /\ b.active => Intact(Append(h, b), Kept!InMaint(top + 1), top + 1, {})
<1>1. cp \in Pendings
  BY DEF HistoryInv, HistoryTyped
<1>2. /\ Intact(Append(h, b), cp, top + 1, {})
      /\ Len(Append(h, b)) = Len(h) + 1 /\ Append(h, b)[Len(h) + 1] = b
  <2>1. Names(cp) \subseteq Nat
    BY <1>1, CheckpointFacts
  <2> QED
    BY <2>1, AppendIntact
<1>3. ASSUME b.active PROVE Intact(Append(h, b), Kept!InMaint(top + 1), top + 1, {})
  <2>1. Len(h) + 1 \in 1 .. Len(Append(h, b)) /\ ~Kept!Leavable(b)
    <3>1. Len(h) \in Nat
      BY DEF Intact, Named
    <3> QED
      BY <1>2, <1>3, <3>1 DEF Kept!Leavable
  <2>2. \A id \in Names(Kept!InMaint(top + 1)) \ Names(cp) : id = top + 1
    BY <1>1, InMaintIs
  <2> DEFINE g == Append(h, b)
             d == Kept!InMaint(top + 1)
  <2>3. \A id \in Names(d) \ Names(cp) : \E i \in 1 .. Len(g) : g[i].id = id /\ ~Kept!Leavable(g[i])
    <3> HIDE DEF d
    <3> QED
      BY <1>2, <2>1, <2>2 DEF d
  <2>4. Intact(g, cp, top + 1, {}) /\ top + 1 \in Nat
    BY <1>2
  <2> HIDE DEF g, d
  <2>5. Intact(g, d, top + 1, {})
    BY <2>3, <2>4, NamesIntact
  <2> QED
    BY <2>5 DEF g, d
<1> QED
  BY <1>2, <1>3

LEMMA RoomIntact ==
  ASSUME HistoryInv, NEW bytes \in Nat, Kept!RoomFor(bytes)
  PROVE  Intact(Kept!MakeRoom(bytes), cp, nextId, {})
<1> DEFINE max == IF bytes > limit THEN 0 ELSE limit - bytes
<1>1. max \in Nat
  BY DEF HistoryInv, HistoryTyped
<1>2. CASE Kept!Bytes(history) + bytes <= limit
  BY <1>2, IntactHistory DEF Kept!MakeRoom
<1>3. CASE ~(Kept!Bytes(history) + bytes <= limit)
  <2>1. Kept!PruneFits(history, max, {}) /\ Kept!MakeRoom(bytes) = Kept!Prune(history, max, {})
    BY <1>3 DEF Kept!RoomFor, Kept!MakeRoom
  <2> HIDE DEF max
  <2> QED
    BY <1>1, <2>1, PruneIntact
<1> QED
  BY <1>2, <1>3

-----------------------------------------------------------------------------
LEMMA RestOf ==
  ASSUME HistoryInv
  PROVE  /\ nextId \in Nat /\ limit \in Nat /\ pending \in Nat /\ cp \in Pendings
         /\ history \in Seq(Groups) /\ Intact(history, cp, nextId, {})
         /\ Intact(history, Kept!Fresh(cp), nextId, {}) /\ Kept!Fresh(cp) \in Pendings
         /\ Intact(history, Kept!NoCheckpoint, nextId, {}) /\ Kept!NoCheckpoint \in Pendings
<1>1. nextId \in Nat /\ limit \in Nat /\ pending \in Nat /\ cp \in Pendings
      /\ history \in Seq(Groups)
  BY DEF HistoryInv, HistoryTyped, Named
<1>2. Intact(history, cp, nextId, {})
  BY IntactHistory
<1>3. Kept!Fresh(cp) \in Pendings /\ Kept!NoCheckpoint \in Pendings
  BY <1>1, CheckpointFacts
<1>4. /\ \A id \in Names(Kept!Fresh(cp)) : id \in Names(cp)
      /\ \A id \in Names(Kept!NoCheckpoint) : id \in Names(cp)
  BY <1>1, CheckpointFacts
<1> QED
  BY <1>1, <1>2, <1>3, <1>4, NamesIntact

\* What the web server starts.
LEMMA StartKeeps ==
  ASSUME HistoryInv, NEW z \in Sizes, Kept!StartTask(z) PROVE HistoryStep
<1> DEFINE b == Kept!Bundle("work", z, TRUE, FALSE)
<1>1. b \in Groups /\ b.id = nextId + 1
  BY BytesAssumption, BundleIs DEF Kept!Kinds
<1>2. history = <<>>
  <2>1. Len(history) = 0
    BY RestOf DEF HistoryInv, Named, Kept!StartTask
  <2> QED
    BY <2>1, RestOf
<1>3. Append(history, b) = <<b>>
  BY <1>2
<1>4. history' = Append(history, b) /\ nextId' = nextId + 1
  <2>1. history' = <<b>> /\ nextId = 0 /\ nextId' = 1
    BY DEF Kept!StartTask
  <2> HIDE DEF b
  <2> QED
    BY <1>3, <2>1
<1>5. Intact(history', cp', nextId', {})
  <2> HIDE DEF b
  <2> QED
    BY <1>1, <1>4, RestOf, PushIntact DEF Kept!StartTask
<1>6. HistoryTyped' /\ Promised' /\ Acknowledged'
  BY <1>4, RestOf DEF Kept!StartTask, HistoryTyped, Promised, Acknowledged, Kept!Phases
<1> QED
  BY <1>5, <1>6, Stepped

LEMMA ResumeKeeps == ASSUME HistoryInv, Kept!Resume PROVE HistoryStep
<1>1. Intact(history', cp', nextId', {})
  BY RestOf DEF Kept!Resume
<1>2. HistoryTyped' /\ Promised' /\ Acknowledged'
  BY RestOf DEF Kept!Resume, HistoryTyped, Promised, Acknowledged, Kept!Phases
<1> QED
  BY <1>1, <1>2, Stepped

LEMMA CleanupKeeps ==
  ASSUME HistoryInv, NEW z \in Sizes, Kept!Cleanup(z) PROVE HistoryStep
<1> DEFINE b == Kept!Bundle("maintenance", z, TRUE, FALSE)
           h == Kept!FinishMaintenance(history, cp)
<1>1. b \in Groups /\ b.id = nextId + 1
  BY BytesAssumption, BundleIs DEF Kept!Kinds
<1>2. Intact(h, cp, nextId, {})
  BY RestOf, FinishIntact
<1>3. history' = Append(h, b) /\ nextId' = nextId + 1 /\ cp' = Kept!Fresh(cp)
  BY DEF Kept!Cleanup
<1>4. Intact(history', cp, nextId', {})
  <2> HIDE DEF b, h
  <2> QED
    BY <1>1, <1>2, <1>3, RestOf, PushIntact
<1>5. Intact(history', cp', nextId', {})
  <2>1. \A id \in Names(cp') : id \in Names(cp)
    BY <1>3, RestOf, CheckpointFacts
  <2>2. nextId' \in Nat
    BY <1>3, RestOf
  <2> QED
    BY <1>4, <2>1, <2>2, NamesIntact
<1>6. HistoryTyped' /\ Promised' /\ Acknowledged'
  BY <1>3, RestOf DEF Kept!Cleanup, HistoryTyped, Promised, Acknowledged, Kept!Phases
<1> QED
  BY <1>5, <1>6, Stepped

LEMMA MessageKeeps ==
  ASSUME HistoryInv, NEW z \in Sizes, NEW q \in BOOLEAN, Kept!Message(z, q) PROVE HistoryStep
<1> DEFINE b == Kept!Bundle("question", z, FALSE, TRUE)
           bytes == z + 1 + (IF q THEN Room ELSE 0)
           h == Kept!MakeRoom(bytes)
<1>1. b \in Groups /\ b.id = nextId + 1
  BY BytesAssumption, BundleIs DEF Kept!Kinds
<1>2. bytes \in Nat
  BY BytesAssumption
<1>3. /\ Kept!RoomFor(bytes) /\ history' = Append(h, b) /\ nextId' = nextId + 1
      /\ phase' \in {"answer", "routing"}
      /\ cp' = cp /\ limit' = limit /\ pending' = pending
  BY DEF Kept!Message
<1> HIDE DEF b, bytes
<1>4. Intact(h, cp, nextId, {})
  BY <1>2, <1>3, RoomIntact
<1> HIDE DEF h
<1>5. Intact(history', cp', nextId', {})
  BY <1>1, <1>3, <1>4, RestOf, PushIntact
<1>6. HistoryTyped' /\ Promised' /\ Acknowledged'
  BY <1>3, RestOf DEF HistoryTyped, Promised, Acknowledged, Kept!Phases
<1> QED
  BY <1>5, <1>6, Stepped

LEMMA SettingsKeep ==
  ASSUME HistoryInv, NEW new \in Limits, NEW fits \in BOOLEAN,
         Kept!Settings(new, fits) \/ Kept!QuestionSettings(new, fits)
  PROVE  HistoryStep
<1>1. /\ history' = history /\ nextId' = nextId /\ cp' = cp
      /\ phase' \in {"idle", "routing", "answer"} /\ limit' \in Nat /\ pending' \in Nat
  BY BytesAssumption, RestOf DEF Kept!Settings, Kept!QuestionSettings, Kept!QuestionEnd
<1>2. Intact(history', cp', nextId', {})
  BY <1>1, RestOf
<1>3. HistoryTyped' /\ Promised' /\ Acknowledged'
  BY <1>1, RestOf DEF HistoryTyped, Promised, Acknowledged, Kept!Phases
<1> QED
  BY <1>2, <1>3, Stepped

-----------------------------------------------------------------------------
LEMMA MapIntact ==
  ASSUME NEW h, NEW c, NEW top \in Nat, Intact(h, c, top, {}), NEW g, g = [i \in DOMAIN h |-> g[i]],
         \A i \in 1 .. Len(h) :
           /\ g[i] \in Groups /\ g[i].id = h[i].id /\ g[i].kind = h[i].kind
           /\ h[i].id \in Names(c) => ~Kept!Leavable(g[i])
           /\ h[i].active => g[i].active \/ h[i].kind = "maintenance" \/ h[i].id \in cp.maint
  PROVE  Intact(g, c, top, {})
<1>1. h \in Seq(Groups) /\ DOMAIN h = 1 .. Len(h)
  BY DEF Intact, Named
<1>2. g \in Seq(Groups) /\ Len(g) = Len(h)
  BY <1>1
<1> QED
  BY <1>2, Relabelled

\* A follow-up question.
LEMMA AmendKeeps == ASSUME HistoryInv, Kept!Amend PROVE HistoryStep
<1> DEFINE g == [i \in DOMAIN history |->
                   IF history[i].id = asked THEN [history[i] EXCEPT !.active = TRUE] ELSE history[i]]
<1>1. g = [i \in DOMAIN history |-> g[i]] /\ DOMAIN history = 1 .. Len(history)
  BY RestOf
<1>2. ASSUME NEW i \in 1 .. Len(history)
      PROVE  /\ g[i] \in Groups /\ g[i].id = history[i].id /\ g[i].kind = history[i].kind
             /\ Kept!Leavable(g[i]) => Kept!Leavable(history[i])
             /\ history[i].active => g[i].active
  <2>1. history[i] \in Groups
    BY RestOf
  <2> QED
    BY <1>1, <2>1 DEF Groups, Kept!Leavable
<1>3. \A i \in 1 .. Len(history) : history[i].id \in Names(cp) => ~Kept!Leavable(g[i])
  BY <1>2 DEF HistoryInv, Named
<1>4. /\ history' = g /\ cp' = Kept!Fresh(cp) /\ phase' = "boundary"
      /\ nextId' = nextId /\ limit' = limit /\ pending' = pending
  BY DEF Kept!Amend
<1> HIDE DEF g
<1>5. Intact(g, cp, nextId, {})
  BY <1>1, <1>2, <1>3, RestOf, MapIntact
<1>6. Intact(history', cp', nextId', {})
  <2>1. Names(cp') = Names(cp)
    BY <1>4, RestOf, CheckpointFacts
  <2> QED
    BY <1>4, <1>5, <2>1, RestOf, NamesIntact
<1>7. HistoryTyped' /\ Promised' /\ Acknowledged'
  BY <1>4, RestOf DEF HistoryTyped, Promised, Acknowledged, Kept!Phases
<1> QED
  BY <1>6, <1>7, Stepped

LEMMA DiscussKeeps == ASSUME HistoryInv, Kept!Discuss PROVE HistoryStep
<1>1. /\ nextId' = nextId /\ cp' = cp /\ limit' = limit /\ pending' = pending
      /\ phase' \in {"answer", "idle"}
      /\ \/ history' = history
         \/ Kept!RoomFor(Room) /\ history' = Kept!MakeRoom(Room)
  BY DEF Kept!Discuss, Kept!QuestionEnd
<1>2. Intact(history', cp', nextId', {})
  BY <1>1, BytesAssumption, RestOf, RoomIntact
<1>3. HistoryTyped' /\ Promised' /\ Acknowledged'
  BY <1>1, RestOf DEF HistoryTyped, Promised, Acknowledged, Kept!Phases
<1> QED
  BY <1>2, <1>3, Stepped

LEMMA QuestionFailsKeeps == ASSUME HistoryInv, Kept!QuestionFails PROVE HistoryStep
<1>1. Intact(history', cp', nextId', {})
  BY RestOf DEF Kept!QuestionFails
<1>2. HistoryTyped' /\ Promised' /\ Acknowledged'
  BY RestOf
  DEF Kept!QuestionFails, Kept!QuestionEnd, HistoryTyped, Promised, Acknowledged, Kept!Phases
<1> QED
  BY <1>1, <1>2, Stepped

\* A long result is archived in a group of its own.
LEMMA ArchiveIntact ==
  ASSUME HistoryInv, NEW archive \in BOOLEAN,
         NEW more, more = IF archive THEN <<Kept!Bundle("archive", 1, FALSE, FALSE)>> ELSE <<>>
  PROVE  /\ Intact(history \o more, cp, nextId + Len(more), {}) /\ Len(more) \in Nat
         /\ history \o more \in Seq(Groups)
<1> DEFINE b == Kept!Bundle("archive", 1, FALSE, FALSE)
<1>1. b \in Groups /\ b.id = nextId + 1
  BY BundleIs DEF Kept!Kinds
<1>2. more = IF archive THEN <<b>> ELSE <<>>
  OBVIOUS
<1> HIDE DEF b
<1>3. CASE archive
  <2>1. history \o more = Append(history, b) /\ Len(more) = 1
    <3>1. more = <<b>> /\ history \in Seq(Groups)
      BY <1>2, <1>3, RestOf
    <3>2. history \o <<b>> = Append(history, b) /\ Len(<<b>>) = 1
      BY <1>1, <3>1, AppendIsConcat
    <3> QED
      BY <3>1, <3>2
  <2>2. Intact(Append(history, b), cp, nextId + 1, {})
    BY <1>1, RestOf, PushIntact
  <2>3. Append(history, b) \in Seq(Groups)
    BY <1>1, RestOf
  <2> QED
    BY <2>1, <2>2, <2>3
<1>4. CASE ~archive
  <2>1. history \o more = history /\ Len(more) = 0 /\ nextId + 0 = nextId
    BY <1>2, <1>4, RestOf
  <2> QED
    BY <2>1, RestOf
<1> QED
  BY <1>3, <1>4

LEMMA AnswerKeeps ==
  ASSUME HistoryInv, NEW archive \in BOOLEAN, NEW last \in BOOLEAN, Kept!AnswerStep(archive, last)
  PROVE  HistoryStep
<1> DEFINE more == IF archive THEN <<Kept!Bundle("archive", 1, FALSE, FALSE)>> ELSE <<>>
           h == history \o more
           g == Kept!Grown(h)
<1>1. /\ cp' = cp /\ limit' = limit /\ pending' = pending /\ phase' \in {phase, "idle"}
      /\ phase \in {"answer", "routing"}
      /\ \/ history' = history /\ nextId' = nextId
         \/ history' = g /\ nextId' = nextId + Len(more)
  BY DEF Kept!AnswerStep, Kept!QuestionEnd
<1>2. Intact(h, cp, nextId + Len(more), {}) /\ Len(more) \in Nat /\ h \in Seq(Groups)
  BY ArchiveIntact
<1> HIDE DEF h, more
<1>3. g = [i \in DOMAIN h |-> g[i]] /\ DOMAIN h = 1 .. Len(h)
  BY <1>2 DEF Kept!Grown
<1>4. ASSUME NEW i \in 1 .. Len(h)
      PROVE  /\ g[i] \in Groups /\ g[i].id = h[i].id /\ g[i].kind = h[i].kind
             /\ Kept!Leavable(g[i]) => Kept!Leavable(h[i])
             /\ h[i].active => g[i].active
  <2>1. h[i] \in Groups
    BY <1>2
  <2>2. g[i] = IF h[i].id = asked THEN [h[i] EXCEPT !.size = @ + 1] ELSE h[i]
    BY <1>3 DEF Kept!Grown
  <2> HIDE DEF g
  <2> QED
    BY <2>1, <2>2 DEF Groups, Kept!Leavable
<1> HIDE DEF g
<1>5. Intact(g, cp, nextId + Len(more), {})
  <2>1. \A i \in 1 .. Len(h) : h[i].id \in Names(cp) => ~Kept!Leavable(g[i])
    BY <1>2, <1>4 DEF Intact, Named
  <2>2. nextId + Len(more) \in Nat
    BY <1>2, RestOf
  <2> QED
    BY <1>2, <1>3, <1>4, <2>1, <2>2, MapIntact
<1>6. Intact(history', cp', nextId', {})
  BY <1>1, <1>5, RestOf
<1>7. HistoryTyped' /\ Promised' /\ Acknowledged'
  BY <1>1, <1>2, RestOf DEF HistoryTyped, Promised, Acknowledged, Kept!Phases
<1> QED
  BY <1>6, <1>7, Stepped

-----------------------------------------------------------------------------
\* A run of the agent loop.
LEMMA BoundaryKeeps ==
  ASSUME HistoryInv, NEW new \in Limits \cup {0}, NEW fits \in BOOLEAN, Kept!Boundary(new, fits)
  PROVE  HistoryStep
<1> DEFINE applies == new # 0 /\ fits /\ Kept!PruneFits(history, new, {})
           h == IF applies THEN Kept!Prune(history, new, {}) ELSE history
<1>1. /\ nextId' = nextId /\ limit' = (IF applies THEN new ELSE limit)
      /\ pending' = (IF applies THEN 0 ELSE new)
      /\ \/ Kept!Stop(h, cp)
         \/ history' = h /\ phase' = "prepare" /\ cp' = cp
  BY DEF Kept!Boundary
<1>2. new \in Nat /\ nextId' \in Nat /\ limit' \in Nat /\ pending' \in Nat
  BY <1>1, BytesAssumption, RestOf
<1>3. Intact(h, cp, nextId, {})
  BY <1>2, RestOf, PruneIntact
<1> HIDE DEF h, applies
<1>4. CASE Kept!Stop(h, cp)
  BY <1>1, <1>2, <1>3, <1>4, RestOf, Stopped
<1>5. CASE history' = h /\ phase' = "prepare" /\ cp' = cp
  <2>1. HistoryTyped' /\ Promised' /\ Acknowledged'
    BY <1>2, <1>5, RestOf DEF HistoryTyped, Promised, Acknowledged, Kept!Phases
  <2> QED
    BY <1>1, <1>3, <1>5, <2>1, Stepped
<1> QED
  BY <1>1, <1>4, <1>5

LEMMA RunOutKeeps ==
  ASSUME HistoryInv, NEW report \in BOOLEAN, Kept!RunOut(report) PROVE HistoryStep
<1> DEFINE b == Kept!Bundle("work", 1, TRUE, FALSE)
           h == IF report THEN Append(history, b) ELSE history
<1>1. b \in Groups /\ b.id = nextId + 1
  BY BundleIs DEF Kept!Kinds
<1>2. /\ Kept!Stop(h, cp) /\ nextId' = nextId + (IF report THEN 1 ELSE 0)
      /\ limit' = limit /\ pending' = pending
  BY DEF Kept!RunOut
<1> HIDE DEF b
<1>3. Intact(h, cp, nextId', {}) /\ nextId' \in Nat
  BY <1>1, <1>2, RestOf, PushIntact
<1> HIDE DEF h
<1> QED
  BY <1>2, <1>3, RestOf, Stopped

LEMMA StopsKeep ==
  ASSUME HistoryInv,
         \/ \E large, over, wanted : Kept!DoesNotFit(large, over, wanted)
         \/ Kept!RetryLimit
  PROVE  HistoryStep
<1>1. /\ Kept!Stop(history, Kept!NoCheckpoint) \/ Kept!Stop(history, cp)
      /\ nextId' = nextId /\ limit' = limit /\ pending' = pending
  BY DEF Kept!DoesNotFit, Kept!RetryLimit
<1> QED
  BY <1>1, RestOf, Stopped

LEMMA TowardIs ==
  ASSUME HistoryInv, NEW ids
  PROVE  /\ Kept!Toward(history, ids) \in Nat /\ Kept!Toward(history, ids) <= limit
         /\ Kept!PruneFits(history, limit, ids) =>
              Kept!PruneFits(history, Kept!Toward(history, ids), ids)
<1>1. Kept!Floor(limit) \in Nat /\ Kept!Floor(limit) <= limit
  <2>1. limit \in Nat
    BY RestOf
  <2> QED
    BY <2>1 DEF Kept!Floor
<1> QED
  BY <1>1, RestOf DEF Kept!Toward

LEMMA PrepareKeeps ==
  ASSUME HistoryInv, NEW large \in BOOLEAN, NEW over \in BOOLEAN, NEW wanted,
         Kept!Prepare(large, over, wanted)
  PROVE  HistoryStep
<1> DEFINE d == [Kept!NoCheckpoint EXCEPT !.open = TRUE, !.ids = Kept!Chosen(wanted)]
<1>1. nextId' = nextId /\ limit' = limit /\ pending' = pending
  BY DEF Kept!Prepare
<1>2. CASE Kept!Stop(history, cp)
  BY <1>1, <1>2, RestOf, Stopped
<1>3. CASE /\ Kept!PruneFits(history, limit, {}) \/ Kept!Bytes(history) < limit
           /\ history' = Kept!Keep /\ phase' = "request" /\ cp' = cp
  <2>1. CASE Kept!Bytes(history) >= limit
    <3> DEFINE max == Kept!Toward(history, {})
    <3>1. Kept!PruneFits(history, limit, {})
      BY <1>3, <2>1, RestOf, BytesNat
    <3>2. max \in Nat /\ max <= limit /\ Kept!PruneFits(history, max, {})
      BY <3>1, TowardIs
    <3>3. history' = Kept!Prune(history, max, {})
      BY <1>3, <2>1 DEF Kept!Keep
    <3> HIDE DEF max
    <3>4. Intact(history', cp', nextId', {}) /\ Kept!Bytes(history') <= max
      BY <1>1, <1>3, <3>2, <3>3, PruneIntact
    <3>5. Kept!Bytes(history') <= limit'
      <4>1. Kept!Bytes(history') \in Nat
        BY <3>4, BytesNat DEF Intact, Named
      <4> QED
        BY <1>1, <3>2, <3>4, <4>1, RestOf
    <3>6. HistoryTyped' /\ Promised' /\ Acknowledged'
      BY <1>1, <1>3, <3>5, RestOf DEF HistoryTyped, Promised, Acknowledged, Kept!Phases
    <3> QED
      BY <3>4, <3>6, Stepped
  <2>2. CASE ~(Kept!Bytes(history) >= limit)
    <3>1. history' = history /\ Kept!Bytes(history') <= limit'
      BY <1>1, <1>3, <2>2, RestOf, BytesNat DEF Kept!Keep
    <3>2. HistoryTyped' /\ Promised' /\ Acknowledged'
      BY <1>1, <1>3, <3>1, RestOf DEF HistoryTyped, Promised, Acknowledged, Kept!Phases
    <3> QED
      BY <1>1, <1>3, <3>1, <3>2, RestOf, Stepped
  <2> QED
    BY <2>1, <2>2
<1>4. CASE cp' = d /\ phase' = "request" /\ history' = history
  <2>1. \A id \in Kept!Chosen(wanted) :
          \E i \in 1 .. Len(history) : history[i].id = id /\ ~Kept!Leavable(history[i])
    <3> SUFFICES ASSUME NEW k, NEW i \in Kept!Oldest(Kept!Candidates, k)
                 PROVE  i \in 1 .. Len(history) /\ ~Kept!Leavable(history[i])
      BY DEF Kept!Chosen, Kept!First
    <3>1. i \in DOMAIN history /\ (history[i].active \/ ~history[i].reviewed)
      BY DEF Kept!Oldest, Kept!Candidates
    <3> QED
      BY <3>1, RestOf DEF Kept!Leavable
  <2>2. Kept!Chosen(wanted) \subseteq Nat
    BY <2>1, RestOf DEF HistoryInv, Named
  <2>3. d \in Pendings /\ Names(d) = Kept!Chosen(wanted) /\ d.open
    BY <2>2 DEF Pendings, Names, Kept!NoCheckpoint
  <2> HIDE DEF d
  <2>4. Intact(history, d, nextId, {})
    BY <2>1, <2>3, RestOf, NamesIntact
  <2>5. HistoryTyped' /\ Promised' /\ Acknowledged'
    BY <1>1, <1>4, <2>3, RestOf DEF HistoryTyped, Promised, Acknowledged, Kept!Phases
  <2> QED
    BY <1>1, <1>4, <2>4, <2>5, Stepped
<1> QED
  BY <1>2, <1>3, <1>4 DEF Kept!Prepare

LEMMA RoundKeeps ==
  ASSUME HistoryInv, NEW n, Kept!Round(n) PROVE HistoryStep
<1> DEFINE rounds == {i \in DOMAIN history : history[i].id \in cp.maint /\ history[i].active}
           g == [i \in DOMAIN history |->
                   IF i \in Kept!Oldest(rounds, n)
                   THEN [history[i] EXCEPT !.active = FALSE, !.reviewed = FALSE] ELSE history[i]]
<1>1. /\ cp.open /\ history' = g /\ cp' = Kept!Fresh(cp) /\ phase' = "request"
      /\ nextId' = nextId /\ limit' = limit /\ pending' = pending
  BY DEF Kept!Round
<1>2. g = [i \in DOMAIN history |-> g[i]] /\ DOMAIN history = 1 .. Len(history)
  BY RestOf
<1>3. ASSUME NEW i \in 1 .. Len(history)
      PROVE  /\ g[i] \in Groups /\ g[i].id = history[i].id /\ g[i].kind = history[i].kind
             /\ Kept!Leavable(g[i]) => Kept!Leavable(history[i])
             /\ history[i].active => g[i].active \/ history[i].id \in cp.maint
  <2>1. history[i] \in Groups
    BY RestOf
  <2>2. i \in Kept!Oldest(rounds, n) => history[i].id \in cp.maint
    BY DEF Kept!Oldest
  <2>3. g[i] = IF i \in Kept!Oldest(rounds, n)
               THEN [history[i] EXCEPT !.active = FALSE, !.reviewed = FALSE] ELSE history[i]
    BY <1>2
  <2> HIDE DEF g, rounds
  <2> QED
    BY <2>1, <2>2, <2>3 DEF Groups, Kept!Leavable
<1> HIDE DEF g
<1>4. Intact(g, cp, nextId, {})
  <2>1. \A i \in 1 .. Len(history) : history[i].id \in Names(cp) => ~Kept!Leavable(g[i])
    BY <1>3 DEF HistoryInv, Named
  <2> QED
    BY <1>2, <1>3, <2>1, RestOf, MapIntact
<1>5. Intact(history', cp', nextId', {}) /\ cp'.open
  <2>1. Names(cp') = Names(cp) /\ cp'.open = cp.open
    BY <1>1, RestOf, CheckpointFacts DEF Kept!Fresh, Pendings
  <2> QED
    BY <1>1, <1>4, <2>1, RestOf, NamesIntact
<1>6. HistoryTyped' /\ Promised' /\ Acknowledged'
  BY <1>1, <1>5, RestOf DEF HistoryTyped, Promised, Acknowledged, Kept!Phases
<1> QED
  BY <1>5, <1>6, Stepped

LEMMA CutReplyKeeps ==
  ASSUME HistoryInv, NEW z \in Sizes, NEW more \in BOOLEAN, Kept!CutReply(z, more) PROVE HistoryStep
<1> DEFINE b == Kept!Bundle("partial", z, TRUE, FALSE)
           h == Append(history, b)
           c == Kept!InMaint(nextId + 1)
<1>1. b \in Groups /\ b.id = nextId + 1 /\ b.active
  BY BytesAssumption, BundleIs DEF Kept!Kinds
<1>2. /\ nextId' = nextId + 1 /\ limit' = limit /\ pending' = pending
      /\ Kept!Stop(h, c) \/ (history' = h /\ cp' = c /\ phase' = "boundary")
  BY DEF Kept!CutReply
<1>3. c \in Pendings /\ nextId' \in Nat
  BY <1>2, RestOf, InMaintIs
<1> HIDE DEF b
<1>4. Intact(h, c, nextId', {})
  BY <1>1, <1>2, RestOf, PushIntact
<1> HIDE DEF h, c
<1>5. CASE Kept!Stop(h, c)
  BY <1>2, <1>3, <1>4, <1>5, RestOf, Stopped
<1>6. CASE history' = h /\ cp' = c /\ phase' = "boundary"
  <2>1. HistoryTyped' /\ Promised' /\ Acknowledged'
    BY <1>2, <1>3, <1>6, RestOf DEF HistoryTyped, Promised, Acknowledged, Kept!Phases
  <2> QED
    BY <1>4, <1>6, <2>1, Stepped
<1> QED
  BY <1>2, <1>5, <1>6

LEMMA TextReplyKeeps ==
  ASSUME HistoryInv, NEW z \in Sizes, NEW visible \in BOOLEAN, NEW ends \in BOOLEAN,
         Kept!TextReply(z, visible, ends)
  PROVE  HistoryStep
<1> DEFINE b == Kept!Bundle("work", z, TRUE, FALSE)
           h == IF visible THEN Append(history, b) ELSE history
           c == IF visible THEN Kept!InMaint(nextId + 1) ELSE cp
<1>1. b \in Groups /\ b.id = nextId + 1 /\ b.active
  BY BytesAssumption, BundleIs DEF Kept!Kinds
<1>2. /\ nextId' = nextId + (IF visible THEN 1 ELSE 0) /\ limit' = limit /\ pending' = pending
      /\ Kept!Stop(h, cp) \/ (history' = h /\ cp' = c /\ phase' = "boundary")
  BY DEF Kept!TextReply
<1>3. c \in Pendings /\ nextId' \in Nat
  BY <1>2, RestOf, InMaintIs
<1> HIDE DEF b
<1>4. Intact(h, cp, nextId', {}) /\ Intact(h, c, nextId', {})
  <2>1. CASE visible
    BY <1>1, <1>2, <2>1, RestOf, PushIntact
  <2>2. CASE ~visible
    BY <1>2, <2>2, RestOf
  <2> QED
    BY <2>1, <2>2
<1> HIDE DEF h, c
<1>5. CASE Kept!Stop(h, cp)
  BY <1>2, <1>3, <1>4, <1>5, RestOf, Stopped
<1>6. CASE history' = h /\ cp' = c /\ phase' = "boundary"
  <2>1. HistoryTyped' /\ Promised' /\ Acknowledged'
    BY <1>2, <1>3, <1>6, RestOf DEF HistoryTyped, Promised, Acknowledged, Kept!Phases
  <2> QED
    BY <1>4, <1>6, <2>1, Stepped
<1> QED
  BY <1>2, <1>5, <1>6

LEMMA NoReplyKeeps ==
  ASSUME HistoryInv, NEW again \in BOOLEAN, Kept!NoReply(again) PROVE HistoryStep
<1>1. /\ nextId' = nextId /\ limit' = limit /\ pending' = pending
      /\ Kept!Stop(history, cp) \/ (history' = history /\ cp' = cp /\ phase' = "boundary")
  BY DEF Kept!NoReply
<1>2. CASE Kept!Stop(history, cp)
  BY <1>1, <1>2, RestOf, Stopped
<1>3. CASE history' = history /\ cp' = cp /\ phase' = "boundary"
  <2>1. HistoryTyped' /\ Promised' /\ Acknowledged'
    BY <1>1, <1>3, RestOf DEF HistoryTyped, Promised, Acknowledged, Kept!Phases
  <2> QED
    BY <1>1, <1>3, <2>1, RestOf, Stepped
<1> QED
  BY <1>1, <1>2, <1>3

LEMMA BatchKeeps ==
  ASSUME HistoryInv, NEW z \in Sizes, NEW archive \in BOOLEAN, NEW failed \in BOOLEAN,
         NEW completes \in BOOLEAN, NEW cancelled \in BOOLEAN,
         Kept!Batch(z, archive, failed, completes, cancelled)
  PROVE  HistoryStep
<1> DEFINE more == IF archive THEN <<Kept!Bundle("archive", 1, FALSE, FALSE)>> ELSE <<>>
           id == nextId + Len(more) + 1
           b == [Kept!Bundle("work", z, TRUE, FALSE) EXCEPT !.id = id]
           m == Kept!InMaint(id)
           c == [Kept!Called(m, failed, completes) EXCEPT !.acked = @ /\ ~cancelled]
           h == history \o more \o <<b>>
<1>1. /\ nextId' = id /\ limit' = limit /\ pending' = pending
      /\ batch' = (IF failed THEN "failed" ELSE IF cancelled THEN "cancelled"
                   ELSE IF completes THEN "saved" ELSE "unconfirmed")
      /\ \/ Kept!Stop(h, c)
         \/ history' = h /\ cp' = c /\ phase' = "commit"
  BY DEF Kept!Batch
<1>2. /\ Intact(history \o more, cp, nextId + Len(more), {}) /\ Len(more) \in Nat
      /\ history \o more \in Seq(Groups)
  BY ArchiveIntact
<1> HIDE DEF more
<1>3. id \in Nat /\ nextId + Len(more) \in Nat
  BY <1>2, RestOf
<1>4. b \in Groups /\ b.id = id /\ b.active
  <2>1. /\ Kept!Bundle("work", z, TRUE, FALSE) \in Groups
        /\ Kept!Bundle("work", z, TRUE, FALSE).active
    BY BytesAssumption, BundleIs DEF Kept!Kinds
  <2> HIDE DEF id
  <2> QED
    BY <1>3, <2>1 DEF Groups
<1> HIDE DEF b
<1>5. h = Append(history \o more, b)
  BY <1>2, <1>4, AppendIsConcat
<1> HIDE DEF h
<1>6. Intact(h, m, id, {})
  BY <1>2, <1>3, <1>4, <1>5, PushIntact
<1>7. m \in Pendings
  BY <1>3, RestOf, InMaintIs
<1> HIDE DEF m, id
<1>8. /\ c \in Pendings /\ Names(c) = Names(m)
      /\ c.acked => completes /\ ~failed /\ ~cancelled
  BY <1>7 DEF Pendings, Names, Kept!Called
<1> HIDE DEF c
<1>9. Intact(h, c, nextId', {}) /\ nextId' \in Nat
  BY <1>1, <1>3, <1>6, <1>8, NamesIntact
<1>10. CASE Kept!Stop(h, c)
  BY <1>1, <1>8, <1>9, <1>10, RestOf, Stopped
<1>11. CASE history' = h /\ cp' = c /\ phase' = "commit"
  <2>1. HistoryTyped' /\ Promised' /\ Acknowledged'
    BY <1>1, <1>8, <1>9, <1>11, RestOf DEF HistoryTyped, Promised, Acknowledged, Kept!Phases
  <2> QED
    BY <1>9, <1>11, <2>1, Stepped
<1> QED
  BY <1>1, <1>10, <1>11

LEMMA CommitKeeps ==
  ASSUME HistoryInv, NEW more \in BOOLEAN, NEW stated \in BOOLEAN, Kept!Commit(more, stated)
  PROVE  HistoryStep
<1> DEFINE ids == Names(cp)
           committed == /\ Kept!Confirmed /\ ids \subseteq Kept!Ids(history) /\ stated
                        /\ Kept!PruneFits(history, Kept!Toward(history, ids), ids)
           h == IF committed THEN Kept!Prune(history, Kept!Toward(history, ids), ids) ELSE history
           c == IF committed THEN Kept!NoCheckpoint ELSE cp
<1>1. /\ phase = "commit" /\ nextId' = nextId /\ limit' = limit /\ pending' = pending
      /\ Kept!Stop(h, c) \/ (history' = h /\ cp' = c /\ phase' = "boundary")
  BY DEF Kept!Commit, Names
<1>2. CASE ~committed
  <2>1. h = history /\ c = cp
    BY <1>2
  <2> HIDE DEF h, c, committed
  <2>2. CASE Kept!Stop(h, c)
    BY <1>1, <2>1, <2>2, RestOf, Stopped
  <2>3. CASE history' = h /\ cp' = c /\ phase' = "boundary"
    <3>1. HistoryTyped' /\ Promised' /\ Acknowledged'
      BY <1>1, <2>1, <2>3, RestOf DEF HistoryTyped, Promised, Acknowledged, Kept!Phases
    <3> QED
      BY <1>1, <2>1, <2>3, <3>1, RestOf, Stepped
  <2> QED
    BY <1>1, <2>2, <2>3
<1>3. CASE committed
  <2> DEFINE g == Kept!Prune(history, Kept!Toward(history, ids), ids)
  <2>1. h = g /\ c = Kept!NoCheckpoint /\ Kept!Confirmed
    BY <1>3
  <2>2. Intact(g, Kept!NoCheckpoint, nextId, ids)
    <3>1. Kept!Toward(history, ids) \in Nat
      BY TowardIs
    <3> QED
      BY <1>3, <3>1, CommitIntact
  <2> HIDE DEF g, h, c, committed
  <2>3. Intact(history', Kept!NoCheckpoint, nextId, ids) /\ cp' = Kept!NoCheckpoint
    <3>1. Intact(Kept!FinishMaintenance(g, Kept!NoCheckpoint), Kept!NoCheckpoint, nextId, ids)
      BY <2>2, RestOf, FinishIntact
    <3> QED
      BY <1>1, <2>1, <2>2, <3>1 DEF Kept!Stop
  <2>4. phase' \in {"idle", "boundary"}
    BY <1>1 DEF Kept!Stop
  <2>5. HistoryTyped' /\ Promised' /\ Acknowledged'
    BY <1>1, <2>3, <2>4, RestOf DEF HistoryTyped, Promised, Acknowledged, Kept!Phases
  <2>6. Confirms
    BY <1>1, <2>1, <2>3 DEF Confirms, HistoryInv, Acknowledged, Kept!Confirmed, Kept!NoCheckpoint
  <2>7. HistoryInv'
    BY <1>1, <2>3, <2>5 DEF HistoryInv, Intact
  <2> QED
    BY <2>3, <2>6, <2>7 DEF HistoryStep, Intact
<1> QED
  BY <1>2, <1>3

-----------------------------------------------------------------------------
LEMMA HistoryInit == ASSUME Kept!Init PROVE HistoryInv
<1>1. HistoryTyped /\ Promised /\ Acknowledged
  BY BytesAssumption
  DEF Kept!Init, HistoryTyped, Promised, Acknowledged, Kept!Phases, Pendings, Kept!NoCheckpoint
<1>2. history = <<>> /\ Names(cp) = {}
  BY DEF Kept!Init, Names, Kept!NoCheckpoint
<1>3. Named(history, cp, nextId)
  <2>1. history \in Seq(Groups) /\ Len(history) = 0
    BY <1>2
  <2> QED
    BY <1>2, <2>1 DEF Named
<1> QED
  BY <1>1, <1>3 DEF HistoryInv

LEMMA HistoryMoves == ASSUME HistoryInv, Kept!Next PROVE HistoryStep
BY StartKeeps, ResumeKeeps, CleanupKeeps, MessageKeeps, SettingsKeep, AmendKeeps, DiscussKeeps,
   QuestionFailsKeeps, AnswerKeeps, BoundaryKeeps, RunOutKeeps, StopsKeep, PrepareKeeps, RoundKeeps,
   CutReplyKeeps, TextReplyKeeps, NoReplyKeeps, BatchKeeps, CommitKeeps
DEF Kept!Next

LEMMA HistoryNext == ASSUME HistoryInv, [Kept!Next]_keptVars PROVE HistoryInv'
<1>1. CASE UNCHANGED keptVars
  BY <1>1 DEF keptVars, HistoryInv, HistoryTyped, Named, Promised, Acknowledged, Names
<1> QED
  BY <1>1, HistoryMoves DEF HistoryStep

\* Without pressure the groups in front that may leave are enough.
LEMMA FitsWithoutPressure ==
  ASSUME HistoryInv, ~Kept!Pressure, Kept!Bytes(history) >= limit
  PROVE  Kept!PruneFits(history, limit, {})
<1> DEFINE may(b) == Kept!Leavable(b) \/ b.id \in {}
           stops == {Len(history)} \cup {i - 1 : i \in {j \in DOMAIN history : ~may(history[j])}}
           n == Kept!Lowest(stops)
<1>1. history \in Seq(Groups) /\ DOMAIN history = 1 .. Len(history) /\ limit \in Nat
  BY RestOf
<1>2. n \in stops /\ \A m \in stops : n <= m
  <2>1. stops \in SUBSET Nat /\ stops # {}
    BY <1>1
  <2> HIDE DEF stops
  <2> QED
    BY <2>1, LowestIs
<1>3. n \in 0 .. Len(history)
  <2> HIDE DEF n
  <2> QED
    BY <1>1, <1>2
<1>4. ASSUME NEW i \in 1 .. n PROVE Kept!Leavable(history[i])
  <2>1. SUFFICES ASSUME ~may(history[i]) PROVE FALSE
    OBVIOUS
  <2>2. i \in DOMAIN history /\ i - 1 < n
    BY <1>1, <1>3
  <2>3. i - 1 \in stops
    BY <2>1, <2>2
  <2> HIDE DEF stops
  <2> QED
    BY <1>2, <1>3, <2>2, <2>3
<1>5. Kept!Bytes(Kept!From(history, n)) <= limit
  <2>1. Kept!Retained({}) = Kept!Bytes(Kept!From(history, n))
    BY DEF Kept!Retained
  <2>2. Kept!Retained({}) \in Nat
    <3>1. Kept!From(history, n) \in Seq(Groups)
      <4> HIDE DEF n
      <4> QED
        BY <1>1, <1>3 DEF Kept!From
    <3> QED
      BY <2>1, <3>1, BytesNat
  <2>3. Kept!Floor(limit) \in Nat /\ Kept!Floor(limit) <= limit
    BY <1>1 DEF Kept!Floor
  <2>4. ~(Kept!Retained({}) > Kept!Floor(limit))
    BY DEF Kept!Pressure
  <2> HIDE DEF n
  <2> QED
    BY <1>1, <2>1, <2>2, <2>3, <2>4
<1> HIDE DEF n
<1> DEFINE r == Kept!Retired(history, {})
           k == Kept!Excess(r, limit)
<1>6. r = history
  <2>1. r = [i \in 1 .. Len(history) |-> history[i]]
    BY <1>1 DEF Kept!Retired
  <2> QED
    BY <1>1, <2>1
<1>7. k <= n /\ k \in Nat
  <2> DEFINE fit == {m \in 0 .. Len(r) : Kept!Bytes(Kept!From(r, m)) <= limit}
  <2>1. fit \in SUBSET Nat /\ n \in fit
    BY <1>1, <1>3, <1>5, <1>6
  <2>2. k = Kept!Lowest(fit)
    BY DEF Kept!Excess
  <2> HIDE DEF fit, k, r, stops
  <2>3. fit # {}
    BY <2>1
  <2>4. Kept!Lowest(fit) \in fit /\ \A m \in fit : Kept!Lowest(fit) <= m
    BY <2>1, <2>3, LowestIs
  <2> QED
    BY <2>1, <2>2, <2>4
<1>8. Kept!PruneFits(history, limit, {}) <=> \A i \in 1 .. k : Kept!Leavable(r[i])
  BY DEF Kept!PruneFits
<1> HIDE DEF k, r
<1> QED
  BY <1>3, <1>4, <1>6, <1>7, <1>8

LEMMA StaysReadable == ASSUME HistoryInv PROVE Kept!Readable
<1>1. cp.ids \cup cp.maint \subseteq Kept!Ids(history)
  <2>1. DOMAIN history = 1 .. Len(history)
    BY RestOf
  <2> QED
    BY <2>1 DEF HistoryInv, Named, Names, Kept!Ids
<1> QED
  BY <1>1, FitsWithoutPressure DEF HistoryInv, Promised, Kept!Readable

LEMMA LeavesAsConfirmed ==
  ASSUME HistoryInv, [Kept!Next]_keptVars PROVE [Kept!LeavesConfirmed]_keptVars
<1> SUFFICES ASSUME Kept!Next PROVE Kept!LeavesConfirmed
  OBVIOUS
<1>1. HistoryStep
  BY HistoryMoves
<1>2. /\ DOMAIN history = 1 .. Len(history)
      /\ \A j \in 1 .. Len(history') : history'[j] \in Kept!Range(history')
  <2>1. history' \in Seq(Groups)
    BY <1>1 DEF HistoryStep, HistoryInv, Named
  <2>2. DOMAIN history' = 1 .. Len(history')
    BY <2>1
  <2> QED
    BY <2>2, RestOf DEF Kept!Range
<1> DEFINE out == IF Confirms THEN Names(cp) ELSE {}
<1>3. ASSUME NEW i \in 1 .. Len(history)
      PROVE  \/ Kept!Leavable(history[i]) \/ history[i].id \in out
             \/ \E c \in Kept!Range(history') :
                  /\ c.id = history[i].id
                  /\ history[i].active =>
                       c.active \/ history[i].kind = "maintenance" \/ history[i].id \in cp.maint
  BY <1>1, <1>2 DEF HistoryStep, Follows
<1>4. \A id \in out : Confirms /\ (id \in cp.ids \/ id \in cp.maint)
  BY DEF Names
<1> HIDE DEF out
<1>5. ASSUME NEW b \in Kept!Range(history)
      PROVE  \/ Kept!Leavable(b) \/ b.id \in out
             \/ \E c \in Kept!Range(history') :
                  c.id = b.id /\ (b.active => c.active \/ b.kind = "maintenance" \/ b.id \in cp.maint)
  BY <1>2, <1>3 DEF Kept!Range
<1> QED
  BY <1>4, <1>5 DEF Kept!LeavesConfirmed, Kept!Leavable, Confirms

\* History, HistoryKept: what a pending checkpoint names can be read when it is
\* confirmed, a request without a checkpoint has a history within its limit, and
\* groups leave the context, or history before they were reviewed, through
\* confirmed checkpoints only (session.rs, prune_retiring; context.rs, prepare and
\* commit), for any limits, sizes and number of groups.
THEOREM GroupsStayKept == MCSpec => HistoryKept
<1>1. MCInit => HistoryInv
  BY HistoryInit DEF MCInit
<1>2. HistoryInv /\ [MCNext]_<<part, vars, keptVars, planVars, storeVars, choiceVars, configVars>>
      => HistoryInv'
  BY HistoryNext DEF MCNext
<1>3. HistoryInv => Kept!Readable
  BY StaysReadable
<1>4. HistoryInv /\ [MCNext]_<<part, vars, keptVars, planVars, storeVars, choiceVars, configVars>>
      => [Kept!LeavesConfirmed]_(Kept!vars)
  BY LeavesAsConfirmed DEF MCNext, keptVars, Kept!vars
<1> QED
  BY <1>1, <1>2, <1>3, <1>4, PTL DEF MCSpec, HistoryKept, Kept!HistoryKept
=============================================================================

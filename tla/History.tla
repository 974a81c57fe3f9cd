------------------------------ MODULE History ------------------------------
(***************************************************************************)
(* The retained history of a session (session.rs), the checkpoints that    *)
(* take groups of messages out of the model's context (context.rs), and    *)
(* the runs, follow-up questions and settings that push, hide, prune and   *)
(* confirm them (agent.rs, agent/question.rs, web.rs).  A group of messages *)
(* is a record with a size; tokens are a choice.                           *)
(***************************************************************************)
EXTENDS Integers, SequencesExt

CONSTANTS Limits,   \* the history_bytes a user may set
          Sizes,    \* bytes of a group's messages
          Room,     \* the bytes reserved for a follow-up answer
          MaxId,    \* bound: groups ever pushed
          MaxSize   \* bound: bytes of a question with its answers

VARIABLES history,    \* the bundles, oldest first
          nextId,     \* the last ID given
          cp,         \* the pending checkpoint
          partial,    \* a reply cut at the output limit is to be continued
          limit,      \* history_bytes in force
          pending,    \* history_bytes of the settings that wait, 0 for none
          phase,      \* idle, or the point the run or the question is at
          question,   \* the bundle of the pending message, 0 for none
          batch       \* what the last tool batch really did

vars == <<history, nextId, cp, partial, limit, pending, phase, question, batch>>

Kinds == {"work", "partial", "maintenance", "archive", "question"}
Phases == {"idle", "boundary", "prepare", "request", "commit", "routing", "answer"}
NoCheckpoint == [open |-> FALSE, ids |-> {}, maint |-> {}, acked |-> FALSE, failed |-> FALSE]

Lowest(S) == CHOOSE x \in S : \A y \in S : x <= y
Ids(h) == {h[i].id : i \in DOMAIN h}
Leavable(b) == ~b.active /\ b.reviewed                        \* may leave from the front
BundleBytes(b) == b.size + (IF b.active THEN 0 ELSE 1) + (IF b.reviewed THEN 0 ELSE 1)
Bytes(h) ==
  LET upTo[n \in 0..Len(h)] == IF n = 0 THEN 0 ELSE upTo[n - 1] + BundleBytes(h[n])
  IN upTo[Len(h)]
From(h, n) == SubSeq(h, n + 1, Len(h))
Bundle(kind, size, active, reviewed) ==
  [id |-> nextId + 1, kind |-> kind, size |-> size, active |-> active, reviewed |-> reviewed]

\* The flags a confirmed checkpoint publishes.
Retired(h, ids) ==
  [i \in DOMAIN h |->
     IF h[i].id \in ids THEN [h[i] EXCEPT !.active = FALSE, !.reviewed = TRUE] ELSE h[i]]

\* How many bundles have to leave for the rest to fit.
Excess(h, max) == Lowest({n \in 0..Len(h) : Bytes(From(h, n)) <= max})
PruneFits(h, max, ids) ==
  LET r == Retired(h, ids) IN \A i \in 1..Excess(r, max) : Leavable(r[i])
Prune(h, max, ids) == LET r == Retired(h, ids) IN From(r, Excess(r, max))

Floor(max) == (max * 4) \div 5
\* History at its limit goes down to the floor when what may leave allows it.
Toward(h, ids) ==
  IF Bytes(h) >= limit /\ PruneFits(h, Floor(limit), ids) THEN Floor(limit) ELSE limit

\* A cleanup instruction belongs to its run; one a checkpoint names stays
\* retained until that checkpoint commits.
FinishMaintenance(h, c) ==
  [i \in DOMAIN h |->
     IF h[i].kind = "maintenance"
     THEN [h[i] EXCEPT !.active = FALSE, !.reviewed = h[i].id \notin c.ids \cup c.maint]
     ELSE h[i]]

TypeOK ==
  /\ \A i \in DOMAIN history :
       /\ history[i].id \in 1..nextId /\ history[i].kind \in Kinds
       /\ i > 1 => history[i].id > history[i - 1].id
  /\ cp.ids \cup cp.maint \subseteq 1..nextId /\ (~cp.open => cp = NoCheckpoint)
  /\ limit \in Limits /\ pending \in Limits \cup {0} /\ phase \in Phases
  /\ (phase \in {"routing", "answer"}) = (question # 0)
  /\ batch \in {"none", "saved", "unconfirmed", "failed", "cancelled"}

Init ==
  /\ history = <<>> /\ nextId = 0 /\ cp = NoCheckpoint /\ partial = FALSE
  /\ limit \in Limits /\ pending = 0 /\ phase = "idle" /\ question = 0 /\ batch = "none"

---------------------------------------------------------------------------
\* What the web server starts.

Fresh(c) == [c EXCEPT !.acked = FALSE, !.failed = FALSE]
RoomFor(bytes) == \/ Bytes(history) + bytes <= limit
                  \/ PruneFits(history, IF bytes > limit THEN 0 ELSE limit - bytes, {})
MakeRoom(bytes) ==
  IF Bytes(history) + bytes <= limit THEN history
  ELSE Prune(history, IF bytes > limit THEN 0 ELSE limit - bytes, {})

StartTask(size) ==
  /\ phase = "idle" /\ nextId = 0
  /\ size + 1 <= limit                                     \* check_append
  /\ history' = <<Bundle("work", size, TRUE, FALSE)>> /\ nextId' = 1 /\ phase' = "boundary"
  /\ UNCHANGED <<cp, partial, limit, pending, question, batch>>

Resume ==
  /\ phase = "idle" /\ nextId > 0
  /\ cp' = Fresh(cp) /\ phase' = "boundary"
  /\ UNCHANGED <<history, nextId, partial, limit, pending, question, batch>>

Cleanup(size) ==
  /\ phase = "idle" /\ nextId \in 1..(MaxId - 1)
  /\ Bytes(history) + size + 1 <= 2 * limit                \* check_append
  /\ history' = Append(FinishMaintenance(history, cp), Bundle("maintenance", size, TRUE, FALSE))
  /\ nextId' = nextId + 1 /\ cp' = Fresh(cp) /\ phase' = "boundary"
  /\ UNCHANGED <<partial, limit, pending, question, batch>>

\* A message after the first waits for its routing; a question asked as such
\* also reserves the room of its answer.
Message(size, asked) ==
  LET bytes == size + 1 + (IF asked THEN Room ELSE 0)
      h == Append(MakeRoom(bytes), Bundle("question", size, FALSE, TRUE))
  IN /\ phase = "idle" /\ nextId \in 1..(MaxId - 1) /\ RoomFor(bytes)
     /\ Bytes(h) <= 2 * limit                              \* check_runtime_capacity
     /\ history' = h /\ nextId' = nextId + 1 /\ question' = nextId + 1
     /\ phase' = IF asked THEN "answer" ELSE "routing"
     /\ UNCHANGED <<cp, partial, limit, pending, batch>>

\* Settings saved while nothing runs: in force at once, or they wait.
Settings(new, fits) ==
  /\ phase = "idle"
  /\ IF fits /\ Bytes(history) <= new THEN limit' = new /\ pending' = 0
     ELSE pending' = new /\ UNCHANGED limit
  /\ UNCHANGED <<history, nextId, cp, partial, phase, question, batch>>

---------------------------------------------------------------------------
\* A follow-up question.

QuestionEnd == phase' = "idle" /\ question' = 0

\* Settings apply between the requests of a question only where nothing has to
\* be pruned; where they do not fit the question ends.
QuestionSettings(new, fits) ==
  /\ phase \in {"routing", "answer"}
  /\ IF fits /\ Bytes(history) <= new
     THEN limit' = new /\ pending' = 0 /\ UNCHANGED <<phase, question>>
     ELSE pending' = new /\ QuestionEnd /\ UNCHANGED limit
  /\ UNCHANGED <<history, nextId, cp, partial, batch>>

\* The message is an instruction: its bundle joins the context.
Amend ==
  LET h == [i \in DOMAIN history |->
              IF history[i].id = question THEN [history[i] EXCEPT !.active = TRUE] ELSE history[i]]
  IN /\ phase = "routing" /\ pending = 0 /\ Bytes(h) <= 2 * limit
     /\ history' = h /\ cp' = Fresh(cp) /\ partial' = FALSE
     /\ question' = 0 /\ phase' = "boundary"
     /\ UNCHANGED <<nextId, limit, pending, batch>>

Discuss ==
  /\ phase = "routing" /\ pending = 0
  /\ IF RoomFor(Room)
     THEN history' = MakeRoom(Room) /\ phase' = "answer" /\ UNCHANGED question
     ELSE QuestionEnd /\ UNCHANGED history
  /\ UNCHANGED <<nextId, cp, partial, limit, pending, batch>>

\* The text and the tool results of an answer grow the question's bundle; an
\* archived result is a bundle of its own.  All of it is stored, or nothing.
Grown(h) == [i \in DOMAIN h |-> IF h[i].id = question THEN [h[i] EXCEPT !.size = @ + 1] ELSE h[i]]
AnswerStep(archive, last) ==
  LET more == IF archive THEN <<Bundle("archive", 1, FALSE, FALSE)>> ELSE <<>>
      h == Grown(history \o more)
  IN /\ phase = "answer" \/ (phase = "routing" /\ last)   \* the fixed answer to a new task
     /\ pending = 0 /\ nextId + Len(more) <= MaxId /\ (last => ~archive)
     /\ \A i \in DOMAIN h : h[i].size <= MaxSize
     /\ IF question \in Ids(history) /\ Bytes(h) <= limit
        THEN /\ history' = h /\ nextId' = nextId + Len(more)
             /\ IF last THEN QuestionEnd ELSE UNCHANGED <<phase, question>>
        ELSE QuestionEnd /\ UNCHANGED <<history, nextId>>
     /\ UNCHANGED <<cp, partial, limit, pending, batch>>

QuestionFails ==
  /\ phase \in {"routing", "answer"} /\ QuestionEnd
  /\ UNCHANGED <<history, nextId, cp, partial, limit, pending, batch>>

---------------------------------------------------------------------------
\* A run of the agent loop.

\* The end of a run, with history and checkpoint c.
Stop(h, c) == history' = FinishMaintenance(h, c) /\ cp' = c /\ phase' = "idle"

\* Before each request: settings that wait apply where pruning makes them fit
\* (and the rest of the session does), or stay pending and prune nothing.
Boundary(new, fits) ==
  LET applies == new # 0 /\ fits /\ PruneFits(history, new, {})
      h == IF applies THEN Prune(history, new, {}) ELSE history
      max == IF applies THEN new ELSE limit
  IN /\ phase = "boundary" /\ (pending # 0 => new # 0) /\ (new = 0 => ~fits)
     /\ limit' = max /\ pending' = IF applies THEN 0 ELSE new
     /\ IF Bytes(h) > 2 * max                              \* history_hard_limit
        THEN Stop(h, cp)
        ELSE history' = h /\ phase' = "prepare" /\ UNCHANGED cp
     /\ UNCHANGED <<nextId, partial, question, batch>>

\* The run's time or budget ends, with the gap report of a document that is
\* saved or without one.
RunOut(report) ==
  /\ phase \in {"prepare", "request"} /\ nextId < MaxId
  /\ Stop(IF report THEN Append(history, Bundle("work", 1, TRUE, FALSE)) ELSE history, cp)
  /\ nextId' = nextId + (IF report THEN 1 ELSE 0)
  /\ UNCHANGED <<partial, limit, pending, question, batch>>

\* The reply being continued: the latest active bundle but for an instruction.
Continued ==
  LET shown == {i \in DOMAIN history : history[i].active /\ history[i].kind # "maintenance"}
      last == CHOOSE i \in shown : \A j \in shown : j <= i
  IN IF partial /\ shown # {} /\ history[last].kind = "partial" THEN {history[last].id} ELSE {}

\* Bytes left once a commit has pruned what may leave with `chosen`.
Retained(chosen) ==
  LET may(b) == Leavable(b) \/ b.id \in chosen
      n == Lowest({Len(history)} \cup {i - 1 : i \in {j \in DOMAIN history : ~may(history[j])}})
  IN Bytes(From(history, n))

HistoryLimit == IF pending \in 1..limit THEN pending ELSE limit
Pressure ==
  \/ Retained({}) >= HistoryLimit
  \/ Bytes(history) >= limit /\ Retained({}) > Floor(limit)

\* The places of the groups that may be chosen, none after the latest active one.
Candidates ==
  {i \in DOMAIN history : /\ history[i].active \/ ~history[i].reviewed
                         /\ \E j \in DOMAIN history : i <= j /\ history[j].active
                         /\ history[i].id \notin Continued}
Oldest(places, n) == {i \in places : Cardinality({j \in places : j < i}) < n}
First(n) == {history[i].id : i \in Oldest(Candidates, n)}

\* The oldest groups until both targets are met: `wanted` groups meet the one
\* of the context (one, where the request is below its threshold).
Chosen(wanted) ==
  LET target == IF Pressure THEN Floor(HistoryLimit) ELSE HistoryLimit
      met == {n \in wanted..Cardinality(Candidates) : Retained(First(n)) <= target}
  IN First(Lowest(met \cup {Cardinality(Candidates)}))

Keep == IF Bytes(history) >= limit THEN Prune(history, Toward(history, {}), {}) ELSE history
NoneNeeded(large) == ~large /\ ~Pressure
NoneLeft(over) == Candidates = {} /\ ~over /\ Retained({}) <= HistoryLimit

\* prepare: no checkpoint and perhaps a prune, a checkpoint, or no capacity.
\* `large` and `over`: the request is above the threshold, above the budget.
Prepare(large, over, wanted) ==
  /\ phase = "prepare" /\ ~cp.open /\ (over => large) /\ (large \/ wanted = 1)
  /\ IF NoneNeeded(large) \/ (Candidates = {} /\ NoneLeft(over))
     THEN IF PruneFits(history, limit, {}) \/ Bytes(history) < limit
          THEN history' = Keep /\ phase' = "request" /\ UNCHANGED cp
          ELSE Stop(history, cp)
     ELSE IF Candidates = {}
     THEN Stop(history, cp)                                \* context_capacity
     ELSE /\ cp' = [NoCheckpoint EXCEPT !.open = TRUE, !.ids = Chosen(wanted)]
          /\ phase' = "request" /\ UNCHANGED history
  /\ UNCHANGED <<nextId, partial, limit, pending, question, batch>>

\* What the checkpoint cannot retire is too large: it is dropped, and the run ends.
DoesNotFit(large, over, wanted) ==
  /\ phase = "prepare" /\ ~cp.open /\ (over => large) /\ (large \/ wanted = 1)
  /\ ~NoneNeeded(large) /\ Candidates # {}
  /\ Stop(history, NoCheckpoint)
  /\ UNCHANGED <<nextId, partial, limit, pending, question, batch>>

\* A pending checkpoint's request: the oldest `n` cleanup rounds leave the
\* context, never the latest.
Round(n) ==
  LET shown == {i \in DOMAIN history : history[i].id \in cp.maint /\ history[i].active}
  IN /\ phase = "prepare" /\ cp.open /\ (n = 0 \/ n < Cardinality(shown))
     /\ history' = [i \in DOMAIN history |->
                      IF i \in Oldest(shown, n)
                      THEN [history[i] EXCEPT !.active = FALSE, !.reviewed = FALSE]
                      ELSE history[i]]
     /\ cp' = Fresh(cp) /\ phase' = "request"
     /\ UNCHANGED <<nextId, partial, limit, pending, question, batch>>

RetryLimit ==
  /\ phase = "prepare" /\ cp.open /\ Stop(history, cp)
  /\ UNCHANGED <<nextId, partial, limit, pending, question, batch>>

InMaint(id) == IF cp.open THEN [cp EXCEPT !.maint = @ \cup {id}] ELSE cp

\* A reply cut at the output limit is kept and continued.
CutReply(size, more) ==
  /\ phase = "request" /\ nextId < MaxId
  /\ LET h == Append(history, Bundle("partial", size, TRUE, FALSE)) IN
     IF more THEN history' = h /\ cp' = InMaint(nextId + 1) /\ phase' = "boundary"
     ELSE Stop(h, InMaint(nextId + 1))
  /\ nextId' = nextId + 1 /\ partial' = (~cp.open \/ partial)
  /\ UNCHANGED <<limit, pending, question, batch>>

\* A reply without calls, which ends the run when it is accepted.  Document work
\* shows no final before that, so one that is refused leaves no bundle.
TextReply(size, shown, ends) ==
  LET h == IF shown THEN Append(history, Bundle("work", size, TRUE, FALSE)) ELSE history
  IN /\ phase = "request" /\ nextId < MaxId /\ (cp.open => shown /\ ~ends)
     /\ nextId' = nextId + (IF shown THEN 1 ELSE 0) /\ partial' = (cp.open /\ partial)
     /\ IF ends THEN Stop(h, cp)
        ELSE history' = h /\ cp' = (IF shown THEN InMaint(nextId + 1) ELSE cp) /\ phase' = "boundary"
     /\ UNCHANGED <<limit, pending, question, batch>>

\* A request that fails or a reply that cannot be used leaves no bundle.
NoReply(again) ==
  /\ phase = "request"
  /\ IF again THEN phase' = "boundary" /\ UNCHANGED <<history, cp>> ELSE Stop(history, cp)
  /\ UNCHANGED <<nextId, partial, limit, pending, question, batch>>

\* Mutant: a failed call does not hold the checkpoint.
CalledUnheld(c, failed, completes) == [c EXCEPT !.acked = c.open /\ completes]

\* A failed call of a cleanup batch holds the checkpoint, and its completion,
\* which runs last, is then refused: a refusal is itself such a failure.
Called(c, failed, completes) ==
  [c EXCEPT !.failed = c.open /\ failed, !.acked = c.open /\ completes /\ ~failed]

\* A tool batch: a long result is archived, the batch is one bundle.
Batch(size, archive, failed, completes, cancelled) ==
  LET more == IF archive THEN <<Bundle("archive", 1, FALSE, FALSE)>> ELSE <<>>
      id == nextId + Len(more) + 1
      h == history \o more \o <<[Bundle("work", size, TRUE, FALSE) EXCEPT !.id = id]>>
      c == [Called(InMaint(id), failed, completes) EXCEPT !.acked = @ /\ ~cancelled]
  IN /\ phase = "request" /\ id <= MaxId /\ (~cp.open => ~failed /\ ~completes)
     /\ nextId' = id /\ partial' = (cp.open /\ partial)
     /\ batch' = IF failed THEN "failed" ELSE IF cancelled THEN "cancelled"
                 ELSE IF completes THEN "saved" ELSE "unconfirmed"
     /\ IF cancelled THEN Stop(h, c) ELSE history' = h /\ cp' = c /\ phase' = "commit"
     /\ UNCHANGED <<limit, pending, question>>

\* After a batch: a confirmed checkpoint commits, as a whole or not at all, if
\* the state of the task it is to go on with can be shown (`stated`).
Confirmed == cp.open /\ cp.acked /\ ~cp.failed
Commit(more, stated) ==
  LET ids == cp.ids \cup cp.maint
      readable == ids \subseteq Ids(history)
      committed == /\ Confirmed /\ readable /\ stated
                   /\ PruneFits(history, Toward(history, ids), ids)
      h == IF committed THEN Prune(history, Toward(history, ids), ids) ELSE history
      c == IF committed THEN NoCheckpoint ELSE cp
  IN /\ phase = "commit"
     /\ IF ~more \/ (Confirmed /\ ~committed) \/ Bytes(h) > 2 * limit
        THEN Stop(h, c)
        ELSE history' = h /\ cp' = c /\ phase' = "boundary"
     /\ UNCHANGED <<nextId, partial, limit, pending, question, batch>>

Next ==
  \/ \E z \in Sizes : StartTask(z) \/ Cleanup(z)
  \/ Resume
  \/ \E z \in Sizes, asked \in BOOLEAN : Message(z, asked)
  \/ \E new \in Limits, fits \in BOOLEAN : Settings(new, fits) \/ QuestionSettings(new, fits)
  \/ Amend \/ Discuss \/ QuestionFails
  \/ \E archive, last \in BOOLEAN : AnswerStep(archive, last)
  \/ \E new \in Limits \cup {0}, fits \in BOOLEAN : Boundary(new, fits)
  \/ \E report \in BOOLEAN : RunOut(report)
  \/ \E large, over \in BOOLEAN, wanted \in 1..(Cardinality(Candidates) + 1) :
        Prepare(large, over, wanted) \/ DoesNotFit(large, over, wanted)
  \/ \E n \in 0..MaxId : Round(n)
  \/ RetryLimit
  \/ \E z \in Sizes, more \in BOOLEAN : CutReply(z, more)
  \/ \E z \in Sizes, shown, ends \in BOOLEAN : TextReply(z, shown, ends)
  \/ \E again \in BOOLEAN : NoReply(again)
  \/ \E z \in Sizes, archive, failed, completes, cancelled \in BOOLEAN :
        Batch(z, archive, failed, completes, cancelled)
  \/ \E more, stated \in BOOLEAN : Commit(more, stated)

Spec == Init /\ [][Next]_vars

---------------------------------------------------------------------------
\* Everything a pending checkpoint names is retained, so confirming it can
\* always read it; and a request sent without a checkpoint has a history within
\* its limit, which a prune that `prepare` did not expect to fail brings about.
Readable ==
  /\ cp.ids \cup cp.maint \subseteq Ids(history)
  /\ phase = "request" /\ ~cp.open => Bytes(history) <= limit
  /\ phase = "prepare" /\ ~cp.open /\ ~Pressure /\ Bytes(history) >= limit
       => PruneFits(history, limit, {})

\* A group leaves the model's context, or history before it was reviewed, only
\* through a checkpoint whose last batch saved everything and confirmed it.
\* Cleanup instructions and the hidden rounds of a cleanup are not the task's.
LeavesConfirmed ==
  LET confirmed == batch = "saved" /\ cp.open /\ ~cp'.open
      after(b) == {c \in Range(history') : c.id = b.id}
  IN \A b \in Range(history) :
       /\ b.active /\ (\A c \in after(b) : ~c.active)
            => \/ b.kind = "maintenance" \/ b.id \in cp.maint
               \/ confirmed /\ b.id \in cp.ids
       /\ after(b) = {}
            => Leavable(b) \/ (confirmed /\ b.id \in cp.ids \cup cp.maint)

\* What a checkpoint is to confirm stays readable, and nothing else leaves.
HistoryKept == []Readable /\ [][LeavesConfirmed]_vars
=============================================================================

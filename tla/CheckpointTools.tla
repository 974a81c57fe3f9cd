-------------------------- MODULE CheckpointTools --------------------------
(***************************************************************************)
(* Which tools a request offers and which its calls may run (tools.rs,      *)
(* ToolRegistry), and the batches of tool calls with which the model        *)
(* answers a checkpoint: what fails a batch, how long document edits stay   *)
(* open, and when the checkpoint is acknowledged.                           *)
(***************************************************************************)
EXTENDS Integers, FiniteSets

CONSTANTS MaxCheckpoints,  \* bound: checkpoints opened
          MaxCalls,        \* bound: calls of a batch before checkpoint_complete
          MaxBatches,      \* bound: batches of a checkpoint
          MaxRequests      \* DOCUMENT_CHECKPOINT_MAX_REQUESTS

VARIABLES document,        \* source_document or another workflow
          reuse,           \* memory_reuse
          question,        \* a read-only follow-up
          steer,           \* what the loop narrows the tools for
          written, cites,
          cp,              \* the checkpoint
          batches, editHeld, citesHeld,   \* checkpoint_write_batches, _edit_held, _citations_held
          pc, calls, offered,
          edited, held, refused   \* ghosts: of this checkpoint since the last instruction

modes == <<document, reuse, question, steer, written, cites>>
bounds == <<batches, editHeld, citesHeld>>
ghosts == <<edited, held, refused>>
vars == <<modes, cp, bounds, pc, calls, offered, ghosts>>

Edits == {"document_edit", "document_edit_batch"}
ProjectWrites == {"file_edit", "file_write", "file_patch"}
Discovery == {"file_list", "source_search"}
MemoryReads == {"memory_read", "memory_find"}
CheckpointBasics == MemoryReads \cup {"memory_write", "memory_manage", "task_state", "task_plan",
                                      "history", "checkpoint_complete", "source_lookup"}
QuestionTools == MemoryReads \cup Discovery
                   \cup {"file_read", "document_inspect", "source_lookup", "memory_write", "history"}
ClosingBlocked == MemoryReads \cup Discovery
                    \cup {"memory_write", "memory_manage", "history", "tool_catalog", "tool_select"}
Tools == Edits \cup ProjectWrites \cup Discovery \cup CheckpointBasics
           \cup {"file_read", "document_inspect", "document_audit", "tool_catalog", "tool_select"}

Lookups == 3                             \* CHECKPOINT_SOURCE_LOOKUP_LIMIT
\* failed_attempts counts a batch once and never passes attempts; it is left out.
NoCheckpoint == [id |-> 0, failed |-> FALSE, acked |-> FALSE, attempts |-> 0, lookups |-> 0]
Steers == {"none", "closing", "stalled", "focus", "focus_verify"}
Open == cp.id # 0 /\ ~question           \* a follow-up works on a copy without it
DocumentWork == document /\ ~question        \* and without the workflow
Unheld == [id |-> 0, at |-> 0]
NextId == (IF cp.id # 0 THEN cp.id ELSE batches.id) + 1

TypeOK ==
  /\ cp.id \in 0..MaxCheckpoints /\ cp.attempts \in 0..MaxRequests /\ cp.lookups \in 0..Lookups
  /\ batches.id \in 0..MaxCheckpoints /\ editHeld.id \in 0..MaxCheckpoints
  /\ citesHeld.id \in 0..MaxCheckpoints /\ offered \subseteq Tools
  /\ pc \in {"between", "calls", "completing", "stopped"} /\ calls \in 0..MaxCalls

Init ==
  /\ document \in BOOLEAN /\ reuse \in BOOLEAN /\ question \in BOOLEAN
  /\ steer = "none" /\ written \in BOOLEAN /\ cites = FALSE
  /\ cp = NoCheckpoint /\ batches = Unheld /\ editHeld = Unheld /\ citesHeld = Unheld
  /\ pc = "between" /\ calls = 0 /\ offered = {} /\ edited = {} /\ held = 0 /\ refused = 0

---------------------------------------------------------------------------
\* ToolRegistry.

Batches == IF batches.id = cp.id THEN batches.at ELSE 0
EditsReopened == editHeld.id = cp.id /\ Batches = editHeld.at + 1
EditsOpen ==
  /\ Open /\ DocumentWork
  /\ \/ Batches = 0
     \/ EditsReopened
     \/ citesHeld.id = cp.id /\ Batches \in citesHeld.at .. citesHeld.at + 1
CheckpointAllows(t) == t \in CheckpointBasics \/ (t \in Edits /\ EditsOpen)

ClosingWithholds(t) ==
  /\ ~Open /\ steer = "closing" /\ ~question
  /\ t \in ClosingBlocked \/ (~written /\ t \in {"file_read", "source_lookup"})
RecoveryWithholds(t) ==
  /\ ~Open /\ DocumentWork /\ written
  /\ \/ steer \in {"stalled", "focus"} /\ t \in Discovery
     \/ steer \in {"focus", "focus_verify"} /\ t \in {"memory_write", "memory_find", "history"}

Definitions ==
  {t \in Tools :
     /\ question => t \in QuestionTools
     /\ DocumentWork => t \notin ProjectWrites
     /\ ~reuse => t \notin MemoryReads
     /\ Open => CheckpointAllows(t)
     /\ t = "checkpoint_complete" => Open
     /\ (t = "source_lookup" /\ Open) => cp.lookups < Lookups
     /\ ~ClosingWithholds(t) /\ ~RecoveryWithholds(t)}

\* What a call meets on its way: the turn, the workflow, the checkpoint, the
\* validation, and what the tool itself asks of the checkpoint.
Withheld(t) == Open /\ ~CheckpointAllows(t)
Accepts(t) ==
  /\ question => t \in QuestionTools
  /\ ~(DocumentWork /\ t \in ProjectWrites)
  /\ ~Withheld(t)
  /\ ~ClosingWithholds(t)
  /\ reuse \/ t \notin MemoryReads
  /\ ~RecoveryWithholds(t)
LookupSpent == Open /\ cp.lookups >= Lookups
Runs(t) == /\ Accepts(t) /\ ~(t = "source_lookup" /\ LookupSpent)
           /\ t = "checkpoint_complete" => Open

---------------------------------------------------------------------------
\* Between requests.

\* What the loop decides of closing, stalls and focus; nothing reads it while a
\* checkpoint is open, and it is chosen again after that.
Steer(to) ==
  /\ pc = "between" /\ ~question /\ cp.id = 0 /\ steer = "none" /\ to # "none" /\ steer' = to
  /\ UNCHANGED <<document, reuse, question, written, cites, cp, bounds, pc, calls, offered, ghosts>>

Prepare ==
  /\ pc = "between" /\ ~question /\ cp.id = 0 /\ NextId <= MaxCheckpoints
  /\ cp' = [NoCheckpoint EXCEPT !.id = NextId]
  /\ edited' = {} /\ held' = 0 /\ refused' = 0 /\ steer' = "none"
  /\ UNCHANGED <<document, reuse, question, written, cites, bounds, pc, calls, offered>>

Resumed(c) == [c EXCEPT !.failed = FALSE, !.acked = FALSE, !.attempts = 0]
Resume == /\ pc = "stopped" /\ cp' = Resumed(cp) /\ pc' = "between"
          /\ UNCHANGED <<modes, bounds, calls, offered, ghosts>>
\* A message that brings new work starts the progress afresh, the checkpoint's
\* bounds included.
Rework ==
  /\ pc = "stopped" /\ cp' = Resumed(cp) /\ pc' = "between"
  /\ batches' = Unheld /\ editHeld' = Unheld /\ citesHeld' = Unheld
  /\ edited' = {} /\ held' = 0 /\ refused' = 0 /\ steer' = "none"
  /\ UNCHANGED <<document, reuse, question, written, cites, calls, offered>>

Request ==
  /\ pc = "between" /\ (Open => Batches < MaxBatches) /\ offered' = Definitions /\ calls' = 0
  /\ IF ~Open THEN pc' = "calls" /\ UNCHANGED cp
     ELSE IF cp.attempts >= MaxRequests THEN pc' = "stopped" /\ UNCHANGED cp
     ELSE pc' = "calls" /\ cp' = [cp EXCEPT !.failed = FALSE, !.acked = FALSE, !.attempts = @ + 1]
  /\ UNCHANGED <<modes, bounds, ghosts>>

---------------------------------------------------------------------------
\* The calls of a batch; checkpoint_complete comes last.

FailHolds(t) == ~Withheld(t) /\ ~(t = "source_lookup" /\ LookupSpent)

\* Mutant: every failed edit holds the checkpoint.
EditHoldsAlways == EditsOpen

\* A failed edit holds the checkpoint once, and not when edits are closed.
EditHolds == EditsOpen /\ editHeld.id # cp.id
Failed(c) == [c EXCEPT !.failed = TRUE, !.acked = FALSE]

Fails(t) ==
  LET holds == Open /\ FailHolds(t) /\ (t \in Edits => EditHolds) IN
  /\ cp' = IF holds THEN Failed(cp) ELSE cp
  /\ editHeld' = IF holds /\ t \in Edits THEN [id |-> cp.id, at |-> Batches] ELSE editHeld
  /\ held' = held + (IF holds /\ t \in Edits THEN 1 ELSE 0)

Call(t, works, cited) ==
  /\ pc = "calls" /\ calls < MaxCalls /\ calls' = calls + 1 /\ t # "checkpoint_complete"
  /\ IF works /\ Runs(t)
     THEN /\ cp' = IF t = "source_lookup" /\ Open THEN [cp EXCEPT !.lookups = @ + 1] ELSE cp
          /\ IF t \in Edits
             THEN /\ written' = TRUE /\ cites' = cited
                  /\ edited' = IF Open THEN edited \cup {Batches} ELSE edited
             ELSE UNCHANGED <<written, cites, edited>>
          /\ UNCHANGED <<editHeld, held>>
     ELSE Fails(t) /\ UNCHANGED <<written, cites, edited>>
  /\ UNCHANGED <<document, reuse, question, steer, batches, citesHeld, pc, offered, refused>>
\* A call that panics fails the batch whatever it is.
Panics(t) ==
  /\ pc = "calls" /\ calls < MaxCalls /\ calls' = calls + 1 /\ t \in offered /\ Runs(t)
  /\ cp' = IF Open THEN Failed(cp) ELSE cp
  /\ UNCHANGED <<modes, bounds, pc, offered, ghosts>>

\* checkpoint_complete: refused in a failed batch, and once when the document
\* cites nothing; `valid` are its arguments.
LacksCitations == DocumentWork /\ written /\ ~cites
CompleteCheckpoint(valid) ==
  /\ pc \in {"calls", "completing"} /\ Open /\ pc' = "completing"
  /\ IF ~cp.failed /\ valid /\ LacksCitations /\ citesHeld.id # cp.id
     THEN /\ citesHeld' = [id |-> cp.id, at |-> Batches] /\ refused' = refused + 1
          /\ cp' = Failed(cp)
     ELSE /\ cp' = IF cp.failed \/ ~valid THEN Failed(cp) ELSE [cp EXCEPT !.acked = TRUE]
          /\ UNCHANGED <<citesHeld, refused>>
  /\ UNCHANGED <<modes, batches, editHeld, calls, offered, edited, held>>

\* The end of a batch: its count, and the commit of an acknowledged checkpoint.
EndBatch(stops) ==
  /\ pc \in {"calls", "completing"}
  /\ batches' = IF ~Open THEN batches ELSE [id |-> cp.id, at |-> Batches + 1]
  /\ cp' = IF ~stops /\ cp.acked /\ ~cp.failed THEN NoCheckpoint
           ELSE IF stops THEN [cp EXCEPT !.acked = FALSE] ELSE cp
  /\ pc' = IF stops /\ ~question THEN "stopped" ELSE "between"
  /\ UNCHANGED <<modes, editHeld, citesHeld, calls, offered, ghosts>>

Next ==
  \/ \E to \in Steers : Steer(to)
  \/ Prepare \/ Resume \/ Rework \/ Request
  \/ \E t \in Tools : Panics(t) \/ \E works, cited \in BOOLEAN : Call(t, works, cited)
  \/ \E valid \in BOOLEAN : CompleteCheckpoint(valid) \/ EndBatch(valid)

Spec == Init /\ [][Next]_vars

---------------------------------------------------------------------------
\* Two filters written apart agree: what a request offers its calls' gates
\* accept, edits also after other calls of the batch (the first save may start
\* to withhold discovery), and no call runs that a request would not offer.
\* Answering a checkpoint cannot turn into writing: edits run in at most three
\* batches of one checkpoint, a failing edit holds it at most once and missing
\* citations refuse it at most once.
CheckpointPrompt ==
  /\ pc = "calls" => \A t \in offered : calls = 0 \/ t \in Edits => Accepts(t)
  /\ \A t \in Tools : Runs(t) => t \in Definitions
  /\ Cardinality(edited) <= 3 /\ held <= 1 /\ refused <= 1
  /\ cp.acked => ~cp.failed /\ (LacksCitations => refused = 1)
=============================================================================

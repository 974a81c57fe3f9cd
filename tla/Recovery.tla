------------------------------ MODULE Recovery ------------------------------
(***************************************************************************)
(* How failed tool calls are classified, what the model is told to do, and  *)
(* how a run bounds them (tools/recovery.rs and the agent loop's use of it): *)
(* totals per tool that end the run, and bounded caches of failures by code, *)
(* by invocation and by call that mark what is resent unchanged.            *)
(***************************************************************************)
EXTENDS Integers, FiniteSets, Sequences

CONSTANTS Document,    \* source_document work
          Names,       \* tool names the model sends
          Registered,  \* those of them that exist
          Editors,     \* document_edit, document_edit_batch
          Planners,    \* task_plan
          Args, Causes,
          Limit,       \* stall_round_limit
          MaxCodes, MaxInvocations, MaxRepeated,
          MaxCalls     \* bound: calls of a run

VARIABLES byTool, byCode, byInvocation, repeated,
          calls, running, last,         \* last: what the model is told of the last call
          failed, resent, streak        \* ghosts: what unbounded tables would hold

tracker == <<byTool, byCode, byInvocation, repeated>>
ghosts == <<failed, resent, streak>>
vars == <<tracker, calls, running, last, ghosts>>

Unsupported == "<unsupported_tool>"
Keys == Registered \cup {Unsupported}
Key(t) == IF t \in Registered THEN t ELSE Unsupported

\* One code of each class that is treated differently.
Describe ==
  [text_not_found       |-> [class |-> "invalid_input", action |-> "correct_arguments"],
   unknown_source       |-> [class |-> "missing_evidence", action |-> "lookup_observed_evidence"],
   tool_worker_capacity |-> [class |-> "unavailable", action |-> "wait_for_tool_workers"],
   run_timeout          |-> [class |-> "transient", action |-> "inspect_timeout_before_retry"],
   document_write_verification_failed |->
     [class |-> "outcome_unknown", action |-> "inspect_outcome_before_retry"],
   file_patch_rollback_failed |->
     [class |-> "outcome_unknown", action |-> "inspect_outcome_before_retry"]]
Codes == DOMAIN Describe
Ok == [status |-> "ok", codes |-> {}, cause |-> 0]
\* A plan that was not applied, or changed nothing, for this reason.
Unapplied == [status : {"ok"}, codes : {{}}, cause : Causes]
Cancelled == [status |-> "cancelled", codes |-> {}, cause |-> 0]
\* One code, or a batch of several items that failed in part.
Failures == [status : {"error"}, codes : {{c} : c \in Codes} \cup {{"text_not_found", c} : c \in Codes},
             cause : Causes]

Partial(r) == Cardinality(r.codes) > 1
Single(r) == CHOOSE c \in r.codes : TRUE
Class(r) == IF Partial(r) THEN "partial_failure" ELSE Describe[Single(r)].class
\* attach: an uncertain item decides what the model does next.
Uncertain(r) == \E c \in r.codes : Describe[c].class = "outcome_unknown"
Action(r) == IF ~Partial(r) THEN Describe[Single(r)].action
             ELSE IF Uncertain(r) THEN "inspect_outcome_before_retry" ELSE "repair_failed_items_only"

Correctable(c) == Describe[c].class \in {"invalid_input", "missing_evidence"}

\* Mutant: one correctable code is enough.
SomeCorrectable(r) == \E c \in r.codes : Correctable(c)

AllCorrectable(r) == \A c \in r.codes : Correctable(c)

NoEntries == [x \in {} |-> 0]

TypeOK ==
  /\ byTool \in [Keys -> 0..MaxCalls] /\ failed \in [Keys -> 0..MaxCalls]
  /\ Cardinality(DOMAIN byCode) <= MaxCodes /\ Cardinality(DOMAIN byInvocation) <= MaxInvocations
  /\ Cardinality(DOMAIN repeated) <= MaxRepeated
  /\ calls \in 0..MaxCalls /\ running \in BOOLEAN

Init ==
  /\ byTool = [k \in Keys |-> 0] /\ byCode = NoEntries /\ byInvocation = NoEntries /\ repeated = NoEntries
  /\ calls = 0 /\ running = TRUE /\ last = [told |-> "none", repeats |-> 0, action |-> "none"]
  /\ failed = [k \in Keys |-> 0] /\ resent = NoEntries /\ streak = NoEntries

---------------------------------------------------------------------------
\* The bounded tables: of a key its cause, its count, and the call that put the
\* entry at the end.

Without(q, keys) == [x \in DOMAIN q \ keys |-> q[x]]
Set(q, key, value) == [x \in DOMAIN q \cup {key} |-> IF x = key THEN value ELSE q[x]]
Get(q, key) == IF key \in DOMAIN q THEN q[key] ELSE 0
\* The entry after one more failure with this cause.
Counted(q, key, cause) ==
  [cause |-> cause, at |-> calls,
   count |-> IF key \in DOMAIN q /\ q[key].cause = cause THEN q[key].count + 1 ELSE 1]
\* Mutant: a table that nothing bounds.
MovedUnbounded(q, key, e, max) == Set(q, key, e)

\* The entry moves to the end; a full table drops its first.
Front(q) == {x \in DOMAIN q : \A y \in DOMAIN q : q[x].at <= q[y].at}
Moved(q, key, e, max) ==
  LET rest == Without(q, {key})
  IN Set(IF Cardinality(DOMAIN rest) = max THEN Without(rest, Front(rest)) ELSE rest, key, e)
\* The entry stays where it is.
Kept(q, key, e, max) ==
  IF key \in DOMAIN q THEN Set(q, key, [e EXCEPT !.at = q[key].at]) ELSE Moved(q, key, e, max)

---------------------------------------------------------------------------
\* mark_repeated_failure: the same call, the same answer.

Repeats(t, r) ==
  \/ t \in Planners /\ r \in Unapplied
  \/ /\ r.status = "error" /\ Action(r) # "wait_for_tool_workers"
     /\ Class(r) \in {"invalid_input", "missing_evidence", "unavailable"}
Marks(t, a, r) == Counted(repeated, <<t, a>>, <<r.codes, r.cause>>)
MarkRepeated(t, a, r) ==
  repeated' = IF Repeats(t, r) THEN Kept(repeated, <<t, a>>, Marks(t, a, r), MaxRepeated)
              ELSE Without(repeated, {<<t, a>>})

\* observe.
Identical(t, r) == t \in Editors /\ r.status = "error" /\ Class(r) = "invalid_input"
Invoked(t, a, r) == Counted(byInvocation, <<Key(t), a, r.codes>>, r.cause)
ForgetTool(t) ==
  /\ byTool' = [byTool EXCEPT ![t] = 0]
  /\ byCode' = Without(byCode, {x \in DOMAIN byCode : x[1] = t})
  /\ byInvocation' = Without(byInvocation, {x \in DOMAIN byInvocation : x[1] = t})
NoteTool(t, r) ==
  /\ byTool' = [byTool EXCEPT ![Key(t)] = @ + 1]
  /\ byCode' = LET key == <<Key(t), r.codes>>
               IN Moved(byCode, key, Counted(byCode, key, 0), MaxCodes)

Verdict(t, a, r) ==
  IF r.status # "error" THEN "none"
  ELSE IF Identical(t, r) /\ Invoked(t, a, r).count >= 2 THEN "identical"
  ELSE IF byTool[Key(t)] + 1 >= Limit THEN "limit" ELSE "none"

Observe(t, a, r) ==
  IF r.status = "cancelled" THEN UNCHANGED <<byTool, byCode, byInvocation>>
  ELSE IF r.status = "ok" THEN ForgetTool(t)
  ELSE /\ byInvocation' =
            IF Identical(t, r)
            THEN Moved(byInvocation, <<Key(t), a, r.codes>>, Invoked(t, a, r), MaxInvocations)
            ELSE byInvocation
       /\ IF Verdict(t, a, r) = "identical" THEN UNCHANGED <<byTool, byCode>> ELSE NoteTool(t, r)

---------------------------------------------------------------------------

\* With nothing evicted: failures of a tool since its last success, the cause
\* last seen for an invalid edit, how often a call got its present answer.
Watch(t, a, r) ==
  /\ failed' = [failed EXCEPT ![Key(t)] =
       IF r.status = "ok" THEN 0
       ELSE IF r.status = "error" /\ Verdict(t, a, r) # "identical" THEN @ + 1 ELSE @]
  /\ resent' = IF r.status = "ok" THEN Without(resent, {x \in DOMAIN resent : x[1] = Key(t)})
               ELSE IF Identical(t, r) THEN Set(resent, <<Key(t), a, r.codes>>, r.cause) ELSE resent
  /\ streak' = LET others == Without(streak, {x \in DOMAIN streak : x[1] = t /\ x[2] = a})
                   answer == <<t, a, r.codes, r.cause>>
               IN IF Repeats(t, r) THEN Set(others, answer, Get(streak, answer) + 1) ELSE others

\* Whatever the count: a write nobody can vouch for, and the end of the run's time.
EndsAtOnce(r) == r.codes \in {{"file_patch_rollback_failed"}, {"run_timeout"}}
\* A verdict ends the run unless the work is a document and everything that
\* failed can be corrected.
Ends(t, a, r) ==
  EndsAtOnce(r) \/ (Verdict(t, a, r) # "none" /\ ~(Document /\ AllCorrectable(r)))
Result(t, a, r) ==
  /\ running /\ calls < MaxCalls /\ calls' = calls + 1
  /\ r.status = "ok" => t \in Registered
  /\ r \in Unapplied => t \in Planners
  /\ MarkRepeated(t, a, r) /\ Observe(t, a, r) /\ Watch(t, a, r)
  /\ running' = ~Ends(t, a, r)
  /\ last' = [told |-> Verdict(t, a, r),
              repeats |-> IF Repeats(t, r) THEN Marks(t, a, r).count ELSE 0,
              action |-> IF r.status # "error" THEN "none"
                         ELSE IF Verdict(t, a, r) = "identical" THEN "change_approach" ELSE Action(r)]

Next == \E t \in Names, a \in Args, r \in Failures \cup Unapplied \cup {Ok, Cancelled} : Result(t, a, r)

Spec == Init /\ [][Next]_vars

---------------------------------------------------------------------------
\* Failures of a tool cannot hide: neither other arguments, other codes, other
\* unknown names, other tools' successes nor evictions lower its total, so at
\* the limit the run hears of it and goes on only with what can be corrected
\* throughout.  A call said to repeat does, and a full table only makes the
\* count lower.
FailuresCounted ==
  /\ byTool = failed
  /\ running => Document \/ \A k \in Keys : byTool[k] < Limit
  /\ \A x \in DOMAIN byInvocation : Get(resent, x) = byInvocation[x].cause
  /\ \A x \in DOMAIN repeated :
       LET e == repeated[x]
       IN e.count <= Get(streak, <<x[1], x[2], e.cause[1], e.cause[2]>>)
  /\ last.action = "inspect_outcome_before_retry" /\ last.told = "limit" => ~running
=============================================================================

---------------------------- MODULE Completions ----------------------------
(***************************************************************************)
(* A request to the model provider (llm.rs): its attempts, the stream of an *)
(* attempt, the retries, the fallbacks from a strict schema to JSON mode    *)
(* and to no format, and the process-wide record of what an endpoint does   *)
(* not take.  Requests run concurrently; the provider may answer anything.  *)
(***************************************************************************)
EXTENDS Integers

CONSTANTS Requests,
          Retries,        \* retries
          RetryTimeouts   \* retry_timeouts

VARIABLES req,
          refuses,        \* JSON_SCHEMA_REJECTED holds the endpoint
          bare,           \* RESPONSE_FORMAT_REJECTED holds it
          suspected, recovered,   \* the schema, in JSON_SCHEMA_STREAM_*
          seen            \* what successes have shown: ghost

vars == <<req, refuses, bare, suspected, recovered, seen>>

Formats == {"schema", "json", "none"}
Status == {"http_4", "http_5", "http_504"}               \* refused with an HTTP status
Relayed == {"stream", "stream_504", "overload"}          \* an error event of the gateway
Transient == {"http_5", "http_504", "send", "timeout", "interrupted"} \cup Relayed
Timeouts == {"http_504", "timeout", "stream_504"}
Ended == {"ok", "cut", "failed", "cancelled"}

New == [pc |-> "new", format |-> "none", schema |-> FALSE, known |-> FALSE,
        attempt |-> 0, retries |-> 0,
        rejected |-> FALSE, dropped |-> FALSE, streamed |-> FALSE,   \* the fallbacks taken
        emitted |-> FALSE, showing |-> FALSE, shown |-> 0,
        started |-> FALSE, finish |-> "none", calls |-> "none",
        unbilled |-> 0, generated |-> 0]

TypeOK ==
  /\ \A i \in Requests :
       /\ req[i].pc \in {"new", "send", "stream", "wait"} \cup Ended /\ req[i].format \in Formats
       /\ req[i].calls \in {"none", "whole", "broken"}
       /\ req[i].finish \in {"none", "stop", "tool_calls", "length"}
  /\ refuses \in BOOLEAN /\ bare \in BOOLEAN /\ suspected \in BOOLEAN /\ recovered \in BOOLEAN

Init == /\ req = [i \in Requests |-> New]
        /\ refuses = FALSE /\ bare = FALSE /\ suspected = FALSE /\ recovered = FALSE
        /\ seen = [json |-> FALSE, bare |-> FALSE, streak |-> 0]

Caches == UNCHANGED <<refuses, bare, suspected, recovered, seen>>
Becomes(i, r) == req' = [req EXCEPT ![i] = r]

\* What the endpoint is known not to take is not asked for.
Start(i, format) ==
  LET plain == IF format = "schema" /\ (refuses \/ recovered) THEN "json" ELSE format
      known == format # "none" /\ bare
  IN /\ req[i].pc = "new"
     /\ Becomes(i, [New EXCEPT !.pc = "send", !.format = IF known THEN "none" ELSE plain,
                               !.schema = format = "schema", !.known = known, !.dropped = known])
     /\ Caches

Cancel(i) == /\ req[i].pc \in {"send", "stream", "wait"}
             /\ Becomes(i, [req[i] EXCEPT !.pc = "cancelled"]) /\ Caches

---------------------------------------------------------------------------
\* How an attempt ends that failed with `code`.

\* Nothing was generated: no attempt to bill.
Free(r, code) == code \in Status \/ (code \in Relayed /\ ~r.started)
Counted(r, code) ==
  [r EXCEPT !.unbilled = @ + (IF Free(r, code) THEN 1 ELSE 0),
            !.generated = @ + (IF r.started THEN 1 ELSE 0)]
Next1(r, pc) == [r EXCEPT !.pc = pc, !.attempt = @ + 1, !.started = FALSE, !.showing = FALSE,
                          !.finish = "none", !.calls = "none"]

\* Mutant: a request is sent again whatever it has relayed.
AlwaysSilent(r) == TRUE

Silent(r) == ~r.emitted
\* Once every plain retry is used, JSON mode is tried in place of the schema.
StreamFallback(r, code) ==
  /\ Silent(r) /\ ~(~RetryTimeouts /\ code \in Timeouts) /\ code \in {"stream", "stream_504"}
  /\ ~r.streamed /\ r.retries >= Retries /\ r.format = "schema"
Retry(r, code) ==
  /\ Silent(r) /\ ~(~RetryTimeouts /\ code \in Timeouts)
  /\ code \in Transient \/ (r.attempt = 0 /\ code \in {"arguments", "event"})
  /\ r.retries < Retries

Failed(r0, code) ==
  LET r == Counted(r0, code) IN
  IF code = "http_4" /\ r.format = "schema"
  THEN Next1([r EXCEPT !.format = "json", !.rejected = TRUE], "send")
  ELSE IF code = "http_4" /\ r.format # "none" /\ ~r.dropped
  THEN Next1([r EXCEPT !.format = "none", !.dropped = TRUE], "send")
  ELSE IF StreamFallback(r, code)
  THEN Next1([r EXCEPT !.format = "json", !.streamed = TRUE], "send")
  ELSE IF Retry(r, code) THEN Next1([r EXCEPT !.retries = @ + 1], "wait")
  ELSE Next1(r, "failed")

\* A success tells what the provider takes.
Succeeds(i, pc) ==
  LET r == req[i]
      recovers == r.schema /\ r.format = "json" /\ r.streamed
      strict == r.schema /\ r.format = "schema"
      streak == IF strict THEN 0 ELSE seen.streak + (IF recovers /\ seen.streak < 2 THEN 1 ELSE 0)
  IN /\ Becomes(i, Next1(r, pc))
     /\ suspected' = IF strict THEN FALSE ELSE IF recovers THEN ~suspected ELSE suspected
     /\ recovered' = (recovered \/ (recovers /\ suspected))
     /\ refuses' = (refuses \/ r.rejected)
     /\ bare' = (bare \/ (r.dropped /\ ~r.known))
     /\ seen' = [json |-> seen.json \/ (r.rejected /\ r.format = "json"),
                 bare |-> seen.bare \/ (r.dropped /\ ~r.known /\ r.format = "none"),
                 streak |-> streak]

---------------------------------------------------------------------------
\* One attempt.

Opened(i) == /\ req[i].pc = "send"
             /\ Becomes(i, [req[i] EXCEPT !.pc = "stream"]) /\ Caches
Refused(i, code) == /\ req[i].pc = "send" /\ code \in Status \cup {"send", "timeout"}
                    /\ Becomes(i, Failed(req[i], code)) /\ Caches

\* Text, which the user sees at once; reasoning or usage, which nobody sees; a
\* part of a tool call.  None may follow the finish reason but usage.
Text(i, streams) ==
  LET r == req[i] IN
  /\ r.pc = "stream" /\ r.finish = "none"
  /\ Becomes(i, [r EXCEPT !.started = TRUE, !.emitted = @ \/ streams, !.showing = @ \/ streams,
                          !.shown = @ + (IF streams /\ ~r.showing THEN 1 ELSE 0)])
  /\ Caches
Thinks(i) == /\ req[i].pc = "stream"
             /\ Becomes(i, [req[i] EXCEPT !.started = TRUE]) /\ Caches
CallPart(i, calls) ==
  /\ req[i].pc = "stream" /\ req[i].finish = "none" /\ calls \in {"whole", "broken"}
  /\ Becomes(i, [req[i] EXCEPT !.started = TRUE, !.calls = calls]) /\ Caches
Finish(i, reason) ==
  /\ req[i].pc = "stream" /\ req[i].finish = "none" /\ reason \in {"stop", "tool_calls", "length"}
  /\ Becomes(i, [req[i] EXCEPT !.finish = reason, !.started = TRUE]) /\ Caches

\* [DONE].  A reply cut at the output limit shows none of its calls.
Done(i) ==
  LET r == req[i] IN
  /\ r.pc = "stream"
  /\ IF r.finish = "length" THEN Succeeds(i, "cut")
     ELSE /\ r.finish # "none" /\ (r.finish = "tool_calls" => r.calls # "none") /\ r.calls # "broken"
          /\ Succeeds(i, "ok")

\* The stream fails: the gateway's error event, silence, a connection that ends
\* early, an event that is no JSON, calls that are unfinished; anything else,
\* more after the finish reason and sizes above the limits included, is final.
StreamFails(i, code) ==
  LET r == req[i] IN
  /\ r.pc = "stream"
  /\ code \in Relayed \cup {"timeout", "interrupted", "event", "other"}
     \/ (code = "arguments" /\ r.calls = "broken" /\ r.finish \in {"stop", "tool_calls"})
  /\ Becomes(i, Failed(r, code)) /\ Caches

\* The pause before a retry.
Waited(i) == req[i].pc = "wait" /\ Becomes(i, [req[i] EXCEPT !.pc = "send"]) /\ Caches

\* A request that ended is forgotten, and the caller sends its next one.
Again(i) == req[i].pc \in Ended /\ Becomes(i, New) /\ Caches

Next == \E i \in Requests :
  \/ \E format \in Formats : Start(i, format)
  \/ Cancel(i) \/ Opened(i) \/ Thinks(i) \/ Done(i) \/ Waited(i) \/ Again(i)
  \/ \E code \in Status \cup {"send", "timeout"} : Refused(i, code)
  \/ \E streams \in BOOLEAN : Text(i, streams)
  \/ \E calls \in {"whole", "broken"} : CallPart(i, calls)
  \/ \E reason \in {"stop", "tool_calls", "length"} : Finish(i, reason)
  \/ \E code \in Relayed \cup {"timeout", "interrupted", "event", "arguments", "other"} :
        StreamFails(i, code)

Spec == Init /\ [][Next]_vars

---------------------------------------------------------------------------
\* Text of at most one attempt reaches the user, whatever is retried; a request
\* makes a bounded number of attempts, and each fallback once; no attempt that
\* generated something goes unbilled.  An outage does not cost an endpoint its
\* formats: they are given up after a request that succeeded without them, a
\* schema's stream only after two in a row.
CompletionsKept ==
  /\ [](/\ \A i \in Requests :
             /\ req[i].shown <= 1 /\ req[i].attempt <= Retries + 3
             /\ req[i].generated <= req[i].attempt - req[i].unbilled
        /\ bare => seen.bare
        /\ refuses => seen.json \/ seen.bare)
  /\ [][recovered' /\ ~recovered => seen.streak = 1]_vars
=============================================================================

----------------------------- MODULE DigestCache -----------------------------
(***************************************************************************)
(* The process-wide cache of file digests, line counts and text checks      *)
(* (tools.rs): keyed by path, valid for one size, modification time and     *)
(* change time, and only for versions older than two seconds.  Threads of   *)
(* any session use it while other programs write the file.  One file; what   *)
(* is known of another path only clears the cache at its capacity.          *)
(***************************************************************************)
EXTENDS Integers, FiniteSets

CONSTANTS Threads, Contents,   \* contents, all of one size
          NotText,             \* those of them that are no text
          Settle,              \* DIGEST_SETTLE, in ticks of the file's times
          Slow,                \* a call may take longer than that
          MaxTime,             \* bound
          MaxCalls             \* bound

VARIABLES content, time,       \* the file and its modification and change time
          now, cache, calls, thread

vars == <<content, time, now, cache, calls, thread>>

Unknown == "unknown"
NoEntry == [version |-> -1, hash |-> Unknown, lines |-> Unknown, text |-> Unknown]
Kinds == {"hash", "text", "walk", "lines"}
Idle == [pc |-> "idle", kind |-> "hash", version |-> -1, known |-> FALSE, read |-> Unknown,
         digest |-> Unknown, since |-> 0]

TypeOK ==
  /\ content \in Contents /\ time \in 0..now /\ now \in 0..MaxTime
  /\ cache.version \in -1..MaxTime
  /\ cache.hash \in Contents \cup {Unknown} /\ cache.lines \in Contents \cup {Unknown}
  /\ cache.text \in {Unknown, "no", "yes"}
  /\ \A t \in Threads : thread[t].pc \in {"idle", "opened", "read", "keep", "done"}

Init ==
  /\ content \in Contents /\ time = 0 /\ now \in 0..Settle
  /\ cache = NoEntry /\ calls = 0 /\ thread = [t \in Threads |-> Idle]

---------------------------------------------------------------------------
\* Others.

Busy == {t \in Threads : thread[t].pc \notin {"idle", "done"}}
Tick == /\ now < MaxTime /\ now' = now + 1
        /\ Slow \/ \A t \in Busy : now + 1 - thread[t].since < Settle
        /\ UNCHANGED <<content, time, cache, calls, thread>>
Write(c) == /\ c # content /\ content' = c /\ time' = now
            /\ UNCHANGED <<now, cache, calls, thread>>
\* Another path found the cache full.
Clear == /\ cache # NoEntry /\ cache' = NoEntry
         /\ UNCHANGED <<content, time, now, calls, thread>>

---------------------------------------------------------------------------
\* A call: its version, what the cache holds of that, the contents, the record.

\* Mutant: a version is taken as settled at once.
Always(version) == TRUE

Settled(version) == now - version >= Settle
Becomes(t, r) == thread' = [thread EXCEPT ![t] = r]
Ends(t, digest) == Becomes(t, [Idle EXCEPT !.pc = "done", !.kind = thread[t].kind,
                                           !.read = thread[t].read, !.digest = digest])
Holds(version) == cache.version = version /\ version # -1

Open(t, kind) ==
  /\ thread[t].pc \in {"idle", "done"} /\ calls < MaxCalls /\ calls' = calls + 1
  /\ Becomes(t, [Idle EXCEPT !.pc = "opened", !.kind = kind, !.version = time, !.since = now])
  /\ UNCHANGED <<content, time, now, cache>>

\* hash_file and text_line_count look before they read, and so does a listing of
\* text files; read_text does not.
Look(t) ==
  LET r == thread[t]
      hit == CASE r.kind = "hash" -> IF Holds(r.version) THEN cache.hash ELSE Unknown
               [] r.kind = "lines" -> IF Holds(r.version) THEN cache.lines ELSE Unknown
               [] r.kind = "walk" -> IF Holds(r.version) THEN cache.text ELSE Unknown
               [] r.kind = "text" -> Unknown
  IN /\ r.pc = "opened"
     /\ IF hit # Unknown THEN Ends(t, hit) ELSE Becomes(t, [r EXCEPT !.pc = "read"])
     /\ UNCHANGED <<content, time, now, cache, calls>>

\* The contents as one read finds them; a read of the text is followed by a
\* second look at the version.
Read(t) ==
  /\ thread[t].pc = "read" /\ Becomes(t, [thread[t] EXCEPT !.pc = "keep", !.read = content])
  /\ UNCHANGED <<content, time, now, cache, calls>>
LookAgain(t) ==
  /\ thread[t].pc = "keep" /\ thread[t].kind \in {"text", "walk"} /\ ~thread[t].known
  /\ thread[t].version # -1
  /\ Becomes(t, IF time = thread[t].version THEN [thread[t] EXCEPT !.known = TRUE]
                ELSE [thread[t] EXCEPT !.known = TRUE, !.version = -1])
  /\ UNCHANGED <<content, time, now, cache, calls>>

\* remember_digest: what is too new is not kept, nor is anything older it replaces.
Entry(version) == IF cache.version = version THEN cache ELSE [NoEntry EXCEPT !.version = version]
Remember(version, field, value) ==
  cache' = IF ~Settled(version) THEN NoEntry ELSE [Entry(version) EXCEPT ![field] = value]

Keep(t) ==
  LET r == thread[t] IN
  /\ r.pc = "keep" /\ (r.kind \in {"text", "walk"} => r.known)
  /\ CASE r.kind = "hash" -> Remember(r.version, "hash", r.read) /\ Ends(t, r.read)
       [] r.kind = "lines" ->
            IF r.read \in NotText THEN Ends(t, "no") /\ UNCHANGED cache
            ELSE Remember(r.version, "lines", r.read) /\ Ends(t, r.read)
       [] r.kind = "walk" ->
            LET is == IF r.read \in NotText THEN "no" ELSE "yes"
            IN Ends(t, is) /\ IF r.version # -1 THEN Remember(r.version, "text", is) ELSE UNCHANGED cache
       [] r.kind = "text" ->
            IF r.read \in NotText THEN Ends(t, "no") /\ UNCHANGED cache
            ELSE IF Holds(r.version) /\ cache.hash # Unknown
            THEN Ends(t, cache.hash) /\ UNCHANGED cache
            ELSE /\ Ends(t, r.read)
                 /\ IF r.version # -1 THEN Remember(r.version, "hash", r.read) ELSE UNCHANGED cache
  /\ UNCHANGED <<content, time, now, calls>>

Next ==
  \/ Tick \/ Clear \/ \E c \in Contents : Write(c)
  \/ \E t \in Threads : \/ \E kind \in Kinds : Open(t, kind)
                        \/ Look(t) \/ Read(t) \/ LookAgain(t) \/ Keep(t)

Spec == Init /\ [][Next]_vars

---------------------------------------------------------------------------
\* While calls are shorter than the settling time, what the cache holds for the
\* version the file has is true of its contents, although two writes in one tick
\* leave one version, reads race with writes and records come late.
CacheCurrent ==
  cache.version = time =>
    /\ cache.hash \in {Unknown, content} /\ cache.lines \in {Unknown, content}
    /\ cache.text \in {Unknown, IF content \in NotText THEN "no" ELSE "yes"}

\* A text is handed out with its own digest.
TextWithItsDigest ==
  \A t \in Threads :
    (thread[t].pc = "done" /\ thread[t].kind = "text" /\ thread[t].digest # "no") =>
      thread[t].digest = thread[t].read
=============================================================================

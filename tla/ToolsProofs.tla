----------------------------- MODULE ToolsProofs -----------------------------
(***************************************************************************)
(* Proofs about the parts of MCTools that share no state with each other:  *)
(* DigestCache, FilePatch, CheckpointTools, Completions, Recovery and      *)
(* FileReads, for any constants.                                           *)
(*                                                                         *)
(* DigestCache: a version is recorded only when it is settled, and the     *)
(* call that read it is younger than that: the file had this version       *)
(* before the call began.  A write since then would have left a later time *)
(* (Witnessed), and so will every write after the record (Settling).       *)
(*                                                                         *)
(* FilePatch: what was checked is as the patch read it unless edited since *)
(* (Rechecked), and on the way through the writes and back the list of     *)
(* completed files tells which of them differ (WrittenWhole).              *)
(*                                                                         *)
(* CheckpointTools: a hold carries the number of its checkpoint, which no  *)
(* later one has (NumberedAfter), so that it is counted once (Counted)     *)
(* and reopens edits for one batch (Batched).                              *)
(*                                                                         *)
(* Completions: each attempt but the running one was a retry or a fallback *)
(* (Attempts), nothing was relayed before the running one (Relays), and a  *)
(* fallback gives up the format it was taken from (FellBack).              *)
(*                                                                         *)
(* Recovery: a table that evicts holds nothing that one without bounds     *)
(* does not (Remembered, NotOvercounted), the totals are not evicted       *)
(* (BelowLimit), and what is uncertain is never corrected (UncertainEnds). *)
(*                                                                         *)
(* FileReads: what is recorded of a range was shown (OnlyShown), and a     *)
(* cursor is where the fragments recorded for its range end (Linked), so   *)
(* that fragments that meet are joined and a range read page by page is    *)
(* one interval in the end.                                                *)
(*                                                                         *)
(* The types of all the parts come last: beside the invariants above they  *)
(* need the bounds of the counters and the sizes of the tables.            *)
(***************************************************************************)
EXTENDS MCTools, DocumentProofs

-----------------------------------------------------------------------------
\* DigestCache.

DigestValues == Contents \cup {Digests!Unknown, "no", "yes"}
DigestEntries ==
  [version : Int, hash : Contents \cup {Digests!Unknown},
   lines : Contents \cup {Digests!Unknown}, text : {Digests!Unknown, "no", "yes"}]
DigestCalls ==
  [pc : {"idle", "opened", "read", "keep", "done"}, kind : Digests!Kinds, version : Int,
   known : BOOLEAN, read : Contents \cup {Digests!Unknown}, digest : DigestValues, since : Nat]

DigestsTyped ==
  /\ content \in Contents /\ time \in Nat /\ now \in Nat /\ time <= now
  /\ cache \in DigestEntries /\ thread \in [Threads -> DigestCalls]

\* Times only grow; a call knows no version of after its beginning, and is short.
Ordered ==
  \A t \in Threads :
    thread[t].pc \in {"opened", "read", "keep"} =>
      /\ thread[t].version <= thread[t].since /\ thread[t].version <= time
      /\ thread[t].since <= now /\ now - thread[t].since < Settle

\* While the file has the version it had before the call, the call read its contents.
Witnessed ==
  \A t \in Threads :
    /\ thread[t].pc = "keep"
    /\ thread[t].version = time /\ thread[t].version < thread[t].since
    => thread[t].read = content

\* What is recorded is settled.
Settling == cache.version <= time /\ (cache.version # -1 => Digests!Settled(cache.version))

DigestsInv == DigestsTyped /\ Ordered /\ Witnessed /\ Settling /\ Digests!CacheCurrent

-----------------------------------------------------------------------------
LEMMA IdleTyped == Digests!Idle \in DigestCalls /\ Digests!Idle.pc = "idle"
<1>1. "hash" \in Digests!Kinds /\ Digests!Unknown \in DigestValues /\ Digests!Unknown \in Contents \cup {Digests!Unknown}
  BY DEF Digests!Kinds, DigestValues
<1> QED
  BY <1>1 DEF Digests!Idle, DigestCalls

LEMMA DoneTyped ==
  ASSUME NEW r \in DigestCalls, NEW d \in DigestValues
  PROVE  LET n == [Digests!Idle EXCEPT !.pc = "done", !.kind = r.kind, !.read = r.read, !.digest = d]
         IN n \in DigestCalls /\ n.pc = "done"
<1>1. r.kind \in Digests!Kinds /\ r.read \in Contents \cup {Digests!Unknown}
  BY DEF DigestCalls
<1>2. 0 \in Nat /\ -1 \in Int
  OBVIOUS
<1> QED
  BY <1>1, <1>2 DEF Digests!Idle, DigestCalls

LEMMA DigestsInit == ASSUME Settle \in Nat \ {0} PROVE Digests!Init => DigestsInv
<1> SUFFICES ASSUME Digests!Init PROVE DigestsInv
  OBVIOUS
<1>1. Digests!NoEntry \in DigestEntries /\ Digests!NoEntry.version = -1
  BY DEF Digests!NoEntry, DigestEntries
<1>2. DigestsTyped
  BY <1>1, IdleTyped DEF Digests!Init, DigestsTyped
<1>3. Ordered /\ Witnessed
  BY DEF Digests!Init, Ordered, Witnessed, Digests!Idle
<1>4. Settling /\ Digests!CacheCurrent
  BY <1>1 DEF Digests!Init, Settling, Digests!CacheCurrent
<1> QED
  BY <1>2, <1>3, <1>4 DEF DigestsInv

LEMMA TickKeeps == ASSUME Settle \in Nat \ {0}, ~Slow PROVE DigestsInv /\ Digests!Tick => DigestsInv'
<1> SUFFICES ASSUME DigestsInv, Digests!Tick PROVE DigestsInv'
  OBVIOUS
<1> USE DEF DigestsInv
<1>1. DigestsTyped'
  BY DEF Digests!Tick, DigestsTyped
<1>2. Ordered'
  BY DEF Digests!Tick, DigestsTyped, Ordered, DigestCalls, Digests!Busy
<1>3. Witnessed' /\ Digests!CacheCurrent'
  BY DEF Digests!Tick, Witnessed, Digests!CacheCurrent
<1>4. Settling'
  BY DEF Digests!Tick, DigestsTyped, Settling, Digests!Settled, DigestEntries
<1> QED
  BY <1>1, <1>2, <1>3, <1>4

LEMMA WriteKeeps ==
  ASSUME Settle \in Nat \ {0}, NEW c \in Contents PROVE DigestsInv /\ Digests!Write(c) => DigestsInv'
<1> SUFFICES ASSUME DigestsInv, Digests!Write(c) PROVE DigestsInv'
  OBVIOUS
<1> USE DEF DigestsInv
<1>1. DigestsTyped'
  BY DEF Digests!Write, DigestsTyped
<1>2. Ordered' /\ Witnessed'
  BY DEF Digests!Write, DigestsTyped, Ordered, Witnessed, DigestCalls
<1>3. Settling' /\ Digests!CacheCurrent'
  BY DEF Digests!Write, DigestsTyped, Settling, Digests!CacheCurrent, Digests!Settled, DigestEntries
<1> QED
  BY <1>1, <1>2, <1>3

LEMMA ClearKeeps == DigestsInv /\ Digests!Clear => DigestsInv'
<1> SUFFICES ASSUME DigestsInv, Digests!Clear PROVE DigestsInv'
  OBVIOUS
<1> USE DEF DigestsInv
<1>1. Digests!NoEntry \in DigestEntries /\ Digests!NoEntry.version = -1
  BY DEF Digests!NoEntry, DigestEntries
<1>2. DigestsTyped' /\ Settling' /\ Digests!CacheCurrent'
  BY <1>1 DEF Digests!Clear, DigestsTyped, Settling, Digests!CacheCurrent
<1>3. Ordered' /\ Witnessed'
  BY DEF Digests!Clear, Ordered, Witnessed
<1> QED
  BY <1>2, <1>3

\* A call's own steps, when they record nothing.
LEMMA CallKeeps ==
  ASSUME Settle \in Nat \ {0}, DigestsInv, NEW t \in Threads, NEW r \in DigestCalls, Digests!Becomes(t, r),
         UNCHANGED <<content, time, now>>,
         cache' \in DigestEntries, Settling', Digests!CacheCurrent',
         r.pc \in {"opened", "read", "keep"} =>
           /\ r.version <= r.since /\ r.version <= time /\ r.since <= now /\ now - r.since < Settle
           /\ r.pc = "keep" /\ r.version = time /\ r.version < r.since => r.read = content
  PROVE  DigestsInv'
<1> USE DEF DigestsInv
<1>1. thread' = [thread EXCEPT ![t] = r] /\ thread \in [Threads -> DigestCalls]
  BY DEF Digests!Becomes, DigestsTyped
<1>2. DigestsTyped'
  BY <1>1 DEF DigestsTyped
<1>3. Ordered' /\ Witnessed'
  BY <1>1 DEF Ordered, Witnessed
<1> QED
  BY <1>2, <1>3

LEMMA OpenKeeps ==
  ASSUME Settle \in Nat \ {0}, NEW t \in Threads, NEW kind \in Digests!Kinds
  PROVE  DigestsInv /\ Digests!Open(t, kind) => DigestsInv'
<1> SUFFICES ASSUME DigestsInv, Digests!Open(t, kind) PROVE DigestsInv'
  OBVIOUS
<1> DEFINE r == [Digests!Idle EXCEPT !.pc = "opened", !.kind = kind, !.version = time, !.since = now]
<1>1. time \in Int /\ now \in Nat /\ time <= now /\ now - now = 0 /\ cache \in DigestEntries
  BY DEF DigestsInv, DigestsTyped
<1>2. r \in DigestCalls /\ r.pc = "opened" /\ r.version = time /\ r.since = now
  <2>1. Digests!Unknown \in DigestValues /\ Digests!Unknown \in Contents \cup {Digests!Unknown}
    BY DEF DigestValues
  <2> QED
    BY <1>1, <2>1 DEF Digests!Idle, DigestCalls
<1>3. Digests!Becomes(t, r) /\ UNCHANGED <<content, time, now, cache>>
  BY DEF Digests!Open
<1>4. Settling' /\ Digests!CacheCurrent'
  BY <1>3 DEF DigestsInv, Settling, Digests!CacheCurrent, Digests!Settled
<1> HIDE DEF r
<1> QED
  BY <1>1, <1>2, <1>3, <1>4, CallKeeps

LEMMA StepOfCall ==
  ASSUME Settle \in Nat \ {0}, NEW t \in Threads
  PROVE  DigestsInv /\ (Digests!Look(t) \/ Digests!Read(t) \/ Digests!LookAgain(t)) => DigestsInv'
<1> SUFFICES ASSUME DigestsInv, Digests!Look(t) \/ Digests!Read(t) \/ Digests!LookAgain(t) PROVE DigestsInv'
  OBVIOUS
<1>1. thread[t] \in DigestCalls /\ content \in Contents /\ cache \in DigestEntries /\ time \in Nat
  BY DEF DigestsInv, DigestsTyped
<1>2. UNCHANGED <<content, time, now, cache>>
  BY DEF Digests!Look, Digests!Read, Digests!LookAgain
<1>3. Settling' /\ Digests!CacheCurrent'
  BY <1>2 DEF DigestsInv, Settling, Digests!CacheCurrent, Digests!Settled
<1>4. PICK r \in DigestCalls :
        /\ Digests!Becomes(t, r)
        /\ r.pc \in {"opened", "read", "keep"} =>
             /\ thread[t].pc \in {"opened", "read", "keep"}
             /\ r.since = thread[t].since
             /\ r.version = thread[t].version \/ r.version = -1
             /\ r.pc = "keep" /\ r.version = time =>
                  r.read = content \/ (thread[t].pc = "keep" /\ r.read = thread[t].read
                                       /\ r.version = thread[t].version)
  <2>1. CASE Digests!Look(t)
    <3>1. PICK hit : /\ hit # Digests!Unknown => hit \in DigestValues
                     /\ IF hit # Digests!Unknown THEN Digests!Ends(t, hit)
                        ELSE Digests!Becomes(t, [thread[t] EXCEPT !.pc = "read"])
      BY <1>1, <2>1 DEF Digests!Look, DigestEntries, DigestCalls, Digests!Kinds, DigestValues
    <3>2. CASE hit # Digests!Unknown
      BY <1>1, <3>1, <3>2, DoneTyped DEF Digests!Ends
    <3>3. CASE hit = Digests!Unknown
      <4>1. [thread[t] EXCEPT !.pc = "read"] \in DigestCalls
        BY <1>1 DEF DigestCalls
      <4> QED
        BY <1>1, <2>1, <3>1, <3>3, <4>1 DEF Digests!Look, DigestCalls
    <3> QED
      BY <3>2, <3>3
  <2>2. CASE Digests!Read(t)
    <3>1. [thread[t] EXCEPT !.pc = "keep", !.read = content] \in DigestCalls
      BY <1>1 DEF DigestCalls
    <3> QED
      BY <1>1, <2>2, <3>1 DEF Digests!Read, DigestCalls
  <2>3. CASE Digests!LookAgain(t)
    <3> DEFINE n1 == [thread[t] EXCEPT !.known = TRUE]
               n2 == [thread[t] EXCEPT !.known = TRUE, !.version = -1]
    <3>1. /\ n1 \in DigestCalls /\ n1.pc = thread[t].pc /\ n1.since = thread[t].since
          /\ n1.version = thread[t].version /\ n1.read = thread[t].read
      BY <1>1 DEF DigestCalls
    <3>2. n2 \in DigestCalls /\ n2.since = thread[t].since /\ n2.version = -1
      <4>1. -1 \in Int
        OBVIOUS
      <4> QED
        BY <1>1, <4>1 DEF DigestCalls
    <3>3. thread[t].pc = "keep" /\ (Digests!Becomes(t, n1) \/ Digests!Becomes(t, n2))
      BY <2>3 DEF Digests!LookAgain
    <3> HIDE DEF n1, n2
    <3>4. CASE Digests!Becomes(t, n1)
      BY <3>1, <3>3, <3>4
    <3>5. CASE Digests!Becomes(t, n2)
      BY <1>1, <3>2, <3>3, <3>5
    <3> QED
      BY <3>3, <3>4, <3>5
  <2> QED
    BY <2>1, <2>2, <2>3
<1>5. r.pc \in {"opened", "read", "keep"} =>
        /\ r.version <= r.since /\ r.version <= time /\ r.since <= now /\ now - r.since < Settle
        /\ r.pc = "keep" /\ r.version = time /\ r.version < r.since => r.read = content
  BY <1>1, <1>4 DEF DigestsInv, DigestsTyped, Ordered, Witnessed, DigestCalls
<1> QED
  BY <1>1, <1>2, <1>3, <1>4, <1>5, CallKeeps

AnswerTo(text) == IF text \in NotText THEN "no" ELSE "yes"

\* What a call records is true of the version it knows.
LEMMA RecordKeeps ==
  ASSUME Settle \in Nat \ {0}, DigestsInv, NEW t \in Threads, thread[t].pc = "keep",
         UNCHANGED <<content, time, now>>,
         NEW r, r = thread[t],
         \/ Digests!Remember(r.version, "hash", r.read)
         \/ Digests!Remember(r.version, "lines", r.read)
         \/ Digests!Remember(r.version, "text", AnswerTo(r.read))
  PROVE  cache' \in DigestEntries /\ Settling' /\ Digests!CacheCurrent'
<1>1. /\ r \in DigestCalls /\ cache \in DigestEntries /\ time \in Nat /\ now \in Nat
      /\ r.version \in Int /\ r.since \in Nat /\ r.read \in Contents \cup {Digests!Unknown}
      /\ cache.version \in Int
  BY DEF DigestsInv, DigestsTyped, DigestCalls, DigestEntries
<1>2. Digests!NoEntry \in DigestEntries /\ Digests!NoEntry.version = -1 /\ Digests!NoEntry.hash = Digests!Unknown
      /\ Digests!NoEntry.lines = Digests!Unknown /\ Digests!NoEntry.text = Digests!Unknown
  BY DEF Digests!NoEntry, DigestEntries
<1>3. CASE ~Digests!Settled(r.version)
  BY <1>1, <1>2, <1>3 DEF Digests!Remember, Settling, Digests!CacheCurrent
<1>4. CASE Digests!Settled(r.version)
  <2>1. r.version <= time /\ (r.version = time => r.read = content)
    BY <1>1, <1>4 DEF DigestsInv, Ordered, Witnessed, Digests!Settled
  <2> DEFINE e == Digests!Entry(r.version)
  <2>2. /\ e \in DigestEntries /\ e.version = r.version
        /\ r.version = time =>
             /\ e.hash \in {Digests!Unknown, content} /\ e.lines \in {Digests!Unknown, content}
             /\ e.text \in {Digests!Unknown, AnswerTo(content)}
    <3>1. CASE cache.version = r.version
      BY <1>1, <3>1 DEF DigestsInv, Digests!CacheCurrent, Digests!Entry, AnswerTo
    <3>2. CASE cache.version # r.version
      <4>1. e = [Digests!NoEntry EXCEPT !.version = r.version]
        BY <3>2 DEF Digests!Entry
      <4> HIDE DEF e
      <4> QED
        BY <1>1, <1>2, <4>1 DEF DigestEntries
    <3> QED
      BY <3>1, <3>2
  <2>3. \/ cache' = [e EXCEPT !.hash = r.read]
        \/ cache' = [e EXCEPT !.lines = r.read]
        \/ cache' = [e EXCEPT !.text = AnswerTo(r.read)]
    BY <1>4 DEF Digests!Remember
  <2>4. AnswerTo(r.read) \in {Digests!Unknown, "no", "yes"}
    BY DEF AnswerTo
  <2> HIDE DEF e
  <2>5. /\ cache' \in DigestEntries /\ cache'.version = r.version
        /\ r.version = time =>
             /\ cache'.hash \in {Digests!Unknown, content} /\ cache'.lines \in {Digests!Unknown, content}
             /\ cache'.text \in {Digests!Unknown, AnswerTo(content)}
    <3>1. CASE cache' = [e EXCEPT !.hash = r.read]
      BY <1>1, <2>1, <2>2, <3>1 DEF DigestEntries
    <3>2. CASE cache' = [e EXCEPT !.lines = r.read]
      BY <1>1, <2>1, <2>2, <3>2 DEF DigestEntries
    <3>3. CASE cache' = [e EXCEPT !.text = AnswerTo(r.read)]
      BY <2>1, <2>2, <2>4, <3>3 DEF DigestEntries
    <3> QED
      BY <2>3, <3>1, <3>2, <3>3
  <2> QED
    BY <1>4, <2>1, <2>5 DEF Settling, Digests!CacheCurrent, Digests!Settled, AnswerTo
<1> QED
  BY <1>3, <1>4

LEMMA KeepKeeps ==
  ASSUME Settle \in Nat \ {0}, NEW t \in Threads PROVE DigestsInv /\ Digests!Keep(t) => DigestsInv'
<1> SUFFICES ASSUME DigestsInv, Digests!Keep(t) PROVE DigestsInv'
  OBVIOUS
<1> DEFINE r == thread[t]
<1>1. /\ r \in DigestCalls /\ cache \in DigestEntries /\ r.kind \in Digests!Kinds
      /\ r.read \in Contents \cup {Digests!Unknown}
      /\ cache.hash \in Contents \cup {Digests!Unknown}
  BY DEF DigestsInv, DigestsTyped, DigestCalls, DigestEntries
<1>2. r.pc = "keep" /\ UNCHANGED <<content, time, now>>
  BY DEF Digests!Keep
<1>3. PICK d \in DigestValues :
        /\ Digests!Ends(t, d)
        /\ \/ UNCHANGED cache
           \/ Digests!Remember(r.version, "hash", r.read)
           \/ Digests!Remember(r.version, "lines", r.read)
           \/ Digests!Remember(r.version, "text", AnswerTo(r.read))
  <2>1. CASE r.kind = "hash"
    BY <1>1, <2>1 DEF Digests!Keep, DigestValues
  <2>2. CASE r.kind = "lines"
    BY <1>1, <2>2 DEF Digests!Keep, DigestValues
  <2>3. CASE r.kind = "walk"
    BY <1>1, <2>3 DEF Digests!Keep, DigestValues, AnswerTo
  <2>4. CASE r.kind = "text"
    BY <1>1, <2>4 DEF Digests!Keep, DigestValues
  <2> QED
    BY <1>1, <2>1, <2>2, <2>3, <2>4 DEF Digests!Kinds
<1>4. cache' \in DigestEntries /\ Settling' /\ Digests!CacheCurrent'
  <2>1. CASE UNCHANGED cache
    BY <1>1, <1>2, <2>1 DEF DigestsInv, Settling, Digests!CacheCurrent, Digests!Settled
  <2>2. CASE ~UNCHANGED cache
    BY <1>2, <1>3, <2>2, RecordKeeps
  <2> QED
    BY <2>1, <2>2
<1> DEFINE n == [Digests!Idle EXCEPT !.pc = "done", !.kind = r.kind, !.read = r.read, !.digest = d]
<1>5. n \in DigestCalls /\ n.pc = "done" /\ Digests!Becomes(t, n)
  BY <1>1, <1>3, DoneTyped DEF Digests!Ends
<1> HIDE DEF n
<1> QED
  BY <1>2, <1>4, <1>5, CallKeeps


LEMMA DigestsNext == ASSUME Settle \in Nat \ {0}, ~Slow PROVE DigestsInv /\ [Digests!Next]_digestsVars => DigestsInv'
<1> SUFFICES ASSUME DigestsInv, [Digests!Next]_digestsVars PROVE DigestsInv'
  OBVIOUS
<1>1. CASE Digests!Tick
  BY <1>1, TickKeeps
<1>2. CASE Digests!Clear
  BY <1>2, ClearKeeps
<1>3. ASSUME NEW c \in Contents, Digests!Write(c) PROVE DigestsInv'
  BY <1>3, WriteKeeps
<1>4. ASSUME NEW t \in Threads, NEW kind \in Digests!Kinds, Digests!Open(t, kind) PROVE DigestsInv'
  BY <1>4, OpenKeeps
<1>5. ASSUME NEW t \in Threads, Digests!Look(t) \/ Digests!Read(t) \/ Digests!LookAgain(t) PROVE DigestsInv'
  BY <1>5, StepOfCall
<1>6. ASSUME NEW t \in Threads, Digests!Keep(t) PROVE DigestsInv'
  BY <1>6, KeepKeeps
<1>7. CASE UNCHANGED digestsVars
  BY <1>7 DEF digestsVars, DigestsInv, DigestsTyped, Ordered, Witnessed, Settling, Digests!CacheCurrent, Digests!Settled
<1> QED
  BY <1>1, <1>2, <1>3, <1>4, <1>5, <1>6, <1>7 DEF Digests!Next


-----------------------------------------------------------------------------
\* FilePatch.

CompletedFiles == Patch!Range(completed)

PatchTyped ==
  /\ files \in [Files -> Patch!AllTexts] /\ alone \in [Files -> Patch!AllTexts]
  /\ Patch!Loaded \subseteq Files
  /\ original \in [Patch!Loaded -> Patch!AllTexts]
  /\ staged \in [Patch!Loaded -> Patch!AllTexts]
  /\ left \subseteq Files /\ completed \in Seq(Files)

\* Before its first write a patch has changed nothing.
NothingWritten == patchAt \in {"stage", "check"} => files = alone /\ ~made /\ completed = <<>>

\* Unless edited since, a file that was checked is as the patch read it.
AsRead(S) == \A f \in S \ raced : alone[f] = original[f]
Rechecked ==
  /\ patchAt = "check" => left \subseteq Patch!Changed /\ AsRead(Patch!Changed \ left)
  /\ patchAt \in {"write", "rollback"} => AsRead(Patch!Changed)

\* What is written so far is whole; what is not restored is in the list or an error.
WrittenWhole ==
  /\ patchAt \in {"write", "rollback"} => CompletedFiles \subseteq Patch!Changed
  /\ patchAt = "write" =>
       /\ left \subseteq Patch!Changed /\ Patch!Changed \subseteq left \cup CompletedFiles
       /\ completed = <<>> => ~made
       /\ \A f \in Files \ raced :
            files[f] = IF f \in CompletedFiles THEN staged[f] ELSE alone[f]
  /\ patchAt = "rollback" =>
       errors \/ \A f \in Files \ raced : f \notin CompletedFiles => files[f] = alone[f]

Ended == patchAt # "done" => result = "none"

PatchFlags == dir \in BOOLEAN /\ made \in BOOLEAN /\ errors \in BOOLEAN

PatchInv == PatchTyped /\ NothingWritten /\ Rechecked /\ WrittenWhole /\ Ended /\ Patch!PatchWhole

-----------------------------------------------------------------------------
LEMMA AppendRange ==
  ASSUME NEW S, NEW s \in Seq(S), NEW x \in S
  PROVE  /\ Append(s, x) \in Seq(S) /\ Append(s, x) # <<>>
         /\ Patch!Range(Append(s, x)) = Patch!Range(s) \cup {x}
<1>1. /\ Append(s, x) \in Seq(S) /\ Len(Append(s, x)) = Len(s) + 1 /\ Len(s) \in Nat
      /\ DOMAIN Append(s, x) = 1 .. Len(s) + 1 /\ DOMAIN s = 1 .. Len(s)
      /\ \A i \in 1 .. Len(s) : Append(s, x)[i] = s[i]
      /\ Append(s, x)[Len(s) + 1] = x
  OBVIOUS
<1> QED
  BY <1>1 DEF Patch!Range

LEMMA FrontRange ==
  ASSUME NEW S, NEW s \in Seq(S), s # <<>>
  PROVE  /\ Patch!Front(s) \in Seq(S) /\ Patch!Last(s) \in S
         /\ Patch!Range(s) = Patch!Range(Patch!Front(s)) \cup {Patch!Last(s)}
<1>1. /\ Len(s) \in Nat \ {0} /\ DOMAIN s = 1 .. Len(s)
      /\ \A i \in 1 .. Len(s) : s[i] \in S
  OBVIOUS
<1>2. /\ Patch!Front(s) \in Seq(S) /\ DOMAIN Patch!Front(s) = 1 .. Len(s) - 1
      /\ \A i \in 1 .. Len(s) - 1 : Patch!Front(s)[i] = s[i]
  BY <1>1 DEF Patch!Front
<1>3. Patch!Last(s) = s[Len(s)]
  BY DEF Patch!Last
<1> QED
  BY <1>1, <1>2, <1>3 DEF Patch!Range

LEMMA PatchInit == Patch!Init => PatchInv /\ PatchFlags
<1> SUFFICES ASSUME Patch!Init PROVE PatchInv /\ PatchFlags
  OBVIOUS
<1>2. PatchFlags
  BY DEF Patch!Init, PatchFlags
<1>1. PatchTyped
  BY DEF Patch!Init, PatchTyped, Patch!Loaded, Patch!NoFiles
<1> QED
  BY <1>1, <1>2 DEF Patch!Init, PatchInv, NothingWritten, Rechecked, WrittenWhole, Ended, Patch!PatchWhole

\* Steps that leave the staged texts alone leave the changed files alone.
LEMMA SameChanged ==
  ASSUME UNCHANGED <<original, staged, replaced>>
  PROVE  Patch!Changed' = Patch!Changed /\ Patch!Loaded' = Patch!Loaded
BY DEF Patch!Changed, Patch!Loaded

LEMMA ChangedLoaded == Patch!Changed \subseteq Patch!Loaded
BY DEF Patch!Changed

LEMMA PatchEdit ==
  ASSUME PatchInv, NEW f \in Files, NEW text \in Patch!AllTexts, Patch!Edit(f, text)
  PROVE  PatchInv'
<1>1. /\ patchAt # "done" /\ files' = [files EXCEPT ![f] = text]
      /\ alone' = [alone EXCEPT ![f] = text]
      /\ UNCHANGED <<made, patchAt, original, staged, replaced, left, completed, errors, result>>
      /\ raced' = IF f \in Patch!Exposed THEN raced \cup {f} ELSE raced
  BY DEF Patch!Edit, Patch!stage
<1>2. Patch!Changed' = Patch!Changed /\ Patch!Loaded' = Patch!Loaded /\ CompletedFiles' = CompletedFiles
  BY <1>1, SameChanged DEF CompletedFiles
<1>3. PatchTyped'
  BY <1>1, <1>2 DEF PatchInv, PatchTyped
<1>4. \A g \in Files : /\ g # f => files'[g] = files[g] /\ alone'[g] = alone[g]
                       /\ g = f => files'[g] = alone'[g]
  BY <1>1 DEF PatchInv, PatchTyped
<1>5. NothingWritten'
  BY <1>1 DEF PatchInv, NothingWritten
<1>6. \A S : S \subseteq Patch!Exposed /\ S \subseteq Files /\ AsRead(S) => AsRead(S)'
  BY <1>1, <1>4 DEF AsRead
<1>7. Patch!Changed \subseteq Files
  BY ChangedLoaded DEF PatchInv, PatchTyped
<1>8. Rechecked'
  <2>1. CASE patchAt = "check"
    <3>1. Patch!Exposed = Patch!Changed \ left
      BY <2>1 DEF Patch!Exposed
    <3>2. AsRead(Patch!Changed \ left)'
      BY <2>1, <3>1, <1>1, <1>2, <1>4, <1>7 DEF PatchInv, Rechecked, AsRead
    <3> QED
      BY <2>1, <3>2, <1>1, <1>2 DEF PatchInv, Rechecked
  <2>2. CASE patchAt \in {"write", "rollback"}
    <3>1. Patch!Exposed = Patch!Changed
      BY <2>2 DEF Patch!Exposed
    <3>2. AsRead(Patch!Changed)'
      BY <2>2, <3>1, <1>1, <1>2, <1>4, <1>7 DEF PatchInv, Rechecked, AsRead
    <3> QED
      BY <2>2, <3>2, <1>1 DEF Rechecked
  <2>3. CASE patchAt \notin {"check", "write", "rollback"}
    BY <2>3, <1>1 DEF Rechecked
  <2> QED
    BY <2>1, <2>2, <2>3
<1>9. WrittenWhole'
  <2>1. CASE patchAt \in {"write", "rollback"}
    <3>1. Patch!Exposed = Patch!Changed /\ CompletedFiles \subseteq Patch!Changed
      BY <2>1 DEF Patch!Exposed, PatchInv, WrittenWhole
    <3>2. f \in CompletedFiles => f \in raced'
      BY <3>1, <1>1
    <3>3. raced \subseteq raced'
      BY <1>1
    <3> QED
      BY <2>1, <3>1, <3>2, <3>3, <1>1, <1>2, <1>4 DEF PatchInv, WrittenWhole
  <2>2. CASE patchAt \notin {"write", "rollback"}
    BY <2>2, <1>1 DEF WrittenWhole
  <2> QED
    BY <2>1, <2>2
<1>10. Ended' /\ Patch!PatchWhole'
  BY <1>1 DEF PatchInv, Ended, Patch!PatchWhole
<1> QED
  BY <1>3, <1>5, <1>8, <1>9, <1>10 DEF PatchInv

LEMMA PatchCancel == PatchInv /\ Patch!Cancel => PatchInv'
<1> SUFFICES ASSUME PatchInv, Patch!Cancel PROVE PatchInv'
  OBVIOUS
<1>1. UNCHANGED <<files, dir, made, patchAt, original, staged, replaced, left, completed,
                  errors, result, alone, raced>>
  BY DEF Patch!Cancel, Patch!disk, Patch!stage
<1>2. Patch!Changed' = Patch!Changed /\ Patch!Loaded' = Patch!Loaded /\ CompletedFiles' = CompletedFiles
  BY <1>1, SameChanged DEF CompletedFiles
<1>4. PatchTyped' /\ NothingWritten' /\ Ended'
  BY <1>1, <1>2 DEF PatchInv, PatchTyped, NothingWritten, Ended
<1>5. Rechecked' /\ WrittenWhole'
  BY <1>1, <1>2 DEF PatchInv, Rechecked, WrittenWhole, AsRead
<1>6. Patch!PatchWhole'
  BY <1>1 DEF Patch!PatchWhole, PatchInv, Ended, Patch!Cancel
<1> QED
  BY <1>4, <1>5, <1>6 DEF PatchInv

\* An operation is staged on what was staged, or on the file found.
LEMMA ExtendedTyped ==
  ASSUME NEW T, NEW D, NEW g \in [D -> T], NEW S, NEW h, \A f \in S : h[f] \in T
  PROVE  Patch!Extended(g, S, h) \in [D \cup S -> T]
BY DEF Patch!Extended

LEMMA PatchStage ==
  ASSUME PatchInv, NEW S, S \subseteq Files, NEW named, NEW recreated,
         NEW next \in [Patch!Loaded \cup S -> Patch!AllTexts],
         Patch!Stage(S, next, recreated, named)
  PROVE  PatchInv'
<1>1. /\ patchAt = "stage" /\ staged' = next
      /\ original' = Patch!Extended(original, S, files)
      /\ UNCHANGED <<files, made, patchAt, left, completed, errors, result, alone, raced>>
  BY DEF Patch!Stage, Patch!disk
<1>2. original' \in [Patch!Loaded \cup S -> Patch!AllTexts]
  BY <1>1, ExtendedTyped DEF PatchInv, PatchTyped
<1>3. Patch!Loaded' = Patch!Loaded \cup S
  BY <1>1 DEF Patch!Loaded
<1>4. PatchTyped'
  BY <1>1, <1>2, <1>3 DEF PatchInv, PatchTyped
<1>5. NothingWritten' /\ Ended' /\ Rechecked' /\ WrittenWhole' /\ Patch!PatchWhole'
  BY <1>1 DEF PatchInv, NothingWritten, Ended, Rechecked, WrittenWhole, Patch!PatchWhole
<1> QED
  BY <1>4, <1>5 DEF PatchInv

LEMMA BeforeTyped ==
  ASSUME PatchInv, NEW S, S \subseteq Files
  PROVE  Patch!Before(S) \in [Patch!Loaded \cup S -> Patch!AllTexts]
BY ExtendedTyped DEF PatchInv, PatchTyped, Patch!Before

LEMMA PatchStages ==
  ASSUME PatchInv, NEW f \in Files, NEW to \in Files, NEW hash, NEW text \in Patch!AllTexts,
         \/ Patch!Add(f, text) \/ Patch!Replace(f, hash, text)
         \/ Patch!Move(f, to, hash) \/ Patch!Delete(f, hash)
  PROVE  PatchInv'
<1>1. Patch!Missing \in Patch!AllTexts
  BY DEF Patch!AllTexts
<1>2. /\ {f} \subseteq Files /\ {f, to} \subseteq Files
      /\ Patch!Before({f}) \in [Patch!Loaded \cup {f} -> Patch!AllTexts]
      /\ Patch!Before({f, to}) \in [Patch!Loaded \cup {f, to} -> Patch!AllTexts]
  BY BeforeTyped
<1>3. CASE Patch!Add(f, text) \/ Patch!Replace(f, hash, text)
  <2>1. [Patch!Before({f}) EXCEPT ![f] = text] \in [Patch!Loaded \cup {f} -> Patch!AllTexts]
    BY <1>1, <1>2
  <2> QED
    BY <1>2, <1>3, <2>1, PatchStage DEF Patch!Add, Patch!Replace
<1>4. CASE Patch!Move(f, to, hash)
  <2>1. [Patch!Before({f, to}) EXCEPT ![f] = Patch!Missing, ![to] = Patch!Before({f, to})[f]]
          \in [Patch!Loaded \cup {f, to} -> Patch!AllTexts]
    BY <1>1, <1>2
  <2> QED
    BY <1>2, <1>4, <2>1, PatchStage DEF Patch!Move
<1>5. CASE Patch!Delete(f, hash)
  <2>1. [Patch!Before({f}) EXCEPT ![f] = Patch!Missing] \in [Patch!Loaded \cup {f} -> Patch!AllTexts]
    BY <1>1, <1>2
  <2> QED
    BY <1>2, <1>5, <2>1, PatchStage DEF Patch!Delete
<1> QED
  BY <1>3, <1>4, <1>5

LEMMA PatchRefuse == PatchInv /\ Patch!Refuse => PatchInv'
<1> SUFFICES ASSUME PatchInv, Patch!Refuse PROVE PatchInv'
  OBVIOUS
<1>1. /\ patchAt = "stage" /\ patchAt' = "done" /\ result' = "unchanged"
      /\ UNCHANGED <<files, made, dir, original, staged, replaced, left, completed, errors,
                     alone, raced>>
  BY DEF Patch!Refuse, Patch!End, Patch!disk, Patch!stage
<1>2. PatchTyped'
  BY <1>1 DEF PatchInv, PatchTyped, Patch!Loaded
<1> QED
  BY <1>1, <1>2 DEF PatchInv, NothingWritten, Rechecked, WrittenWhole, Ended, Patch!PatchWhole

LEMMA PatchCheck ==
  ASSUME PatchInv, NEW f, Patch!StartCheck \/ Patch!Check(f) \/ Patch!StartWrite
  PROVE  PatchInv'
<1>1. UNCHANGED <<files, made, dir, original, staged, replaced, completed, errors, alone, raced>>
  BY DEF Patch!StartCheck, Patch!Check, Patch!StartWrite, Patch!disk, Patch!stage
<1>2. Patch!Changed' = Patch!Changed /\ Patch!Loaded' = Patch!Loaded /\ CompletedFiles' = CompletedFiles
  BY <1>1, SameChanged DEF CompletedFiles
<1>3. Patch!Changed \subseteq Files
  BY ChangedLoaded DEF PatchInv, PatchTyped
<1>4. left' \subseteq Files
  BY <1>3 DEF PatchInv, PatchTyped, Patch!StartCheck, Patch!Check, Patch!StartWrite
<1>5. PatchTyped'
  BY <1>1, <1>2, <1>4 DEF PatchInv, PatchTyped
<1>6. files = alone /\ ~made /\ completed = <<>> /\ result = "none"
  BY DEF PatchInv, NothingWritten, Ended, Patch!StartCheck, Patch!Check, Patch!StartWrite
<1>7. CompletedFiles = {}
  BY <1>6 DEF CompletedFiles, Patch!Range
<1>8. CASE Patch!StartCheck
  <2>1. patchAt' = "check" /\ left' = Patch!Changed /\ UNCHANGED result
    BY <1>8 DEF Patch!StartCheck
  <2> QED
    BY <2>1, <1>1, <1>2, <1>5, <1>6
    DEF PatchInv, NothingWritten, Rechecked, AsRead, WrittenWhole, Ended, Patch!PatchWhole
<1>9. CASE Patch!Check(f)
  <2>1. CASE Patch!Matches(f)
    <3>1. patchAt = "check" /\ left' = left \ {f} /\ UNCHANGED <<patchAt, result>>
      BY <1>9, <2>1 DEF Patch!Check
    <3>2. alone[f] = original[f]
      BY <2>1, <1>6 DEF Patch!Matches
    <3>3. Rechecked'
      BY <3>1, <3>2, <1>1, <1>2 DEF PatchInv, Rechecked, AsRead
    <3> QED
      BY <3>1, <3>3, <1>1, <1>5, <1>6 DEF PatchInv, NothingWritten, WrittenWhole, Ended, Patch!PatchWhole
  <2>2. CASE ~Patch!Matches(f)
    <3>1. patchAt' = "done" /\ result' = "unchanged"
      BY <1>9, <2>2 DEF Patch!Check, Patch!End
    <3> QED
      BY <3>1, <1>1, <1>5, <1>6
      DEF PatchInv, NothingWritten, Rechecked, WrittenWhole, Ended, Patch!PatchWhole
  <2> QED
    BY <2>1, <2>2
<1>10. CASE Patch!StartWrite
  <2>1. patchAt = "check" /\ left = {} /\ patchAt' = "write" /\ left' = Patch!Changed /\ UNCHANGED result
    BY <1>10 DEF Patch!StartWrite
  <2>2. Rechecked'
    BY <2>1, <1>1, <1>2 DEF PatchInv, Rechecked, AsRead
  <2>3. WrittenWhole'
    BY <2>1, <1>1, <1>2, <1>6, <1>7 DEF WrittenWhole
  <2> QED
    BY <2>1, <2>2, <2>3, <1>1, <1>5, <1>6 DEF PatchInv, NothingWritten, Ended, Patch!PatchWhole
<1> QED
  BY <1>8, <1>9, <1>10

LEMMA PatchWrite ==
  ASSUME PatchInv, NEW f \in Files, Patch!Write(f) PROVE PatchInv'
<1>1. /\ patchAt = "write" /\ f \in left /\ left' = left \ {f}
      /\ completed' = Append(completed, f) /\ files' = [files EXCEPT ![f] = staged[f]]
      /\ UNCHANGED <<patchAt, original, staged, replaced, errors, result, alone, raced>>
  BY DEF Patch!Write, Patch!First, Patch!Put, Patch!stage
<1>2. Patch!Changed' = Patch!Changed /\ Patch!Loaded' = Patch!Loaded
  BY <1>1, SameChanged
<1>3. /\ completed' \in Seq(Files) /\ completed' # <<>> /\ CompletedFiles' = CompletedFiles \cup {f}
  BY <1>1, AppendRange DEF PatchInv, PatchTyped, CompletedFiles
<1>4. CompletedFiles \subseteq Patch!Changed /\ Patch!Changed \subseteq left \cup CompletedFiles
  BY <1>1 DEF PatchInv, WrittenWhole
<1>5. left \subseteq Patch!Changed
  BY <1>1 DEF PatchInv, WrittenWhole
<1>6. staged[f] \in Patch!AllTexts
  BY <1>1, <1>5, ChangedLoaded DEF PatchInv, PatchTyped
<1>7. PatchTyped'
  BY <1>1, <1>2, <1>3, <1>6 DEF PatchInv, PatchTyped
<1>8. \A g \in Files : files'[g] = IF g = f THEN staged[f] ELSE files[g]
  BY <1>1 DEF PatchInv, PatchTyped
<1>9. WrittenWhole'
  BY <1>1, <1>2, <1>3, <1>4, <1>5, <1>8 DEF PatchInv, WrittenWhole
<1>10. Rechecked' /\ NothingWritten' /\ Ended' /\ Patch!PatchWhole'
  BY <1>1, <1>2, <1>5 DEF PatchInv, Rechecked, AsRead, NothingWritten, Ended, Patch!PatchWhole
<1> QED
  BY <1>7, <1>9, <1>10 DEF PatchInv

LEMMA PatchStops ==
  ASSUME PatchInv, NEW f, NEW mkdir \in BOOLEAN,
         Patch!WriteFails(f, mkdir) \/ Patch!Cancelled \/ Patch!Finish
  PROVE  PatchInv'
<1>1. /\ patchAt = "write" /\ left' \subseteq left /\ result = "none"
      /\ UNCHANGED <<files, original, staged, replaced, completed, errors, alone, raced>>
  BY DEF PatchInv, Ended, Patch!WriteFails, Patch!Cancelled, Patch!Finish, Patch!disk, Patch!stage
<1>2. Patch!Changed' = Patch!Changed /\ Patch!Loaded' = Patch!Loaded /\ CompletedFiles' = CompletedFiles
  BY <1>1, SameChanged DEF CompletedFiles
<1>3. PatchTyped'
  BY <1>1, <1>2 DEF PatchInv, PatchTyped
<1>4. /\ AsRead(Patch!Changed) /\ CompletedFiles \subseteq Patch!Changed
      /\ Patch!Changed \subseteq left \cup CompletedFiles
      /\ completed = <<>> => ~made /\ CompletedFiles = {}
      /\ \A g \in Files \ raced : files[g] = IF g \in CompletedFiles THEN staged[g] ELSE alone[g]
  BY <1>1 DEF PatchInv, Rechecked, WrittenWhole, CompletedFiles, Patch!Range
<1>5. AsRead(Patch!Changed)'
  BY <1>1, <1>2, <1>4 DEF AsRead
<1>6. CASE patchAt' = "rollback" /\ UNCHANGED result
  BY <1>6, <1>1, <1>2, <1>3, <1>4, <1>5
  DEF PatchInv, NothingWritten, Rechecked, WrittenWhole, Ended, Patch!PatchWhole
<1>7. CASE patchAt' = "done"
  <2>1. NothingWritten' /\ Rechecked' /\ WrittenWhole' /\ Ended'
    BY <1>7 DEF NothingWritten, Rechecked, WrittenWhole, Ended
  <2>2. CASE Patch!Finish
    <3>1. result' = "applied" /\ Patch!Changed = CompletedFiles
      BY <2>2, <1>4 DEF Patch!Finish, Patch!End
    <3>2. Patch!PatchWhole'
      BY <3>1, <1>1, <1>2, <1>4 DEF Patch!PatchWhole, AsRead
    <3> QED
      BY <2>1, <3>2, <1>3 DEF PatchInv
  <2>3. CASE ~Patch!Finish
    <3>1. result' = "unchanged" /\ completed = <<>> /\ UNCHANGED made
      BY <2>3, <1>7 DEF Patch!WriteFails, Patch!Cancelled, Patch!End, Patch!disk
    <3>2. Patch!PatchWhole'
      BY <3>1, <1>1, <1>4 DEF Patch!PatchWhole
    <3> QED
      BY <2>1, <3>2, <1>3 DEF PatchInv
  <2> QED
    BY <2>2, <2>3
<1> QED
  BY <1>6, <1>7 DEF Patch!WriteFails, Patch!Cancelled, Patch!Finish, Patch!End

LEMMA PatchRestore ==
  ASSUME PatchInv, NEW fails \in BOOLEAN, Patch!Restore(fails) PROVE PatchInv'
<1> DEFINE f == Patch!Last(completed)
<1>1. /\ patchAt = "rollback" /\ completed # <<>> /\ completed' = Patch!Front(completed)
      /\ IF fails THEN errors' = TRUE /\ files' = files
         ELSE files' = [files EXCEPT ![f] = original[f]] /\ UNCHANGED errors
      /\ UNCHANGED <<patchAt, original, staged, replaced, left, result, alone, raced>>
  BY DEF Patch!Restore, Patch!Put, Patch!disk, Patch!stage
<1>2. Patch!Changed' = Patch!Changed /\ Patch!Loaded' = Patch!Loaded
  BY <1>1, SameChanged
<1>3. completed' \in Seq(Files) /\ f \in Files /\ CompletedFiles = CompletedFiles' \cup {f}
  BY <1>1, FrontRange DEF PatchInv, PatchTyped, CompletedFiles
<1> HIDE DEF f
<1>4. f \in Patch!Changed /\ CompletedFiles \subseteq Patch!Changed /\ AsRead(Patch!Changed)
  BY <1>1, <1>3 DEF PatchInv, WrittenWhole, Rechecked
<1>5. original[f] \in Patch!AllTexts
  BY <1>4, ChangedLoaded DEF PatchInv, PatchTyped
<1>6. PatchTyped'
  BY <1>1, <1>2, <1>3, <1>5 DEF PatchInv, PatchTyped
<1>7. ~fails => \A g \in Files : files'[g] = IF g = f THEN original[f] ELSE files[g]
  BY <1>1 DEF PatchInv, PatchTyped
<1>8. WrittenWhole'
  BY <1>1, <1>2, <1>3, <1>4, <1>7 DEF PatchInv, WrittenWhole, AsRead
<1>9. Rechecked' /\ NothingWritten' /\ Ended' /\ Patch!PatchWhole'
  BY <1>1, <1>2, <1>4 DEF PatchInv, Rechecked, AsRead, NothingWritten, Ended, Patch!PatchWhole
<1> QED
  BY <1>6, <1>8, <1>9 DEF PatchInv

LEMMA PatchEnd ==
  ASSUME PatchInv, PatchFlags, NEW fails \in BOOLEAN, Patch!EndRollback(fails)
  PROVE  PatchInv'
<1>1. /\ patchAt = "rollback" /\ completed = <<>> /\ patchAt' = "done"
      /\ UNCHANGED <<files, made, original, staged, replaced, left, completed, alone, raced>>
  BY DEF Patch!EndRollback, Patch!End, Patch!stage
<1>2. PatchTyped'
  BY <1>1 DEF PatchInv, PatchTyped, Patch!Loaded
<1>3. CompletedFiles = {}
  BY <1>1 DEF CompletedFiles, Patch!Range
<1> DEFINE stays == made /\ dir /\ (fails \/ ~(\A g \in Nested : files[g] = Patch!Missing))
<1>7. /\ dir' = (dir /\ ~(made /\ ~stays)) /\ UNCHANGED made
      /\ result' = IF errors \/ stays THEN "uncertain" ELSE "rolled_back"
  BY DEF Patch!EndRollback, Patch!End
<1> HIDE DEF stays
<1>4. result' = "uncertain" \/ (result' = "rolled_back" /\ ~errors /\ ~(made' /\ dir'))
  BY <1>7, Zenon
<1>5. errors \/ \A g \in Files \ raced : files[g] = alone[g]
  BY <1>1, <1>3 DEF PatchInv, WrittenWhole
<1>6. Patch!PatchWhole'
  BY <1>1, <1>4, <1>5 DEF Patch!PatchWhole
<1> QED
  BY <1>1, <1>2, <1>6 DEF PatchInv, NothingWritten, Rechecked, WrittenWhole, Ended

LEMMA FlagsNext == PatchFlags /\ [Patch!Next]_patchVars => PatchFlags'
<1> SUFFICES ASSUME PatchFlags, [Patch!Next]_patchVars PROVE PatchFlags'
  OBVIOUS
<1>1. CASE UNCHANGED <<dir, made, errors>>
  BY <1>1 DEF PatchFlags
<1>2. CASE \E f \in Files, mkdir \in BOOLEAN : Patch!Write(f) \/ Patch!WriteFails(f, mkdir)
  BY <1>2 DEF PatchFlags, Patch!Write, Patch!WriteFails, Patch!Put, Patch!MakesDir
<1>3. CASE \E fails \in BOOLEAN : Patch!Restore(fails) \/ Patch!EndRollback(fails)
  BY <1>3 DEF PatchFlags, Patch!Restore, Patch!EndRollback, Patch!Put, Patch!MakesDir, Patch!disk
<1>4. CASE /\ \A f \in Files, mkdir \in BOOLEAN : ~Patch!Write(f) /\ ~Patch!WriteFails(f, mkdir)
           /\ \A fails \in BOOLEAN : ~Patch!Restore(fails) /\ ~Patch!EndRollback(fails)
  <2>1. UNCHANGED <<dir, made, errors>>
    BY <1>4 DEF patchVars, Patch!Next, Patch!Edit, Patch!Cancel, Patch!Refuse, Patch!StartCheck,
      Patch!Check, Patch!StartWrite, Patch!Cancelled, Patch!Finish, Patch!Add, Patch!Replace,
      Patch!Move, Patch!Delete, Patch!Stage, Patch!disk
  <2> QED
    BY <2>1, <1>1
<1> QED
  BY <1>2, <1>3, <1>4

LEMMA PatchNext == PatchInv /\ PatchFlags /\ [Patch!Next]_patchVars => PatchInv'
<1> SUFFICES ASSUME PatchInv, PatchFlags, [Patch!Next]_patchVars PROVE PatchInv'
  OBVIOUS
<1>1. ASSUME NEW f \in Files, NEW text \in Patch!AllTexts, Patch!Edit(f, text) PROVE PatchInv'
  BY <1>1, PatchEdit
<1>2. CASE Patch!Cancel \/ Patch!Refuse
  BY <1>2, PatchCancel, PatchRefuse
<1>3. CASE Patch!StartCheck \/ Patch!StartWrite \/ Patch!Cancelled \/ Patch!Finish
  <2>1. \E f : f = 0
    OBVIOUS
  <2> QED
    BY <1>3, <2>1, PatchCheck, PatchStops
<1>4. ASSUME NEW f \in Files, Patch!Check(f) \/ Patch!Write(f) PROVE PatchInv'
  BY <1>4, PatchCheck, PatchWrite
<1>5. ASSUME NEW f \in Files, NEW mkdir \in BOOLEAN, Patch!WriteFails(f, mkdir) PROVE PatchInv'
  BY <1>5, PatchStops
<1>6. ASSUME NEW f \in Files, NEW text \in FileTexts, Patch!Add(f, text) PROVE PatchInv'
  BY <1>6, PatchStages DEF Patch!AllTexts
<1>7. ASSUME NEW f \in Files, NEW hash, NEW text \in FileTexts, Patch!Replace(f, hash, text)
      PROVE  PatchInv'
  BY <1>7, PatchStages DEF Patch!AllTexts
<1>8. ASSUME NEW f \in Files, NEW hash, NEW to \in Files,
             Patch!Move(f, to, hash) \/ Patch!Delete(f, hash)
      PROVE  PatchInv'
  BY <1>8, PatchStages, Patch!Missing \in Patch!AllTexts DEF Patch!AllTexts
<1>9. ASSUME NEW fails \in BOOLEAN, Patch!Restore(fails) \/ Patch!EndRollback(fails)
      PROVE  PatchInv'
  BY <1>9, PatchRestore, PatchEnd
<1>10. CASE UNCHANGED patchVars
  <2>1. UNCHANGED <<files, made, dir, patchAt, original, staged, replaced, left, completed,
                    errors, result, alone, raced>>
    BY <1>10 DEF patchVars
  <2>2. Patch!Changed' = Patch!Changed /\ Patch!Loaded' = Patch!Loaded /\ CompletedFiles' = CompletedFiles
    BY <2>1, SameChanged DEF CompletedFiles
  <2> QED
    BY <2>1, <2>2 DEF PatchInv, PatchTyped, NothingWritten, Rechecked, AsRead, WrittenWhole, Ended,
      Patch!PatchWhole
<1> QED
  BY <1>1, <1>2, <1>3, <1>4, <1>5, <1>6, <1>7, <1>8, <1>9, <1>10 DEF Patch!Next

-----------------------------------------------------------------------------
\* CheckpointTools.

Held == [id : Nat, at : Nat]
NarrowTyped ==
  /\ cp \in [id : Nat, failed : BOOLEAN, acked : BOOLEAN, attempts : Nat, lookups : Nat]
  /\ batches \in Held /\ editHeld \in Held /\ citesHeld \in Held
  /\ held \in Nat /\ refused \in Nat /\ cpCalls \in Nat

\* A checkpoint is newer than all that was counted for others.
Newest == IF cp.id # 0 THEN cp.id ELSE batches.id
NumberedAfter ==
  /\ question => cp.id = 0
  /\ batches.id <= Newest /\ editHeld.id <= Newest /\ citesHeld.id <= Newest

Counted ==
  /\ held <= 1 /\ refused <= 1
  /\ cp.id # 0 => /\ editHeld.id # cp.id => held = 0
                  /\ citesHeld.id # cp.id => refused = 0
                  /\ citesHeld.id = cp.id => refused = 1

\* The batch that lacked citations comes before the next calls.
HeldBefore ==
  cp.id # 0 /\ citesHeld.id = cp.id =>
    /\ citesHeld.at <= Narrow!Batches
    /\ cpAt # "completing" => citesHeld.at < Narrow!Batches

\* Edits ran in the first batch, in the one after a failed edit and in the one
\* after missing citations.
Reopened(h) == IF h.id = cp.id THEN {h.at + 1} ELSE {}
Batched ==
  /\ cp.id # 0 => edited \subseteq {0} \cup Reopened(editHeld) \cup Reopened(citesHeld)
  /\ \E x, y : edited \subseteq {0, x, y}

Acked ==
  cp.acked => cpAt = "completing" /\ ~cp.failed /\ (Narrow!LacksCitations => refused = 1)

OfferedRuns ==
  cpAt = "calls" => \A t \in offered : cpCalls = 0 \/ t \in Narrow!Edits => Narrow!Accepts(t)

NarrowInv ==
  NarrowTyped /\ NumberedAfter /\ Counted /\ HeldBefore /\ Batched /\ Acked /\ OfferedRuns

-----------------------------------------------------------------------------
LEMMA ThreeBatches ==
  ASSUME NEW S, NEW x, NEW y, S \subseteq {0, x, y} PROVE Narrow!Cardinality(S) <= 3
<1>1. Narrow!Cardinality(S) = Cardinality(S)
  BY DEF Narrow!Cardinality, Cardinality
<1>3. ASSUME NEW T, NEW z, NEW n \in Nat, IsFiniteSet(T), Cardinality(T) <= n
      PROVE  IsFiniteSet(T \cup {z}) /\ Cardinality(T \cup {z}) <= n + 1
  <2>1. /\ IsFiniteSet(T \cup {z}) /\ Cardinality(T) \in Nat
        /\ Cardinality(T \cup {z}) = Cardinality(T) \/ Cardinality(T \cup {z}) = Cardinality(T) + 1
    BY <1>3, FS_AddElement, FS_CardinalityType
  <2> QED
    BY <1>3, <2>1
<1>4. IsFiniteSet({0}) /\ Cardinality({0}) <= 1
  BY FS_Singleton
<1>2. IsFiniteSet({0} \cup {x}) /\ Cardinality({0} \cup {x}) <= 2
  <2>1. IsFiniteSet({0} \cup {x}) /\ Cardinality({0} \cup {x}) <= 1 + 1
    BY <1>3, <1>4, 1 \in Nat, Zenon
  <2> QED
    BY <2>1
<1>5. IsFiniteSet(({0} \cup {x}) \cup {y}) /\ Cardinality(({0} \cup {x}) \cup {y}) <= 3
  <2>1. /\ IsFiniteSet(({0} \cup {x}) \cup {y})
        /\ Cardinality(({0} \cup {x}) \cup {y}) <= 2 + 1
    BY <1>2, <1>3, 2 \in Nat, Zenon
  <2> QED
    BY <2>1
<1>6. ({0} \cup {x}) \cup {y} = {0, x, y}
  OBVIOUS
<1>7. IsFiniteSet({0, x, y}) /\ Cardinality({0, x, y}) <= 3
  BY <1>5, <1>6
<1>8. Cardinality(S) <= Cardinality({0, x, y}) /\ IsFiniteSet(S)
  BY <1>7, FS_Subset
<1>9. Cardinality(S) \in Nat /\ Cardinality({0, x, y}) \in Nat
  BY <1>7, <1>8, FS_CardinalityType
<1> QED
  BY <1>1, <1>7, <1>8, <1>9

\* The tools' own gates and the filter of a request agree.
LEMMA RunsOffered ==
  ASSUME cp.lookups \in Int, NEW t \in Narrow!Tools, Narrow!Runs(t)
  PROVE  t \in Narrow!Definitions
BY DEF Narrow!Runs, Narrow!Definitions, Narrow!Accepts, Narrow!Withheld, Narrow!LookupSpent,
  Narrow!Lookups

LEMMA OfferedAccepted ==
  ASSUME NEW t \in Narrow!Definitions PROVE Narrow!Accepts(t)
BY DEF Narrow!Definitions, Narrow!Accepts, Narrow!Withheld

LEMMA EditsAccepted ==
  ASSUME NEW t \in Narrow!Edits
  PROVE  Narrow!Accepts(t) <=> ~question /\ (Narrow!Open => Narrow!EditsOpen)
BY DEF Narrow!Edits, Narrow!Accepts, Narrow!Withheld, Narrow!CheckpointAllows,
  Narrow!CheckpointBasics, Narrow!MemoryReads, Narrow!ProjectWrites, Narrow!QuestionTools,
  Narrow!Discovery, Narrow!ClosingWithholds, Narrow!ClosingBlocked, Narrow!RecoveryWithholds

LEMMA NarrowPrompt == NarrowInv => Narrow!CheckpointPrompt
<1> SUFFICES ASSUME NarrowInv PROVE Narrow!CheckpointPrompt
  OBVIOUS
<1>1. \A t \in Narrow!Tools : Narrow!Runs(t) => t \in Narrow!Definitions
  BY RunsOffered DEF NarrowInv, NarrowTyped
<1>2. Narrow!Cardinality(edited) <= 3
  BY ThreeBatches DEF NarrowInv, Batched
<1> QED
  BY <1>1, <1>2 DEF NarrowInv, Counted, Acked, OfferedRuns, Narrow!CheckpointPrompt

LEMMA NarrowInit == Narrow!Init => NarrowInv
<1> SUFFICES ASSUME Narrow!Init PROVE NarrowInv
  OBVIOUS
<1>1. /\ cp = Narrow!NoCheckpoint /\ cp.id = 0 /\ cp.acked = FALSE
      /\ batches = Narrow!Unheld /\ editHeld = Narrow!Unheld /\ citesHeld = Narrow!Unheld
      /\ Narrow!Unheld.id = 0 /\ Narrow!Unheld \in Held /\ cpAt = "between"
      /\ cpCalls = 0 /\ held = 0 /\ refused = 0 /\ edited = {}
  BY DEF Narrow!Init, Narrow!NoCheckpoint, Narrow!Unheld, Held
<1>2. NarrowTyped
  BY <1>1 DEF NarrowTyped, Narrow!NoCheckpoint
<1> QED
  BY <1>1, <1>2 DEF NarrowInv, NumberedAfter, Newest, Counted, HeldBefore, Batched, Acked, OfferedRuns

LEMMA NarrowSteer ==
  ASSUME NarrowInv, NEW to, Narrow!Steer(to) PROVE NarrowInv'
<1>1. /\ cpAt = "between"
      /\ UNCHANGED <<question, document, saved, cites, cp, batches, editHeld, citesHeld, cpAt,
                     cpCalls, offered, edited, held, refused>>
  BY DEF Narrow!Steer, Narrow!bounds, Narrow!ghosts
<1>2. OfferedRuns'
  BY <1>1 DEF OfferedRuns
<1>3. Narrow!LacksCitations' = Narrow!LacksCitations /\ Narrow!Batches' = Narrow!Batches
  BY <1>1 DEF Narrow!LacksCitations, Narrow!DocumentWork, Narrow!Batches
<1> QED
  BY <1>1, <1>2, <1>3 DEF NarrowInv, NarrowTyped, NumberedAfter, Newest, Counted, HeldBefore, Batched,
    Reopened, Acked

LEMMA NarrowPrepare == ASSUME NarrowInv, Narrow!Prepare PROVE NarrowInv'
<1>1. /\ cpAt = "between" /\ ~question /\ cp.id = 0 /\ edited' = {} /\ held' = 0 /\ refused' = 0
      /\ cp' = [Narrow!NoCheckpoint EXCEPT !.id = batches.id + 1]
      /\ UNCHANGED <<question, batches, editHeld, citesHeld, cpAt, cpCalls>>
  BY DEF Narrow!Prepare, Narrow!NextId, Narrow!bounds
<1>2. /\ batches.id \in Nat /\ editHeld.id \in Nat /\ citesHeld.id \in Nat
      /\ editHeld.id <= batches.id /\ citesHeld.id <= batches.id
  BY <1>1 DEF NarrowInv, NarrowTyped, Held, NumberedAfter, Newest
<1>3. /\ cp'.id = batches.id + 1 /\ cp'.acked = FALSE
      /\ cp' \in [id : Nat, failed : BOOLEAN, acked : BOOLEAN, attempts : Nat, lookups : Nat]
  <2>1. cp' = [id |-> batches.id + 1, failed |-> FALSE, acked |-> FALSE, attempts |-> 0, lookups |-> 0]
    BY <1>1 DEF Narrow!NoCheckpoint
  <2> QED
    BY <1>2, <2>1
<1>4. NarrowTyped'
  BY <1>1, <1>3 DEF NarrowInv, NarrowTyped
<1>5. editHeld'.id # cp'.id /\ citesHeld'.id # cp'.id /\ cp'.id # 0
  BY <1>1, <1>2, <1>3
<1>6. NumberedAfter' /\ Counted' /\ HeldBefore' /\ OfferedRuns' /\ Acked'
  BY <1>1, <1>2, <1>3, <1>5 DEF NumberedAfter, Newest, Counted, HeldBefore, OfferedRuns, Acked
<1>7. Batched'
  BY <1>1 DEF Batched
<1> QED
  BY <1>4, <1>6, <1>7 DEF NarrowInv

LEMMA ResumedTyped ==
  ASSUME NarrowTyped
  PROVE  /\ Narrow!Resumed(cp).id = cp.id /\ Narrow!Resumed(cp).acked = FALSE
         /\ Narrow!Resumed(cp)
              \in [id : Nat, failed : BOOLEAN, acked : BOOLEAN, attempts : Nat, lookups : Nat]
BY DEF NarrowTyped, Narrow!Resumed

LEMMA NarrowResume == ASSUME NarrowInv, Narrow!Resume PROVE NarrowInv'
<1>1. /\ cpAt = "stopped" /\ cpAt' = "between" /\ cp' = Narrow!Resumed(cp)
      /\ UNCHANGED <<question, batches, editHeld, citesHeld, cpCalls, edited, held, refused>>
  BY DEF Narrow!Resume, Narrow!modes, Narrow!bounds, Narrow!ghosts
<1>2. /\ cp'.id = cp.id /\ cp'.acked = FALSE
      /\ cp' \in [id : Nat, failed : BOOLEAN, acked : BOOLEAN, attempts : Nat, lookups : Nat]
  BY <1>1, ResumedTyped DEF NarrowInv
<1>3. NarrowTyped'
  BY <1>1, <1>2 DEF NarrowInv, NarrowTyped
<1>4. Narrow!Batches' = Narrow!Batches
  BY <1>1, <1>2 DEF Narrow!Batches
<1> QED
  BY <1>1, <1>2, <1>3, <1>4
  DEF NarrowInv, NumberedAfter, Newest, Counted, HeldBefore, Batched, Reopened, Acked, OfferedRuns

LEMMA NarrowRework == ASSUME NarrowInv, Narrow!Rework PROVE NarrowInv'
<1>1. /\ cpAt = "stopped" /\ cpAt' = "between" /\ cp' = Narrow!Resumed(cp)
      /\ batches' = Narrow!Unheld /\ editHeld' = Narrow!Unheld /\ citesHeld' = Narrow!Unheld
      /\ edited' = {} /\ held' = 0 /\ refused' = 0 /\ UNCHANGED <<question, cpCalls>>
  BY DEF Narrow!Rework
<1>2. /\ cp'.id = cp.id /\ cp'.acked = FALSE
      /\ cp' \in [id : Nat, failed : BOOLEAN, acked : BOOLEAN, attempts : Nat, lookups : Nat]
  BY <1>1, ResumedTyped DEF NarrowInv
<1>3. Narrow!Unheld \in Held /\ Narrow!Unheld.id = 0
  BY DEF Narrow!Unheld, Held
<1>4. NarrowTyped'
  BY <1>1, <1>2, <1>3 DEF NarrowInv, NarrowTyped
<1>5. cp'.id \in Nat
  BY <1>2
<1>6. NumberedAfter' /\ Counted' /\ HeldBefore' /\ Acked' /\ OfferedRuns'
  BY <1>1, <1>2, <1>3, <1>5 DEF NarrowInv, NumberedAfter, Newest, Counted, HeldBefore, Acked, OfferedRuns
<1>7. Batched'
  BY <1>1 DEF Batched
<1> QED
  BY <1>4, <1>6, <1>7 DEF NarrowInv

LEMMA NarrowRequest == ASSUME NarrowInv, Narrow!Request PROVE NarrowInv'
<1>1. /\ cpAt = "between" /\ offered' = Narrow!Definitions /\ cpCalls' = 0
      /\ UNCHANGED <<document, reuse, question, steer, saved, cites, batches, editHeld, citesHeld,
                     edited, held, refused>>
      /\ cp' = cp \/ cp' = [cp EXCEPT !.failed = FALSE, !.acked = FALSE, !.attempts = @ + 1]
      /\ cpAt' \in {"calls", "stopped"}
  BY DEF Narrow!Request, Narrow!modes, Narrow!bounds, Narrow!ghosts
<1>2. cp.acked = FALSE
  BY <1>1 DEF NarrowInv, Acked, NarrowTyped
<1>3. /\ cp'.id = cp.id /\ cp'.acked = FALSE /\ cp'.lookups = cp.lookups
      /\ cp' \in [id : Nat, failed : BOOLEAN, acked : BOOLEAN, attempts : Nat, lookups : Nat]
  <2>1. cp.attempts + 1 \in Nat
    BY DEF NarrowInv, NarrowTyped
  <2>2. CASE cp' = cp
    BY <1>2, <2>2 DEF NarrowInv, NarrowTyped
  <2>3. CASE cp' = [cp EXCEPT !.failed = FALSE, !.acked = FALSE, !.attempts = cp.attempts + 1]
    BY <2>1, <2>3 DEF NarrowInv, NarrowTyped
  <2> QED
    BY <1>1, <2>2, <2>3
<1>4. NarrowTyped'
  BY <1>1, <1>3 DEF NarrowInv, NarrowTyped
<1>5. Narrow!Batches' = Narrow!Batches
  BY <1>1, <1>3 DEF Narrow!Batches
<1>6. \A t : Narrow!Accepts(t)' = Narrow!Accepts(t)
  BY <1>1, <1>3, <1>5 DEF Narrow!Accepts, Narrow!Withheld, Narrow!CheckpointAllows, Narrow!EditsOpen,
    Narrow!EditsReopened, Narrow!Open, Narrow!DocumentWork, Narrow!ClosingWithholds, Narrow!RecoveryWithholds
<1>7. OfferedRuns'
  BY <1>1, <1>6, OfferedAccepted DEF OfferedRuns
<1> QED
  BY <1>1, <1>3, <1>4, <1>5, <1>7
  DEF NarrowInv, NumberedAfter, Newest, Counted, HeldBefore, Batched, Reopened, Acked

LEMMA FailedTyped ==
  ASSUME NarrowTyped
  PROVE  /\ Narrow!Failed(cp).id = cp.id /\ Narrow!Failed(cp).acked = FALSE
         /\ Narrow!Failed(cp)
              \in [id : Nat, failed : BOOLEAN, acked : BOOLEAN, attempts : Nat, lookups : Nat]
BY DEF NarrowTyped, Narrow!Failed

\* Within a batch: an edit that fails once keeps the edits of the batch open.
LEMMA NarrowCalls ==
  ASSUME NarrowInv, NEW t \in Narrow!Tools, NEW works \in BOOLEAN, NEW cited \in BOOLEAN,
         Narrow!Panics(t) \/ Narrow!Call(t, works, cited)
  PROVE  NarrowInv'
<1>1. /\ cpAt = "calls" /\ cpCalls' = cpCalls + 1
      /\ UNCHANGED <<document, reuse, question, steer, batches, citesHeld, cpAt, offered, refused>>
  BY DEF Narrow!Panics, Narrow!Call, Narrow!modes, Narrow!bounds, Narrow!ghosts
<1>2. /\ cp.id \in Nat /\ cp.lookups \in Nat /\ cpCalls \in Nat /\ held \in Nat
      /\ batches.id \in Nat /\ batches.at \in Nat /\ Narrow!Batches \in Nat
      /\ cp.acked = FALSE
  BY <1>1 DEF NarrowInv, NarrowTyped, Held, Acked, Narrow!Batches
<1>3. Narrow!Open => cp.id # 0
  BY DEF Narrow!Open
<1>4. cp.id # 0 => Narrow!Open
  BY DEF NarrowInv, NumberedAfter, Narrow!Open
<1> DEFINE Ran == /\ t \in Narrow!Edits /\ Narrow!Open /\ Narrow!Runs(t)
                  /\ edited' = edited \cup {Narrow!Batches}
           Broke == /\ t \in Narrow!Edits /\ Narrow!Open /\ Narrow!EditHolds
                    /\ editHeld' = [id |-> cp.id, at |-> Narrow!Batches] /\ held' = held + 1
<1>5. /\ cp'.id = cp.id /\ cp'.acked = FALSE
      /\ cp' \in [id : Nat, failed : BOOLEAN, acked : BOOLEAN, attempts : Nat, lookups : Nat]
  <2>1. cp' = cp \/ cp' = Narrow!Failed(cp) \/ cp' = [cp EXCEPT !.lookups = cp.lookups + 1]
    BY DEF Narrow!Panics, Narrow!Call, Narrow!Fails
  <2>2. cp.lookups + 1 \in Nat
    BY <1>2
  <2>3. CASE cp' = [cp EXCEPT !.lookups = cp.lookups + 1]
    BY <1>2, <2>2, <2>3 DEF NarrowInv, NarrowTyped
  <2> QED
    BY <1>2, <2>1, <2>3, FailedTyped DEF NarrowInv, NarrowTyped
<1>6. UNCHANGED edited \/ Ran
  BY DEF Narrow!Panics, Narrow!Call, Narrow!ghosts
<1>7. UNCHANGED <<editHeld, held>> \/ Broke
  <2>1. CASE Narrow!Panics(t) \/ (works /\ Narrow!Runs(t))
    BY <2>1 DEF Narrow!Panics, Narrow!Call, Narrow!bounds, Narrow!ghosts
  <2>2. CASE Narrow!Fails(t)
    BY <1>2, <2>2 DEF Narrow!Fails
  <2> QED
    BY <2>1, <2>2 DEF Narrow!Call
<1>8. Narrow!Batches' = Narrow!Batches
  BY <1>1, <1>5 DEF Narrow!Batches
<1>9. Broke => /\ editHeld.id # cp.id /\ cp.id # 0 /\ editHeld'.id = cp.id /\ editHeld' \in Held
               /\ held = 0 /\ held' = 1
  BY <1>2, <1>3 DEF Narrow!EditHolds, NarrowInv, Counted, Held
<1>10. Ran => Narrow!EditsOpen /\ cp.id # 0
  BY <1>3, EditsAccepted DEF Narrow!Runs
<1>11. /\ editHeld \in Held /\ citesHeld \in Held
       /\ editHeld.at \in Nat /\ citesHeld.at \in Nat /\ editHeld.id \in Nat /\ citesHeld.id \in Nat
  BY DEF NarrowInv, NarrowTyped, Held
<1> HIDE DEF Ran, Broke
<1>12. NarrowTyped'
  BY <1>1, <1>2, <1>5, <1>7, <1>9, <1>11 DEF NarrowInv, NarrowTyped
<1>13. NumberedAfter' /\ Counted'
  BY <1>1, <1>2, <1>5, <1>7, <1>9, <1>11 DEF NarrowInv, NumberedAfter, Newest, Counted
<1>14. HeldBefore' /\ Acked'
  BY <1>1, <1>5, <1>8 DEF NarrowInv, HeldBefore, Acked
<1>15. Reopened(editHeld) \subseteq Reopened(editHeld)' /\ Reopened(citesHeld)' = Reopened(citesHeld)
  BY <1>1, <1>5, <1>7, <1>9 DEF Reopened
<1>16. Ran => Narrow!Batches \in {0} \cup Reopened(editHeld) \cup Reopened(citesHeld)
  BY <1>1, <1>2, <1>10, <1>11
  DEF NarrowInv, HeldBefore, Reopened, Narrow!EditsOpen, Narrow!EditsReopened
<1>17. Batched'
  <2>1. CASE cp.id = 0
    BY <2>1, <1>5, <1>6, <1>10 DEF NarrowInv, Batched
  <2>2. CASE cp.id # 0
    <3>1. edited' \subseteq {0} \cup Reopened(editHeld)' \cup Reopened(citesHeld)'
      BY <2>2, <1>6, <1>15, <1>16 DEF Ran, NarrowInv, Batched
    <3>2. /\ Reopened(editHeld)' \subseteq {editHeld'.at + 1}
          /\ Reopened(citesHeld)' \subseteq {citesHeld'.at + 1}
      BY DEF Reopened
    <3>3. edited' \subseteq {0, editHeld'.at + 1, citesHeld'.at + 1}
      BY <3>1, <3>2
    <3> QED
      BY <3>1, <3>3 DEF Batched
  <2> QED
    BY <2>1, <2>2
<1>18. Narrow!EditsOpen => Narrow!EditsOpen'
  BY <1>1, <1>5, <1>7, <1>8, <1>9
  DEF Narrow!EditsOpen, Narrow!EditsReopened, Narrow!Open, Narrow!DocumentWork
<1>19. OfferedRuns'
  <2>1. cpCalls' # 0 /\ Narrow!Open' = Narrow!Open
    BY <1>1, <1>2, <1>5 DEF Narrow!Open
  <2>2. ASSUME NEW e \in offered', e \in Narrow!Edits PROVE Narrow!Accepts(e)'
    <3>1. Narrow!Accepts(e)
      BY <1>1, <2>2 DEF NarrowInv, OfferedRuns
    <3>2. ~question' /\ (Narrow!Open' => Narrow!EditsOpen')
      BY <1>1, <1>18, <2>1, <2>2, <3>1, EditsAccepted
    <3>3. Narrow!Accepts(e)' <=> ~question' /\ (Narrow!Open' => Narrow!EditsOpen')
      BY <2>2
      DEF Narrow!Edits, Narrow!Accepts, Narrow!Withheld, Narrow!CheckpointAllows,
        Narrow!CheckpointBasics, Narrow!MemoryReads, Narrow!ProjectWrites, Narrow!QuestionTools,
        Narrow!Discovery, Narrow!ClosingWithholds, Narrow!ClosingBlocked, Narrow!RecoveryWithholds
    <3> QED
      BY <3>2, <3>3
  <2> QED
    BY <2>1, <2>2 DEF OfferedRuns
<1> QED
  BY <1>12, <1>13, <1>14, <1>17, <1>19 DEF NarrowInv

LEMMA NarrowComplete ==
  ASSUME NarrowInv, NEW valid \in BOOLEAN, Narrow!CompleteCheckpoint(valid) PROVE NarrowInv'
<1>1. /\ Narrow!Open /\ cpAt' = "completing"
      /\ UNCHANGED <<document, question, saved, cites, batches, editHeld, cpCalls, edited, held>>
  BY DEF Narrow!CompleteCheckpoint, Narrow!modes
<1> DEFINE Lacks == ~cp.failed /\ valid /\ Narrow!LacksCitations /\ citesHeld.id # cp.id
<1>2. cp.id # 0 /\ cp.id \in Nat /\ Narrow!Batches \in Nat
  BY <1>1 DEF Narrow!Open, Narrow!Batches, NarrowInv, NarrowTyped, Held
<1>3. IF Lacks
      THEN /\ citesHeld' = [id |-> cp.id, at |-> Narrow!Batches] /\ refused' = refused + 1
           /\ cp' = Narrow!Failed(cp)
      ELSE /\ cp' = IF cp.failed \/ ~valid THEN Narrow!Failed(cp) ELSE [cp EXCEPT !.acked = TRUE]
           /\ UNCHANGED <<citesHeld, refused>>
  BY DEF Narrow!CompleteCheckpoint
<1>4. /\ cp'.id = cp.id
      /\ cp' \in [id : Nat, failed : BOOLEAN, acked : BOOLEAN, attempts : Nat, lookups : Nat]
  <2>1. CASE cp' = [cp EXCEPT !.acked = TRUE]
    BY <2>1 DEF NarrowInv, NarrowTyped
  <2>2. CASE cp' = Narrow!Failed(cp)
    BY <2>2, FailedTyped DEF NarrowInv
  <2> QED
    BY <1>3, <2>1, <2>2
<1>5. cp'.acked => ~Lacks /\ ~cp.failed /\ valid /\ ~cp'.failed
  BY <1>3, FailedTyped DEF NarrowInv, NarrowTyped
<1>6. Lacks => /\ citesHeld' \in Held /\ citesHeld'.id = cp.id /\ citesHeld'.at = Narrow!Batches
               /\ refused = 0 /\ refused' = 1 /\ citesHeld.id # cp.id
  BY <1>2, <1>3 DEF NarrowInv, Counted, Held
<1>7. ~Lacks => UNCHANGED <<citesHeld, refused>>
  BY <1>3
<1>8. cp'.acked /\ Narrow!LacksCitations => refused' = 1
  BY <1>2, <1>5, <1>7 DEF NarrowInv, Counted
<1> HIDE DEF Lacks
<1>9. NarrowTyped'
  BY <1>1, <1>4, <1>6, <1>7 DEF NarrowInv, NarrowTyped
<1>10. NumberedAfter' /\ Counted'
  BY <1>1, <1>2, <1>4, <1>6, <1>7 DEF NarrowInv, NumberedAfter, Newest, Counted
<1>11. Narrow!Batches' = Narrow!Batches /\ Narrow!LacksCitations' = Narrow!LacksCitations
  BY <1>1, <1>4 DEF Narrow!Batches, Narrow!LacksCitations, Narrow!DocumentWork
<1>12. HeldBefore' /\ Acked'
  BY <1>1, <1>2, <1>4, <1>5, <1>6, <1>7, <1>8, <1>11 DEF NarrowInv, HeldBefore, Acked
<1>13. Reopened(editHeld)' = Reopened(editHeld) /\ Reopened(citesHeld) \subseteq Reopened(citesHeld)'
  BY <1>1, <1>4, <1>6, <1>7 DEF Reopened
<1>14. Batched'
  BY <1>1, <1>4, <1>13 DEF NarrowInv, Batched
<1> QED
  BY <1>1, <1>9, <1>10, <1>12, <1>14 DEF NarrowInv, OfferedRuns

LEMMA NarrowEnd ==
  ASSUME NarrowInv, NEW stops \in BOOLEAN, Narrow!EndBatch(stops) PROVE NarrowInv'
<1>1. /\ cpAt' \in {"stopped", "between"}
      /\ batches' = IF ~Narrow!Open THEN batches ELSE [id |-> cp.id, at |-> Narrow!Batches + 1]
      /\ cp' = IF ~stops /\ cp.acked /\ ~cp.failed THEN Narrow!NoCheckpoint
               ELSE IF stops THEN [cp EXCEPT !.acked = FALSE] ELSE cp
      /\ UNCHANGED <<question, editHeld, citesHeld, cpCalls, edited, held, refused>>
  BY DEF Narrow!EndBatch, Narrow!modes, Narrow!ghosts
<1>2. /\ cp.id \in Nat /\ Narrow!Batches \in Nat /\ batches \in Held /\ batches.id \in Nat
      /\ (Narrow!Open <=> cp.id # 0)
  BY DEF NarrowInv, NarrowTyped, NumberedAfter, Narrow!Open, Narrow!Batches, Held
<1>3. \/ batches' \in Held /\ batches'.id = Newest
      \/ batches' = batches /\ cp.id = 0
  BY <1>1, <1>2 DEF Held, Newest
<1>4. batches' \in Held /\ batches'.id = Newest
  BY <1>2, <1>3 DEF Newest
<1>5. /\ cp' \in [id : Nat, failed : BOOLEAN, acked : BOOLEAN, attempts : Nat, lookups : Nat]
      /\ cp'.id \in {0, cp.id} /\ cp'.acked = FALSE
  <2>1. CASE cp' = Narrow!NoCheckpoint
    BY <2>1 DEF Narrow!NoCheckpoint
  <2>2. CASE cp' = [cp EXCEPT !.acked = FALSE]
    BY <2>2 DEF NarrowInv, NarrowTyped
  <2>3. CASE cp' = cp /\ (cp.acked => cp.failed)
    BY <2>3 DEF NarrowInv, NarrowTyped, Acked
  <2> QED
    BY <1>1, <2>1, <2>2, <2>3
<1>6. NarrowTyped'
  BY <1>1, <1>4, <1>5 DEF NarrowInv, NarrowTyped
<1>7. Newest' = Newest
  BY <1>2, <1>4, <1>5 DEF Newest
<1>8. NumberedAfter' /\ Counted'
  BY <1>1, <1>4, <1>5, <1>7, <1>2 DEF NarrowInv, NarrowTyped, Held, NumberedAfter, Counted
<1>9. cp'.id # 0 => cp'.id = cp.id /\ Narrow!Batches' = Narrow!Batches + 1
  BY <1>1, <1>2, <1>5 DEF Narrow!Batches
<1>10. HeldBefore'
  BY <1>1, <1>2, <1>9 DEF NarrowInv, NarrowTyped, Held, HeldBefore
<1>11. Batched'
  BY <1>1, <1>9 DEF NarrowInv, Batched, Reopened
<1> QED
  BY <1>1, <1>5, <1>6, <1>8, <1>10, <1>11 DEF NarrowInv, Acked, OfferedRuns

LEMMA NarrowNext == NarrowInv /\ [Narrow!Next]_narrowVars => NarrowInv'
<1> SUFFICES ASSUME NarrowInv, [Narrow!Next]_narrowVars PROVE NarrowInv'
  OBVIOUS
<1>1. ASSUME NEW to, Narrow!Steer(to) PROVE NarrowInv'
  BY <1>1, NarrowSteer
<1>2. CASE Narrow!Prepare
  BY <1>2, NarrowPrepare
<1>3. CASE Narrow!Resume
  BY <1>3, NarrowResume
<1>4. CASE Narrow!Rework
  BY <1>4, NarrowRework
<1>5. CASE Narrow!Request
  BY <1>5, NarrowRequest
<1>6. ASSUME NEW t \in Narrow!Tools, NEW works \in BOOLEAN, NEW cited \in BOOLEAN,
             Narrow!Panics(t) \/ Narrow!Call(t, works, cited)
      PROVE  NarrowInv'
  BY <1>6, NarrowCalls
<1>7. ASSUME NEW valid \in BOOLEAN, Narrow!CompleteCheckpoint(valid) PROVE NarrowInv'
  BY <1>7, NarrowComplete
<1>8. ASSUME NEW stops \in BOOLEAN, Narrow!EndBatch(stops) PROVE NarrowInv'
  BY <1>8, NarrowEnd
<1>9. CASE UNCHANGED narrowVars
  <2>1. UNCHANGED <<document, reuse, question, steer, saved, cites, cp, batches, editHeld,
                    citesHeld, cpAt, cpCalls, offered, edited, held, refused>>
    BY <1>9 DEF narrowVars
  <2>2. /\ Narrow!Batches' = Narrow!Batches /\ Narrow!LacksCitations' = Narrow!LacksCitations
        /\ \A t : Narrow!Accepts(t)' = Narrow!Accepts(t)
    BY <2>1 DEF Narrow!Batches, Narrow!LacksCitations, Narrow!DocumentWork, Narrow!Accepts,
      Narrow!Withheld, Narrow!CheckpointAllows, Narrow!EditsOpen, Narrow!EditsReopened,
      Narrow!Open, Narrow!ClosingWithholds, Narrow!RecoveryWithholds
  <2> QED
    BY <2>1, <2>2 DEF NarrowInv, NarrowTyped, NumberedAfter, Newest, Counted, HeldBefore, Batched,
      Reopened, Acked, OfferedRuns
<1> QED
  BY <1>1, <1>2, <1>3, <1>4, <1>5, <1>6, <1>7, <1>8, <1>9, TRUE \in BOOLEAN DEF Narrow!Next

-----------------------------------------------------------------------------
\* Completions.

InFlight == {"send", "stream", "wait"}
Answers == [pc : {"new"} \cup InFlight \cup Client!Ended, format : Client!Formats, schema : BOOLEAN,
            known : BOOLEAN, attempt : Nat, retries : Nat,
            rejected : BOOLEAN, dropped : BOOLEAN, streamed : BOOLEAN,
            emitted : BOOLEAN, showing : BOOLEAN, shown : Nat,
            started : BOOLEAN, finish : {"none", "stop", "tool_calls", "length"},
            calls : {"none", "whole", "broken"}, unbilled : Nat, generated : Nat]
Seen == [json : BOOLEAN, bare : BOOLEAN, streak : Nat]

\* A fallback is taken from the format it gives up, hence once.
Fallbacks(r) == (IF r.rejected \/ r.streamed THEN 1 ELSE 0) + (IF r.dropped /\ ~r.known THEN 1 ELSE 0)
FellBack(r) ==
  /\ r.rejected \/ r.streamed => r.format # "schema" /\ ~r.known
  /\ r.dropped => r.format = "none"
  /\ r.known => r.dropped
  /\ r.rejected /\ r.format # "json" => r.dropped

\* Until a request ends, each of its attempts but the running one was a retry or
\* a fallback.
Attempts(r) ==
  /\ r.retries <= Retries
  /\ r.attempt <= r.retries + Fallbacks(r) + IF r.pc \in Client!Ended THEN 1 ELSE 0
  /\ r.generated + r.unbilled <= r.attempt

\* Nothing was relayed before the running attempt.
Relays(r) ==
  /\ r.shown <= 1
  /\ r.pc \in {"new", "send", "wait"} => ~r.emitted /\ ~r.started
  /\ r.pc \notin Client!Ended => /\ ~r.emitted => r.shown = 0 /\ ~r.showing
                                 /\ r.emitted => r.showing

Sound(r) == FellBack(r) /\ Attempts(r) /\ Relays(r)

\* A schema is suspected after one success without it, and given up after two.
Learned ==
  /\ bare => seen.bare
  /\ refuses => seen.json \/ seen.bare
  /\ ~recovered => seen.streak = IF suspected THEN 1 ELSE 0

ClientInv ==
  /\ req \in [Requests -> Answers] /\ seen \in Seen
  /\ refuses \in BOOLEAN /\ bare \in BOOLEAN /\ suspected \in BOOLEAN /\ recovered \in BOOLEAN
  /\ \A i \in Requests : Sound(req[i])
  /\ Learned

-----------------------------------------------------------------------------
LEMMA NewSound == Client!New \in Answers /\ (Retries \in Nat => Sound(Client!New))
<1>1. Client!New \in Answers
  BY DEF Client!New, Answers, Client!Formats
<1>2. Retries \in Nat => Sound(Client!New)
  BY DEF Client!New, Sound, FellBack, Attempts, Fallbacks, Relays, Client!Ended
<1> QED
  BY <1>1, <1>2

\* Every field of a request, of its own set.
LEMMA AnswerFields ==
  ASSUME NEW r \in Answers
  PROVE  /\ r.format \in Client!Formats /\ r.schema \in BOOLEAN /\ r.known \in BOOLEAN
         /\ r.attempt \in Nat /\ r.retries \in Nat /\ r.rejected \in BOOLEAN
         /\ r.dropped \in BOOLEAN /\ r.streamed \in BOOLEAN /\ r.emitted \in BOOLEAN
         /\ r.showing \in BOOLEAN /\ r.shown \in Nat /\ r.started \in BOOLEAN
         /\ r.unbilled \in Nat /\ r.generated \in Nat
         /\ r.calls \in {"none", "whole", "broken"}
         /\ r.finish \in {"none", "stop", "tool_calls", "length"}
         /\ r.pc \in {"new"} \cup InFlight \cup Client!Ended
BY DEF Answers

LEMMA Next1Fields ==
  ASSUME NEW r \in Answers, NEW pc \in {"new"} \cup InFlight \cup Client!Ended
  PROVE  LET n == Client!Next1(r, pc) IN
         /\ n \in Answers /\ n.pc = pc /\ n.attempt = r.attempt + 1
         /\ n.started = FALSE /\ n.showing = FALSE
         /\ n.format = r.format /\ n.known = r.known /\ n.retries = r.retries
         /\ n.rejected = r.rejected /\ n.dropped = r.dropped /\ n.streamed = r.streamed
         /\ n.emitted = r.emitted /\ n.shown = r.shown
         /\ n.unbilled = r.unbilled /\ n.generated = r.generated
<1> DEFINE n == Client!Next1(r, pc)
<1>1. r.attempt + 1 \in Nat
  BY AnswerFields
<1>2. n \in Answers
  BY <1>1 DEF Answers, Client!Next1
<1>3. /\ n.pc = pc /\ n.attempt = r.attempt + 1 /\ n.started = FALSE /\ n.showing = FALSE
      /\ n.format = r.format /\ n.known = r.known /\ n.retries = r.retries
  BY DEF Answers, Client!Next1
<1>4. /\ n.rejected = r.rejected /\ n.dropped = r.dropped /\ n.streamed = r.streamed
      /\ n.emitted = r.emitted /\ n.shown = r.shown
      /\ n.unbilled = r.unbilled /\ n.generated = r.generated
  BY DEF Answers, Client!Next1
<1> QED
  BY <1>2, <1>3, <1>4

\* The bill of an attempt that failed.
LEMMA CountedFields ==
  ASSUME NEW r \in Answers, NEW code
  PROVE  LET n == Client!Counted(r, code) IN
         /\ n \in Answers
         /\ n.unbilled = r.unbilled + (IF Client!Free(r, code) THEN 1 ELSE 0)
         /\ n.generated = r.generated + (IF r.started THEN 1 ELSE 0)
         /\ n.pc = r.pc /\ n.attempt = r.attempt /\ n.started = r.started /\ n.showing = r.showing
         /\ n.format = r.format /\ n.known = r.known /\ n.retries = r.retries
         /\ n.rejected = r.rejected /\ n.dropped = r.dropped /\ n.streamed = r.streamed
         /\ n.emitted = r.emitted /\ n.shown = r.shown
<1> DEFINE u == r.unbilled + (IF Client!Free(r, code) THEN 1 ELSE 0)
           g == r.generated + (IF r.started THEN 1 ELSE 0)
           n == Client!Counted(r, code)
<1>1. u \in Nat /\ g \in Nat
  BY AnswerFields
<1>2. n = [r EXCEPT !.unbilled = u, !.generated = g]
  BY DEF Client!Counted
<1> HIDE DEF u, g, n
<1>3. n \in Answers
  BY <1>1, <1>2 DEF Answers
<1>4. /\ n.unbilled = u /\ n.generated = g /\ n.pc = r.pc /\ n.attempt = r.attempt
      /\ n.started = r.started /\ n.showing = r.showing /\ n.format = r.format
  BY <1>2 DEF Answers
<1>5. /\ n.known = r.known /\ n.retries = r.retries
      /\ n.rejected = r.rejected /\ n.dropped = r.dropped /\ n.streamed = r.streamed
      /\ n.emitted = r.emitted /\ n.shown = r.shown
  BY <1>2 DEF Answers
<1> QED
  BY <1>3, <1>4, <1>5 DEF u, g, n

-----------------------------------------------------------------------------
\* The next attempt of a request, or its end, from what the last one leaves.
LEMMA NextSound ==
  ASSUME NEW x \in Answers, NEW pc \in {"send", "wait", "ok", "cut", "failed"},
         FellBack(x), x.retries <= Retries, Retries \in Nat,
         x.attempt + 1 <= x.retries + Fallbacks(x) + IF pc \in Client!Ended THEN 1 ELSE 0,
         x.generated + x.unbilled <= x.attempt + 1,
         x.shown <= 1, pc \notin Client!Ended => ~x.emitted /\ x.shown = 0
  PROVE  Client!Next1(x, pc) \in Answers /\ Sound(Client!Next1(x, pc))
<1> DEFINE n == Client!Next1(x, pc)
<1>1. pc \in {"new"} \cup InFlight \cup Client!Ended
  BY DEF InFlight, Client!Ended
<1>2. /\ n \in Answers /\ n.pc = pc /\ n.attempt = x.attempt + 1
      /\ n.started = FALSE /\ n.showing = FALSE
      /\ n.format = x.format /\ n.known = x.known /\ n.retries = x.retries
      /\ n.rejected = x.rejected /\ n.dropped = x.dropped /\ n.streamed = x.streamed
      /\ n.emitted = x.emitted /\ n.shown = x.shown
      /\ n.unbilled = x.unbilled /\ n.generated = x.generated
  BY <1>1, Next1Fields
<1> HIDE DEF n
<1>3. FellBack(n) /\ Fallbacks(n) = Fallbacks(x)
  BY <1>2 DEF FellBack, Fallbacks
<1>4. Attempts(n)
  BY <1>2, <1>3 DEF Attempts
<1>5. Relays(n)
  BY <1>2 DEF Relays, Client!Ended
<1> QED
  BY <1>2, <1>3, <1>4, <1>5 DEF Sound, n

LEMMA FailedSound ==
  ASSUME Retries \in Nat, NEW r \in Answers, Sound(r), r.pc \in {"send", "stream"}, NEW code,
         code \in Client!Status => r.pc = "send"
  PROVE  Client!Failed(r, code) \in Answers /\ Sound(Client!Failed(r, code))
<1> DEFINE c == Client!Counted(r, code)
<1>1. /\ c \in Answers
      /\ c.unbilled = r.unbilled + (IF Client!Free(r, code) THEN 1 ELSE 0)
      /\ c.generated = r.generated + (IF r.started THEN 1 ELSE 0)
      /\ c.attempt = r.attempt /\ c.format = r.format /\ c.known = r.known /\ c.retries = r.retries
      /\ c.rejected = r.rejected /\ c.dropped = r.dropped /\ c.streamed = r.streamed
      /\ c.emitted = r.emitted /\ c.shown = r.shown
  BY CountedFields
<1> HIDE DEF c
<1>2. r.pc \notin Client!Ended
  BY DEF Client!Ended
<1>3. ~(Client!Free(r, code) /\ r.started)
  BY DEF Client!Free, Sound, Relays
<1>4. /\ c.attempt \in Nat /\ c.generated \in Nat /\ c.unbilled \in Nat /\ c.retries \in Nat
      /\ c.rejected \in BOOLEAN /\ c.streamed \in BOOLEAN /\ c.dropped \in BOOLEAN
      /\ c.known \in BOOLEAN /\ r.generated \in Nat /\ r.unbilled \in Nat /\ r.attempt \in Nat
      /\ Fallbacks(c) \in Nat
  BY <1>1, AnswerFields DEF Fallbacks
<1>5. /\ FellBack(c) /\ c.retries <= Retries /\ Fallbacks(c) = Fallbacks(r)
  BY <1>1 DEF Sound, FellBack, Attempts, Fallbacks
<1>6. c.attempt <= c.retries + Fallbacks(c) /\ c.generated + c.unbilled <= c.attempt + 1
  BY <1>1, <1>2, <1>3, <1>4, <1>5 DEF Sound, Attempts
<1>7. c.shown <= 1 /\ (~c.emitted => c.shown = 0)
  BY <1>1, <1>2 DEF Sound, Relays
<1>8. r.pc = "send" => ~c.emitted
  BY <1>1 DEF Sound, Relays
<1>9. code = "http_4" => ~c.emitted
  BY <1>8 DEF Client!Status
<1>10. "send" \notin Client!Ended /\ "wait" \notin Client!Ended /\ "failed" \in Client!Ended
  BY DEF Client!Ended
<1>11. CASE code = "http_4" /\ c.format = "schema"
  <2> DEFINE x == [c EXCEPT !.format = "json", !.rejected = TRUE]
  <2>1. /\ x \in Answers /\ x.format = "json" /\ x.rejected = TRUE /\ x.known = c.known
        /\ x.retries = c.retries /\ x.dropped = c.dropped /\ x.streamed = c.streamed
        /\ x.emitted = c.emitted /\ x.shown = c.shown /\ x.attempt = c.attempt
        /\ x.generated = c.generated /\ x.unbilled = c.unbilled
    BY <1>1 DEF Answers, Client!Formats
  <2>2. Client!Failed(r, code) = Client!Next1(x, "send")
    BY <1>11 DEF Client!Failed, c
  <2> HIDE DEF x
  <2>3. FellBack(x) /\ Fallbacks(x) = Fallbacks(c) + 1
    BY <2>1, <1>4, <1>5, <1>11 DEF FellBack, Fallbacks
  <2> QED
    BY <2>1, <2>2, <2>3, <1>4, <1>5, <1>6, <1>7, <1>9, <1>10, <1>11, NextSound
<1>12. CASE code = "http_4" /\ c.format # "schema" /\ c.format # "none" /\ ~c.dropped
  <2> DEFINE x == [c EXCEPT !.format = "none", !.dropped = TRUE]
  <2>1. /\ x \in Answers /\ x.format = "none" /\ x.dropped = TRUE /\ x.known = c.known
        /\ x.retries = c.retries /\ x.rejected = c.rejected /\ x.streamed = c.streamed
        /\ x.emitted = c.emitted /\ x.shown = c.shown /\ x.attempt = c.attempt
        /\ x.generated = c.generated /\ x.unbilled = c.unbilled
    BY <1>1 DEF Answers, Client!Formats
  <2>2. Client!Failed(r, code) = Client!Next1(x, "send")
    BY <1>12 DEF Client!Failed, c
  <2> HIDE DEF x
  <2>3. FellBack(x) /\ Fallbacks(x) = Fallbacks(c) + 1
    BY <2>1, <1>4, <1>5, <1>12 DEF FellBack, Fallbacks
  <2> QED
    BY <2>1, <2>2, <2>3, <1>4, <1>5, <1>6, <1>7, <1>9, <1>10, <1>12, NextSound
<1> DEFINE plain == ~(code = "http_4" /\ (c.format = "schema" \/ (c.format # "none" /\ ~c.dropped)))
<1>13. CASE plain /\ Client!StreamFallback(c, code)
  <2> DEFINE x == [c EXCEPT !.format = "json", !.streamed = TRUE]
  <2>1. /\ x \in Answers /\ x.format = "json" /\ x.streamed = TRUE /\ x.known = c.known
        /\ x.retries = c.retries /\ x.rejected = c.rejected /\ x.dropped = c.dropped
        /\ x.emitted = c.emitted /\ x.shown = c.shown /\ x.attempt = c.attempt
        /\ x.generated = c.generated /\ x.unbilled = c.unbilled
    BY <1>1 DEF Answers, Client!Formats
  <2>2. Client!Failed(r, code) = Client!Next1(x, "send")
    BY <1>13 DEF Client!Failed, c
  <2>3. c.format = "schema" /\ ~c.emitted
    BY <1>13 DEF Client!StreamFallback, Client!Silent
  <2> HIDE DEF x
  <2>4. FellBack(x) /\ Fallbacks(x) = Fallbacks(c) + 1
    BY <2>1, <2>3, <1>4, <1>5 DEF FellBack, Fallbacks
  <2> QED
    BY <2>1, <2>2, <2>3, <2>4, <1>4, <1>5, <1>6, <1>7, <1>10, NextSound
<1>14. CASE plain /\ ~Client!StreamFallback(c, code) /\ Client!Retry(c, code)
  <2> DEFINE x == [c EXCEPT !.retries = c.retries + 1]
  <2>1. /\ x \in Answers /\ x.retries = c.retries + 1 /\ x.known = c.known /\ x.format = c.format
        /\ x.rejected = c.rejected /\ x.dropped = c.dropped /\ x.streamed = c.streamed
        /\ x.emitted = c.emitted /\ x.shown = c.shown /\ x.attempt = c.attempt
        /\ x.generated = c.generated /\ x.unbilled = c.unbilled
    BY <1>1, <1>4 DEF Answers
  <2>2. Client!Failed(r, code) = Client!Next1(x, "wait")
    BY <1>14 DEF Client!Failed, c
  <2>3. c.retries < Retries /\ ~c.emitted
    BY <1>14 DEF Client!Retry, Client!Silent
  <2> HIDE DEF x
  <2>4. FellBack(x) /\ Fallbacks(x) = Fallbacks(c) /\ x.retries <= Retries
    BY <2>1, <2>3, <1>4, <1>5 DEF FellBack, Fallbacks
  <2> QED
    BY <2>1, <2>2, <2>3, <2>4, <1>4, <1>5, <1>6, <1>7, <1>10, NextSound
<1>15. CASE plain /\ ~Client!StreamFallback(c, code) /\ ~Client!Retry(c, code)
  <2>1. Client!Failed(r, code) = Client!Next1(c, "failed")
    BY <1>15 DEF Client!Failed, c
  <2> QED
    BY <2>1, <1>1, <1>4, <1>5, <1>6, <1>7, <1>10, NextSound
<1> QED
  BY <1>11, <1>12, <1>13, <1>14, <1>15

-----------------------------------------------------------------------------
LEMMA ClientInit == ASSUME Retries \in Nat PROVE Client!Init => ClientInv
<1> SUFFICES ASSUME Client!Init PROVE ClientInv
  OBVIOUS
<1>1. req \in [Requests -> Answers] /\ \A i \in Requests : Sound(req[i])
  BY NewSound DEF Client!Init
<1> QED
  BY <1>1 DEF Client!Init, ClientInv, Seen, Learned

\* A step of one request that leaves what is known of the endpoint.
LEMMA RequestKeeps ==
  ASSUME ClientInv, NEW i \in Requests, NEW n \in Answers, Sound(n),
         Client!Becomes(i, n), Client!Caches
  PROVE  ClientInv'
<1>1. req' \in [Requests -> Answers] /\ \A j \in Requests : Sound(req'[j])
  BY DEF ClientInv, Client!Becomes
<1>2. UNCHANGED <<refuses, bare, suspected, recovered, seen>>
  BY DEF Client!Caches
<1> QED
  BY <1>1, <1>2 DEF ClientInv, Learned

LEMMA StartKeeps ==
  ASSUME Retries \in Nat, ClientInv, NEW i \in Requests, NEW format \in Client!Formats,
         Client!Start(i, format)
  PROVE  ClientInv'
<1> DEFINE plain == IF format = "schema" /\ (refuses \/ recovered) THEN "json" ELSE format
           known == format # "none" /\ bare
           f == IF known THEN "none" ELSE plain
           n == [Client!New EXCEPT !.pc = "send", !.format = f, !.schema = format = "schema",
                                   !.known = known, !.dropped = known]
<1>1. Client!Becomes(i, n) /\ Client!Caches
  BY DEF Client!Start
<1>2. f \in Client!Formats /\ known \in BOOLEAN /\ (format = "schema") \in BOOLEAN /\ (known => f = "none")
  BY DEF Client!Formats, ClientInv
<1> HIDE DEF f, known
<1>3. /\ n \in Answers /\ n.pc = "send" /\ n.format = f /\ n.known = known /\ n.dropped = known
      /\ n.rejected = FALSE /\ n.streamed = FALSE /\ n.emitted = FALSE /\ n.showing = FALSE
      /\ n.shown = 0 /\ n.started = FALSE /\ n.attempt = 0 /\ n.retries = 0
      /\ n.generated = 0 /\ n.unbilled = 0
  BY <1>2 DEF Client!New, Answers, InFlight
<1> HIDE DEF n
<1>4. FellBack(n) /\ Fallbacks(n) = 0
  BY <1>2, <1>3 DEF FellBack, Fallbacks
<1>5. Attempts(n) /\ Relays(n)
  BY <1>3, <1>4 DEF Attempts, Relays, Client!Ended
<1> QED
  BY <1>1, <1>3, <1>4, <1>5, RequestKeeps DEF Sound

\* What does not count: the phase of a request, and what its attempt has sent.
LEMMA SameCounts ==
  ASSUME NEW r \in Answers, Sound(r), r.pc \notin Client!Ended, NEW n \in Answers,
         n.format = r.format /\ n.known = r.known /\ n.retries = r.retries,
         n.rejected = r.rejected /\ n.dropped = r.dropped /\ n.streamed = r.streamed,
         n.attempt = r.attempt /\ n.generated = r.generated /\ n.unbilled = r.unbilled,
         Relays(n)
  PROVE  Sound(n)
<1>1. FellBack(n) /\ Fallbacks(n) = Fallbacks(r) /\ Fallbacks(r) \in Nat
  BY DEF Sound, FellBack, Fallbacks
<1>2. Attempts(n)
  BY <1>1, AnswerFields DEF Sound, Attempts
<1> QED
  BY <1>1, <1>2 DEF Sound

LEMMA PhaseKeeps ==
  ASSUME ClientInv, NEW i \in Requests,
         Client!Opened(i) \/ Client!Cancel(i) \/ Client!Waited(i)
  PROVE  ClientInv'
<1> DEFINE r == req[i]
<1>1. r \in Answers /\ Sound(r) /\ r.pc \in InFlight /\ Client!Caches
  BY DEF ClientInv, Client!Opened, Client!Cancel, Client!Waited, InFlight
<1>2. PICK pc \in InFlight \cup {"cancelled"} :
        /\ Client!Becomes(i, [r EXCEPT !.pc = pc])
        /\ pc \in InFlight => pc \in {"send", "stream"} /\ r.pc \in {"send", "wait"}
  BY DEF Client!Opened, Client!Cancel, Client!Waited, InFlight
<1> DEFINE n == [r EXCEPT !.pc = pc]
<1>3. pc \in {"new"} \cup InFlight \cup Client!Ended /\ r.pc \notin Client!Ended
  BY <1>1, <1>2 DEF Client!Ended, InFlight
<1> HIDE DEF r
<1>4. /\ n \in Answers /\ n.pc = pc /\ n.format = r.format /\ n.known = r.known /\ n.retries = r.retries
      /\ n.rejected = r.rejected /\ n.dropped = r.dropped /\ n.streamed = r.streamed
      /\ n.attempt = r.attempt /\ n.generated = r.generated /\ n.unbilled = r.unbilled
  BY <1>1, <1>3 DEF Answers
<1>5. n.emitted = r.emitted /\ n.showing = r.showing /\ n.shown = r.shown /\ n.started = r.started
  BY <1>1 DEF Answers
<1> HIDE DEF n
<1>6. Relays(n)
  BY <1>1, <1>2, <1>3, <1>4, <1>5 DEF Sound, Relays, InFlight, Client!Ended
<1>7. Sound(n)
  BY <1>1, <1>3, <1>4, <1>6, SameCounts
<1> QED
  BY <1>1, <1>2, <1>4, <1>7, RequestKeeps DEF n

LEMMA TextKeeps ==
  ASSUME ClientInv, NEW i \in Requests, NEW streams \in BOOLEAN, Client!Text(i, streams)
  PROVE  ClientInv'
<1> DEFINE r == req[i]
           shows == r.shown + (IF streams /\ ~r.showing THEN 1 ELSE 0)
           e == r.emitted \/ streams
           s == r.showing \/ streams
           n == [r EXCEPT !.started = TRUE, !.emitted = e, !.showing = s, !.shown = shows]
<1>1. r \in Answers /\ Sound(r) /\ r.pc = "stream" /\ Client!Caches /\ Client!Becomes(i, n)
  BY DEF ClientInv, Client!Text
<1>2. shows \in Nat /\ e \in BOOLEAN /\ s \in BOOLEAN
  BY <1>1, AnswerFields
<1>3. r.pc \notin Client!Ended
  BY <1>1 DEF Client!Ended
<1>4. shows <= 1 /\ (~e => shows = 0 /\ ~s) /\ (e => s)
  BY <1>1, <1>3, AnswerFields DEF Sound, Relays
<1> HIDE DEF r, shows, e, s
<1>5. /\ n \in Answers /\ n.pc = r.pc /\ n.format = r.format /\ n.known = r.known /\ n.retries = r.retries
      /\ n.rejected = r.rejected /\ n.dropped = r.dropped /\ n.streamed = r.streamed
      /\ n.attempt = r.attempt /\ n.generated = r.generated /\ n.unbilled = r.unbilled
  BY <1>1, <1>2 DEF Answers
<1>6. n.emitted = e /\ n.showing = s /\ n.shown = shows
  BY <1>1 DEF Answers
<1> HIDE DEF n
<1>7. Relays(n)
  BY <1>1, <1>3, <1>4, <1>5, <1>6 DEF Relays
<1>8. Sound(n)
  BY <1>1, <1>3, <1>5, <1>7, SameCounts
<1> QED
  BY <1>1, <1>5, <1>8, RequestKeeps

LEMMA PartKeeps ==
  ASSUME ClientInv, NEW i \in Requests, NEW sent, NEW reason,
         Client!Thinks(i) \/ Client!CallPart(i, sent) \/ Client!Finish(i, reason)
  PROVE  ClientInv'
<1> DEFINE r == req[i]
<1>1. r \in Answers /\ Sound(r) /\ r.pc = "stream" /\ Client!Caches
  BY DEF ClientInv, Client!Thinks, Client!CallPart, Client!Finish
<1>2. r.pc \notin Client!Ended
  BY <1>1 DEF Client!Ended
<1>3. PICK n \in Answers :
        /\ Client!Becomes(i, n)
        /\ n.pc = r.pc /\ n.format = r.format /\ n.known = r.known /\ n.retries = r.retries
        /\ n.rejected = r.rejected /\ n.dropped = r.dropped /\ n.streamed = r.streamed
        /\ n.attempt = r.attempt /\ n.generated = r.generated /\ n.unbilled = r.unbilled
        /\ n.emitted = r.emitted /\ n.showing = r.showing /\ n.shown = r.shown
  <2>1. CASE Client!Thinks(i)
    <3> DEFINE n == [r EXCEPT !.started = TRUE]
    <3>1. Client!Becomes(i, n)
      BY <2>1 DEF Client!Thinks
    <3> HIDE DEF r
    <3>2. /\ n \in Answers /\ n.pc = r.pc /\ n.format = r.format /\ n.known = r.known /\ n.retries = r.retries
          /\ n.rejected = r.rejected /\ n.dropped = r.dropped /\ n.streamed = r.streamed
      BY <1>1 DEF Answers
    <3>3. /\ n.attempt = r.attempt /\ n.generated = r.generated /\ n.unbilled = r.unbilled
          /\ n.emitted = r.emitted /\ n.showing = r.showing /\ n.shown = r.shown
      BY <1>1 DEF Answers
    <3> QED
      BY <3>1, <3>2, <3>3
  <2>2. CASE Client!CallPart(i, sent)
    <3> DEFINE n == [r EXCEPT !.started = TRUE, !.calls = sent]
    <3>1. Client!Becomes(i, n) /\ sent \in {"whole", "broken"}
      BY <2>2 DEF Client!CallPart
    <3> HIDE DEF r
    <3>2. /\ n \in Answers /\ n.pc = r.pc /\ n.format = r.format /\ n.known = r.known /\ n.retries = r.retries
          /\ n.rejected = r.rejected /\ n.dropped = r.dropped /\ n.streamed = r.streamed
      BY <1>1, <3>1 DEF Answers
    <3>3. /\ n.attempt = r.attempt /\ n.generated = r.generated /\ n.unbilled = r.unbilled
          /\ n.emitted = r.emitted /\ n.showing = r.showing /\ n.shown = r.shown
      BY <1>1 DEF Answers
    <3> QED
      BY <3>1, <3>2, <3>3
  <2>3. CASE Client!Finish(i, reason)
    <3> DEFINE n == [r EXCEPT !.finish = reason, !.started = TRUE]
    <3>1. Client!Becomes(i, n) /\ reason \in {"stop", "tool_calls", "length"}
      BY <2>3 DEF Client!Finish
    <3> HIDE DEF r
    <3>2. /\ n \in Answers /\ n.pc = r.pc /\ n.format = r.format /\ n.known = r.known /\ n.retries = r.retries
          /\ n.rejected = r.rejected /\ n.dropped = r.dropped /\ n.streamed = r.streamed
      BY <1>1, <3>1 DEF Answers
    <3>3. /\ n.attempt = r.attempt /\ n.generated = r.generated /\ n.unbilled = r.unbilled
          /\ n.emitted = r.emitted /\ n.showing = r.showing /\ n.shown = r.shown
      BY <1>1 DEF Answers
    <3> QED
      BY <3>1, <3>2, <3>3
  <2> QED
    BY <2>1, <2>2, <2>3
<1> HIDE DEF r
<1>4. Relays(n)
  BY <1>1, <1>2, <1>3 DEF Sound, Relays
<1>5. Sound(n)
  BY <1>1, <1>2, <1>3, <1>4, SameCounts
<1> QED
  BY <1>1, <1>3, <1>5, RequestKeeps

LEMMA FailureKeeps ==
  ASSUME Retries \in Nat, ClientInv, NEW i \in Requests, NEW code,
         Client!Refused(i, code) \/ Client!StreamFails(i, code)
  PROVE  ClientInv'
<1>1. /\ req[i].pc \in {"send", "stream"} /\ Client!Becomes(i, Client!Failed(req[i], code))
      /\ Client!Caches
  BY DEF Client!Refused, Client!StreamFails
<1>2. code \in Client!Status => req[i].pc = "send"
  BY DEF Client!Refused, Client!StreamFails, Client!Status, Client!Relayed
<1>3. req[i] \in Answers /\ Sound(req[i])
  BY DEF ClientInv
<1> QED
  BY <1>1, <1>2, <1>3, FailedSound, RequestKeeps

\* A success: what is given up now was refused, or suspected, before.
LEMMA DoneKeeps ==
  ASSUME Retries \in Nat, ClientInv, NEW i \in Requests, Client!Done(i)
  PROVE  ClientInv' /\ (recovered' /\ ~recovered => seen.streak = 1)
<1> DEFINE r == req[i]
<1>1. PICK pc \in {"ok", "cut"} : Client!Succeeds(i, pc)
  BY DEF Client!Done
<1>2. r \in Answers /\ Sound(r) /\ r.pc = "stream"
  BY DEF ClientInv, Client!Done
<1>3. r.pc \notin Client!Ended /\ pc \in Client!Ended
  BY <1>2 DEF Client!Ended
<1> DEFINE n == Client!Next1(r, pc)
<1>4. n \in Answers /\ Sound(n)
  <2>1. FellBack(r) /\ r.retries <= Retries /\ r.shown <= 1 /\ Fallbacks(r) \in Nat
    BY <1>2 DEF Sound, Attempts, Relays, Fallbacks
  <2>2. /\ r.attempt + 1 <= r.retries + Fallbacks(r) + IF pc \in Client!Ended THEN 1 ELSE 0
        /\ r.generated + r.unbilled <= r.attempt + 1
    BY <1>2, <1>3, <2>1, AnswerFields DEF Sound, Attempts
  <2> HIDE DEF r
  <2> QED
    BY <1>2, <1>3, <2>1, <2>2, NextSound
<1> DEFINE recovers == r.schema /\ r.format = "json" /\ r.streamed
           strict == r.schema /\ r.format = "schema"
           inRow == IF strict THEN 0 ELSE seen.streak + (IF recovers /\ seen.streak < 2 THEN 1 ELSE 0)
<1>5. /\ Client!Becomes(i, n)
      /\ suspected' = IF strict THEN FALSE ELSE IF recovers THEN ~suspected ELSE suspected
      /\ recovered' = (recovered \/ (recovers /\ suspected))
      /\ refuses' = (refuses \/ r.rejected)
      /\ bare' = (bare \/ (r.dropped /\ ~r.known))
      /\ seen' = [json |-> seen.json \/ (r.rejected /\ r.format = "json"),
                  bare |-> seen.bare \/ (r.dropped /\ ~r.known /\ r.format = "none"),
                  streak |-> inRow]
  BY <1>1 DEF Client!Succeeds
<1>6. /\ r.rejected \in BOOLEAN /\ r.dropped \in BOOLEAN /\ r.known \in BOOLEAN /\ r.schema \in BOOLEAN
      /\ r.streamed \in BOOLEAN
      /\ r.dropped => r.format = "none"
      /\ r.rejected => ~r.known /\ (r.format = "json" \/ r.dropped)
  BY <1>2, AnswerFields DEF Sound, FellBack
<1>7. /\ seen.json \in BOOLEAN /\ seen.bare \in BOOLEAN /\ seen.streak \in Nat
      /\ suspected \in BOOLEAN /\ recovered \in BOOLEAN /\ refuses \in BOOLEAN /\ bare \in BOOLEAN
      /\ Learned
  BY DEF ClientInv, Seen
<1>8. recovers \in BOOLEAN /\ strict \in BOOLEAN /\ ~(recovers /\ strict) /\ inRow \in Nat
  BY <1>6, <1>7
<1>9. req' \in [Requests -> Answers] /\ \A j \in Requests : Sound(req'[j])
  BY <1>4, <1>5 DEF ClientInv, Client!Becomes
<1> HIDE DEF n, recovers, strict
<1>10. /\ suspected' \in BOOLEAN /\ recovered' \in BOOLEAN /\ refuses' \in BOOLEAN /\ bare' \in BOOLEAN
  BY <1>5, <1>6, <1>7, <1>8
<1>11. /\ seen'.json = (seen.json \/ (r.rejected /\ r.format = "json"))
       /\ seen'.bare = (seen.bare \/ (r.dropped /\ ~r.known /\ r.format = "none"))
       /\ seen'.streak = inRow
  BY <1>5
<1>12. seen' \in Seen
  <2> HIDE DEF inRow
  <2> QED
    BY <1>5, <1>6, <1>7, <1>8 DEF Seen
<1>13. recovered' /\ ~recovered => seen.streak = 1
  BY <1>5, <1>7, <1>8 DEF Learned
<1>14. (bare' => seen'.bare) /\ (refuses' => seen'.json \/ seen'.bare)
  BY <1>5, <1>6, <1>7, <1>11 DEF Learned
<1>15. ~recovered' => seen'.streak = IF suspected' THEN 1 ELSE 0
  BY <1>5, <1>7, <1>8, <1>11 DEF Learned
<1>16. Learned'
  BY <1>14, <1>15 DEF Learned
<1> QED
  BY <1>9, <1>10, <1>12, <1>13, <1>16 DEF ClientInv

\* A schema's stream is given up after a success that left it suspected.
GivenUp == recovered' /\ ~recovered => seen.streak = 1

LEMMA ClientNext ==
  ASSUME Retries \in Nat PROVE ClientInv /\ [Client!Next]_clientVars => ClientInv' /\ GivenUp
<1> SUFFICES ASSUME ClientInv, [Client!Next]_clientVars PROVE ClientInv' /\ GivenUp
  OBVIOUS
<1>1. CASE UNCHANGED clientVars
  BY <1>1 DEF clientVars, ClientInv, Learned, GivenUp
<1>2. ASSUME NEW i \in Requests, Client!Done(i) PROVE ClientInv' /\ GivenUp
  BY <1>2, DoneKeeps DEF GivenUp
<1>3. ASSUME NEW i \in Requests, ~Client!Done(i),
        \/ \E format \in Client!Formats : Client!Start(i, format)
        \/ Client!Cancel(i) \/ Client!Opened(i) \/ Client!Thinks(i) \/ Client!Waited(i) \/ Client!Again(i)
        \/ \E code \in Client!Status \cup {"send", "timeout"} : Client!Refused(i, code)
        \/ \E streams \in BOOLEAN : Client!Text(i, streams)
        \/ \E sent \in {"whole", "broken"} : Client!CallPart(i, sent)
        \/ \E reason \in {"stop", "tool_calls", "length"} : Client!Finish(i, reason)
        \/ \E code \in Client!Relayed \cup {"timeout", "interrupted", "event", "arguments", "other"} :
              Client!StreamFails(i, code)
      PROVE  ClientInv' /\ GivenUp
  <2>1. ClientInv'
    <3>1. CASE \E format \in Client!Formats : Client!Start(i, format)
      BY <3>1, StartKeeps
    <3>2. CASE Client!Cancel(i) \/ Client!Opened(i) \/ Client!Waited(i)
      BY <3>2, PhaseKeeps
    <3>3. CASE Client!Thinks(i)
      BY <3>3, PartKeeps
    <3>4. CASE Client!Again(i)
      BY <3>4, NewSound, RequestKeeps DEF Client!Again
    <3>5. CASE \E code : Client!Refused(i, code) \/ Client!StreamFails(i, code)
      BY <3>5, FailureKeeps
    <3>6. CASE \E streams \in BOOLEAN : Client!Text(i, streams)
      BY <3>6, TextKeeps
    <3>7. CASE \E x : Client!CallPart(i, x) \/ Client!Finish(i, x)
      BY <3>7, PartKeeps
    <3> QED
      BY <1>3, <3>1, <3>2, <3>3, <3>4, <3>5, <3>6, <3>7
  <2>2. UNCHANGED recovered
    BY <1>3 DEF Client!Start, Client!Cancel, Client!Opened, Client!Thinks, Client!Waited, Client!Again,
      Client!Refused, Client!Text, Client!CallPart, Client!Finish, Client!StreamFails, Client!Caches
  <2> QED
    BY <2>1, <2>2 DEF GivenUp
<1> QED
  BY <1>1, <1>2, <1>3 DEF Client!Next

-----------------------------------------------------------------------------
\* Recovery.

\* Every table and ghost is a function of pairs and tuples with whole counts.
TrackTyped ==
  /\ byTool \in [Tracker!Keys -> Nat]
  /\ DOMAIN repeated \subseteq Names \X Args
  /\ \A x \in DOMAIN repeated : repeated[x].count \in Nat
  /\ \A x \in DOMAIN streak : streak[x] \in Nat

\* A run that goes on is below the limit, unless it is a document's.
BelowLimit == running => Document \/ \A k \in Tracker!Keys : byTool[k] < Limit

Remembered == \A x \in DOMAIN byInvocation : Tracker!Get(resent, x) = byInvocation[x].cause

Answered(x) == <<x[1], x[2], repeated[x].cause[1], repeated[x].cause[2]>>
NotOvercounted == \A x \in DOMAIN repeated : repeated[x].count <= Tracker!Get(streak, Answered(x))

UncertainEnds ==
  verdict.action = "inspect_outcome_before_retry" /\ verdict.told = "limit" => ~running

TrackInv ==
  /\ TrackTyped /\ byTool = failed /\ BelowLimit /\ Remembered /\ NotOvercounted /\ UncertainEnds

-----------------------------------------------------------------------------
\* A table that drops or moves entries holds no other key than before or the one
\* it was given, and the elsewhere with what they had.
LEMMA MovedEntries ==
  ASSUME NEW q, NEW key, NEW e, NEW max, NEW x \in DOMAIN Tracker!Moved(q, key, e, max)
  PROVE  \/ x = key /\ Tracker!Moved(q, key, e, max)[x] = e
         \/ x # key /\ x \in DOMAIN q /\ Tracker!Moved(q, key, e, max)[x] = q[x]
<1> DEFINE rest == Tracker!Without(q, {key})
<1> DEFINE short == IF Tracker!Cardinality(DOMAIN rest) = max
                    THEN Tracker!Without(rest, Tracker!Front(rest)) ELSE rest
<1>1. Tracker!Moved(q, key, e, max) = Tracker!Set(short, key, e)
  BY DEF Tracker!Moved
<1>2. \A y \in DOMAIN rest : y \in DOMAIN q /\ y # key /\ rest[y] = q[y]
  BY DEF Tracker!Without
<1>3. \A y \in DOMAIN short : y \in DOMAIN rest /\ short[y] = rest[y]
  BY DEF Tracker!Without
<1> HIDE DEF rest, short
<1> QED
  BY <1>1, <1>2, <1>3 DEF Tracker!Set

LEMMA KeptEntries ==
  ASSUME NEW q, NEW key, NEW cause, NEW max,
         NEW x \in DOMAIN Tracker!Kept(q, key, Tracker!Counted(q, key, cause), max)
  PROVE  LET n == Tracker!Kept(q, key, Tracker!Counted(q, key, cause), max) IN
         \/ /\ x = key /\ n[x].cause = cause
            /\ n[x].count = Tracker!Counted(q, key, cause).count
         \/ x # key /\ x \in DOMAIN q /\ n[x] = q[x]
<1> DEFINE e == Tracker!Counted(q, key, cause)
<1>1. e.cause = cause
  BY DEF Tracker!Counted
<1>2. CASE key \in DOMAIN q
  <2> DEFINE e2 == [e EXCEPT !.at = q[key].at]
  <2>1. Tracker!Kept(q, key, e, max) = Tracker!Set(q, key, e2)
    BY <1>2 DEF Tracker!Kept
  <2>2. e2.cause = cause /\ e2.count = e.count
    BY DEF Tracker!Counted
  <2> HIDE DEF e2, e
  <2>3. x \in DOMAIN Tracker!Set(q, key, e2)
    BY <2>1 DEF e
  <2>4. \/ x = key /\ Tracker!Set(q, key, e2)[x] = e2
        \/ x # key /\ x \in DOMAIN q /\ Tracker!Set(q, key, e2)[x] = q[x]
    BY <2>3 DEF Tracker!Set
  <2> QED
    BY <2>1, <2>2, <2>4 DEF e
<1>3. CASE key \notin DOMAIN q
  <2>1. Tracker!Kept(q, key, e, max) = Tracker!Moved(q, key, e, max)
    BY <1>3 DEF Tracker!Kept
  <2> HIDE DEF e
  <2>2. x \in DOMAIN Tracker!Moved(q, key, e, max)
    BY <2>1 DEF e
  <2>3. \/ x = key /\ Tracker!Moved(q, key, e, max)[x] = e
        \/ x # key /\ x \in DOMAIN q /\ Tracker!Moved(q, key, e, max)[x] = q[x]
    BY <2>2, MovedEntries
  <2> QED
    BY <1>1, <2>1, <2>3 DEF e
<1> QED
  BY <1>2, <1>3

\* What a verdict ends: all but a document's failures that can be corrected.
LEMMA UncertainCannotBeCorrected ==
  ASSUME NEW r \in Tracker!Failures, Tracker!Action(r) = "inspect_outcome_before_retry"
  PROVE  ~Tracker!AllCorrectable(r)
<1> DEFINE all == {{c} : c \in Tracker!Codes} \cup {{"text_not_found", c} : c \in Tracker!Codes}
<1>1. r.codes \in all
  BY DEF Tracker!Failures
<1>2. r.codes # {} /\ r.codes \subseteq Tracker!Codes
  BY <1>1 DEF Tracker!Codes, Tracker!Describe
<1>3. \A c \in Tracker!Codes :
        Tracker!Describe[c].action = "inspect_outcome_before_retry"
          => Tracker!Describe[c].class = "outcome_unknown"
  BY DEF Tracker!Codes, Tracker!Describe
<1>4. Tracker!Single(r) \in r.codes
  BY <1>2 DEF Tracker!Single
<1>5. \E c \in r.codes : Tracker!Describe[c].class = "outcome_unknown"
  <2>1. CASE ~Tracker!Partial(r)
    <3>1. Tracker!Describe[Tracker!Single(r)].action = "inspect_outcome_before_retry"
      BY <2>1 DEF Tracker!Action
    <3> QED
      BY <1>2, <1>3, <1>4, <3>1
  <2>2. CASE Tracker!Partial(r)
    BY <2>2 DEF Tracker!Action, Tracker!Uncertain
  <2> QED
    BY <2>1, <2>2
<1> QED
  BY <1>5 DEF Tracker!AllCorrectable, Tracker!Correctable

LEMMA TrackInit == ASSUME Tracker!Init, Limit \in Nat \ {0} PROVE TrackInv
BY DEF Tracker!Init, Tracker!NoEntries, TrackInv, TrackTyped, BelowLimit, Remembered,
       NotOvercounted, UncertainEnds

LEMMA KeyIsAKey == \A t : Tracker!Key(t) \in Tracker!Keys
BY DEF Tracker!Key, Tracker!Keys

\* The answers of a call.
Replies == Tracker!Failures \cup Tracker!Unapplied \cup {Tracker!Ok, Tracker!Cancelled}

LEMMA TotalsStep ==
  ASSUME TrackInv, NEW t \in Names, NEW a \in Args, NEW r \in Replies,
         Tracker!Result(t, a, r), Limit \in Nat \ {0}
  PROVE  byTool' \in [Tracker!Keys -> Nat] /\ byTool' = failed' /\ BelowLimit'
<1> USE KeyIsAKey
<1>1. Tracker!Observe(t, a, r) /\ Tracker!Watch(t, a, r) /\ running' = ~Tracker!Ends(t, a, r)
      /\ running /\ (r.status = "ok" => t \in Registered)
  BY DEF Tracker!Result
<1>2. byTool \in [Tracker!Keys -> Nat] /\ byTool = failed
      /\ (Document \/ \A k \in Tracker!Keys : byTool[k] < Limit)
  BY <1>1 DEF TrackInv, TrackTyped, BelowLimit
<1>3. CASE r.status = "cancelled"
  <2>1. byTool' = byTool /\ failed' = failed
    BY <1>1, <1>2, <1>3 DEF Tracker!Observe, Tracker!Watch
  <2> QED
    BY <1>2, <2>1 DEF BelowLimit
<1>4. CASE r.status = "ok"
  <2>1. Tracker!Key(t) = t
    BY <1>1, <1>4 DEF Tracker!Key
  <2>2. byTool' = [byTool EXCEPT ![t] = 0] /\ failed' = [failed EXCEPT ![t] = 0]
    BY <1>1, <1>4, <2>1 DEF Tracker!Observe, Tracker!ForgetTool, Tracker!Watch
  <2> QED
    BY <1>2, <2>1, <2>2 DEF BelowLimit
<1>5. CASE r.status = "error" /\ Tracker!Verdict(t, a, r) = "identical"
  <2>1. byTool' = byTool /\ failed' = failed
    BY <1>1, <1>2, <1>5 DEF Tracker!Observe, Tracker!Watch
  <2> QED
    BY <1>2, <2>1 DEF BelowLimit
<1>6. CASE r.status = "error" /\ Tracker!Verdict(t, a, r) # "identical"
  <2>1. byTool' = [byTool EXCEPT ![Tracker!Key(t)] = @ + 1]
        /\ failed' = [failed EXCEPT ![Tracker!Key(t)] = @ + 1]
    BY <1>1, <1>6 DEF Tracker!Observe, Tracker!NoteTool, Tracker!Watch
  <2>2. running' /\ ~Document => byTool[Tracker!Key(t)] + 1 < Limit
    <3>1. running' /\ ~Document => Tracker!Verdict(t, a, r) = "none"
      BY <1>1 DEF Tracker!Ends
    <3>2. Tracker!Verdict(t, a, r) = "none" => ~(byTool[Tracker!Key(t)] + 1 >= Limit)
      BY <1>6 DEF Tracker!Verdict
    <3> QED
      BY <1>2, <3>1, <3>2
  <2> QED
    BY <1>2, <2>1, <2>2 DEF BelowLimit
<1>7. r.status \in {"error", "ok", "cancelled"}
  BY DEF Replies, Tracker!Failures, Tracker!Unapplied, Tracker!Ok, Tracker!Cancelled
<1> QED
  BY <1>3, <1>4, <1>5, <1>6, <1>7

LEMMA InvocationsStep ==
  ASSUME TrackInv, NEW t \in Names, NEW a \in Args, NEW r \in Replies,
         Tracker!Result(t, a, r)
  PROVE  Remembered'
<1> DEFINE key == <<Tracker!Key(t), a, r.codes>>
<1>1. Tracker!Observe(t, a, r) /\ Tracker!Watch(t, a, r) /\ (r.status = "ok" => t \in Registered)
  BY DEF Tracker!Result
<1>2. \A x \in DOMAIN byInvocation : Tracker!Get(resent, x) = byInvocation[x].cause
  BY DEF TrackInv, Remembered
<1>3. CASE r.status = "ok"
  <2>1. Tracker!Key(t) = t
    BY <1>1, <1>3 DEF Tracker!Key
  <2>2. byInvocation' = Tracker!Without(byInvocation, {x \in DOMAIN byInvocation : x[1] = t})
        /\ resent' = Tracker!Without(resent, {x \in DOMAIN resent : x[1] = t})
    BY <1>1, <1>3, <2>1 DEF Tracker!Observe, Tracker!ForgetTool, Tracker!Watch
  <2> QED
    BY <1>2, <2>2 DEF Tracker!Without, Tracker!Get, Remembered
<1>4. CASE r.status # "ok" /\ ~Tracker!Identical(t, r)
  <2>1. byInvocation' = byInvocation /\ resent' = resent
    BY <1>1, <1>4 DEF Tracker!Observe, Tracker!Watch
  <2> QED
    BY <1>2, <2>1 DEF Remembered, Tracker!Get
<1>5. CASE r.status # "ok" /\ Tracker!Identical(t, r)
  <2> DEFINE e == Tracker!Invoked(t, a, r)
  <2>1. byInvocation' = Tracker!Moved(byInvocation, key, e, MaxInvocations)
        /\ resent' = Tracker!Set(resent, key, r.cause)
    BY <1>1, <1>5 DEF Tracker!Observe, Tracker!Watch, Tracker!Identical
  <2>2. e.cause = r.cause
    BY DEF Tracker!Invoked, Tracker!Counted
  <2> HIDE DEF e, key
  <2> SUFFICES ASSUME NEW x \in DOMAIN byInvocation'
               PROVE  Tracker!Get(resent', x) = byInvocation'[x].cause
    BY DEF Remembered, Tracker!Get
  <2>3. \/ x = key /\ byInvocation'[x] = e
        \/ x # key /\ x \in DOMAIN byInvocation /\ byInvocation'[x] = byInvocation[x]
    BY <2>1, MovedEntries
  <2>4. Tracker!Get(resent', x) = IF x = key THEN r.cause ELSE Tracker!Get(resent, x)
    BY <2>1 DEF Tracker!Get, Tracker!Set
  <2> QED
    BY <1>2, <2>2, <2>3, <2>4
<1> QED
  BY <1>3, <1>4, <1>5

LEMMA RepeatsStep ==
  ASSUME TrackInv, NEW t \in Names, NEW a \in Args, NEW r \in Replies,
         Tracker!Result(t, a, r)
  PROVE  /\ NotOvercounted' /\ DOMAIN repeated' \subseteq Names \X Args
         /\ \A x \in DOMAIN repeated' : repeated'[x].count \in Nat
         /\ \A x \in DOMAIN streak' : streak'[x] \in Nat
<1> DEFINE key == <<t, a>>
           answer == <<t, a, r.codes, r.cause>>
           elsewhere == Tracker!Without(streak, {x \in DOMAIN streak : x[1] = t /\ x[2] = a})
           kept == {x \in DOMAIN streak : ~(x[1] = t /\ x[2] = a)}
<1>1. /\ repeated' = IF Tracker!Repeats(t, r)
                     THEN Tracker!Kept(repeated, key, Tracker!Marks(t, a, r), MaxRepeated)
                     ELSE Tracker!Without(repeated, {key})
      /\ streak' = IF Tracker!Repeats(t, r)
                   THEN Tracker!Set(elsewhere, answer, Tracker!Get(streak, answer) + 1) ELSE elsewhere
  BY DEF Tracker!Result, Tracker!MarkRepeated, Tracker!Watch
<1>2. /\ DOMAIN repeated \subseteq Names \X Args
      /\ \A x \in DOMAIN repeated :
           repeated[x].count \in Nat /\ repeated[x].count <= Tracker!Get(streak, Answered(x))
      /\ \A x \in DOMAIN streak : streak[x] \in Nat
  BY DEF TrackInv, TrackTyped, NotOvercounted
<1>3. DOMAIN elsewhere = kept /\ \A x \in kept : elsewhere[x] = streak[x]
  BY DEF Tracker!Without
<1>4. \A x : Tracker!Get(streak, x) \in Nat
  BY <1>2 DEF Tracker!Get
\* The count of another call is as it was.
<1>5. \A x \in DOMAIN repeated : x # key =>
        LET y == Answered(x) IN
        y # answer /\ Tracker!Get(elsewhere, y) = Tracker!Get(streak, y)
  <2> SUFFICES ASSUME NEW x \in DOMAIN repeated, x # key
               PROVE  /\ Answered(x) # answer
                      /\ Tracker!Get(elsewhere, Answered(x)) = Tracker!Get(streak, Answered(x))
    OBVIOUS
  <2>1. x = <<x[1], x[2]>>
    BY <1>2
  <2>2. ~(x[1] = t /\ x[2] = a)
    BY <2>1
  <2>3. Answered(x)[1] = x[1] /\ Answered(x)[2] = x[2]
    BY DEF Answered
  <2>4. answer[1] = t /\ answer[2] = a
    OBVIOUS
  <2>5. Answered(x) \in DOMAIN streak <=> Answered(x) \in kept
    BY <2>2, <2>3
  <2> HIDE DEF answer, elsewhere, kept
  <2> QED
    BY <1>3, <2>2, <2>3, <2>4, <2>5 DEF Tracker!Get
<1>6. CASE ~Tracker!Repeats(t, r)
  <2>1. repeated' = Tracker!Without(repeated, {key}) /\ streak' = elsewhere
    BY <1>1, <1>6
  <2> HIDE DEF key, elsewhere, answer
  <2>2. \A x \in DOMAIN repeated' :
          x # key /\ x \in DOMAIN repeated /\ repeated'[x] = repeated[x]
    BY <2>1 DEF Tracker!Without
  <2>3. \A x \in DOMAIN repeated' :
          repeated'[x].count <= Tracker!Get(streak', (Answered(x))')
    BY <1>2, <1>5, <2>1, <2>2 DEF Answered
  <2> QED
    BY <1>2, <1>3, <2>1, <2>2, <2>3 DEF NotOvercounted
<1>7. CASE Tracker!Repeats(t, r)
  <2> DEFINE cause == <<r.codes, r.cause>>
             e == Tracker!Counted(repeated, key, cause)
  <2>1. /\ repeated' = Tracker!Kept(repeated, key, e, MaxRepeated)
        /\ streak' = Tracker!Set(elsewhere, answer, Tracker!Get(streak, answer) + 1)
    BY <1>1, <1>7 DEF Tracker!Marks
  <2>2. e.count \in Nat /\ e.count <= Tracker!Get(streak, answer) + 1
    <3>1. CASE key \in DOMAIN repeated /\ repeated[key].cause = cause
      <4>1. Answered(key) = answer
        BY <3>1 DEF Answered
      <4>2. e.count = repeated[key].count + 1
        BY <3>1 DEF Tracker!Counted
      <4> HIDE DEF key, answer, e
      <4> QED
        BY <1>2, <1>4, <3>1, <4>1, <4>2
    <3>2. CASE ~(key \in DOMAIN repeated /\ repeated[key].cause = cause)
      <4>1. e.count = 1
        BY <3>2 DEF Tracker!Counted
      <4> QED
        BY <1>4, <4>1
    <3> QED
      BY <3>1, <3>2
  <2>3. ASSUME NEW x \in DOMAIN repeated'
        PROVE  \/ x = key /\ repeated'[x].cause = cause /\ repeated'[x].count = e.count
               \/ x # key /\ x \in DOMAIN repeated /\ repeated'[x] = repeated[x]
    BY <2>1, <2>3, KeptEntries
  <2>4. \A y : Tracker!Get(streak', y) = IF y = answer THEN Tracker!Get(streak, answer) + 1
                                         ELSE Tracker!Get(elsewhere, y)
    BY <2>1 DEF Tracker!Get, Tracker!Set
  <2>5. (Answered(key))' = <<t, a, repeated'[key].cause[1], repeated'[key].cause[2]>>
    BY DEF Answered
  <2>6. ASSUME NEW x \in DOMAIN repeated'
        PROVE  /\ x \in Names \X Args /\ repeated'[x].count \in Nat
               /\ repeated'[x].count <= Tracker!Get(streak', (Answered(x))')
    <3>1. CASE x = key
      <4>1. repeated'[x].cause = cause /\ repeated'[x].count = e.count
        BY <2>3, <2>6, <3>1
      <4>2. (Answered(x))' = answer
        BY <2>5, <3>1, <4>1
      <4>3. Tracker!Get(streak', answer) = Tracker!Get(streak, answer) + 1
        BY <2>4
      <4> QED
        BY <2>2, <3>1, <4>1, <4>2, <4>3
    <3>2. CASE x # key
      <4>1. x \in DOMAIN repeated /\ repeated'[x] = repeated[x]
        BY <2>3, <2>6, <3>2
      <4>2. (Answered(x))' = Answered(x)
        BY <4>1 DEF Answered
      <4> QED
        BY <1>2, <1>5, <2>4, <3>2, <4>1, <4>2
    <3> QED
      BY <3>1, <3>2
  <2>7. \A x \in DOMAIN streak' : streak'[x] \in Nat
    BY <1>2, <1>3, <1>4, <2>1 DEF Tracker!Set
  <2> QED
    BY <2>6, <2>7 DEF NotOvercounted
<1> QED
  BY <1>6, <1>7

LEMMA UncertainStep ==
  ASSUME NEW t \in Names, NEW a \in Args, NEW r \in Replies, Tracker!Result(t, a, r)
  PROVE  UncertainEnds'
<1> SUFFICES ASSUME verdict'.action = "inspect_outcome_before_retry", verdict'.told = "limit"
             PROVE  ~running'
  BY DEF UncertainEnds
<1>1. /\ running' = ~Tracker!Ends(t, a, r)
      /\ verdict' = [told |-> Tracker!Verdict(t, a, r),
              repeats |-> IF Tracker!Repeats(t, r) THEN Tracker!Marks(t, a, r).count ELSE 0,
              action |-> IF r.status # "error" THEN "none"
                         ELSE IF Tracker!Verdict(t, a, r) = "identical" THEN "change_approach"
                         ELSE Tracker!Action(r)]
  BY DEF Tracker!Result
<1>2. Tracker!Verdict(t, a, r) = "limit"
  BY <1>1
<1>3. r.status = "error" /\ Tracker!Action(r) = "inspect_outcome_before_retry"
  BY <1>1, <1>2
<1>4. r \in Tracker!Failures
  BY <1>3 DEF Replies, Tracker!Unapplied, Tracker!Ok, Tracker!Cancelled
<1>5. ~Tracker!AllCorrectable(r)
  BY <1>3, <1>4, UncertainCannotBeCorrected
<1> QED
  BY <1>1, <1>2, <1>5 DEF Tracker!Ends

LEMMA TrackNext ==
  ASSUME TrackInv, [Tracker!Next]_trackerVars, Limit \in Nat \ {0} PROVE TrackInv'
<1>1. CASE UNCHANGED trackerVars
  BY <1>1 DEF trackerVars, TrackInv, TrackTyped, BelowLimit, Remembered, NotOvercounted, Answered,
              UncertainEnds, Tracker!Get
<1>2. CASE Tracker!Next
  <2>1. PICK t \in Names, a \in Args, r \in Replies : Tracker!Result(t, a, r)
    BY <1>2 DEF Tracker!Next, Replies
  <2>2. byTool' \in [Tracker!Keys -> Nat] /\ byTool' = failed' /\ BelowLimit'
    BY <2>1, TotalsStep
  <2>3. Remembered'
    BY <2>1, InvocationsStep
  <2>4. /\ NotOvercounted' /\ DOMAIN repeated' \subseteq Names \X Args
        /\ \A x \in DOMAIN repeated' : repeated'[x].count \in Nat
        /\ \A x \in DOMAIN streak' : streak'[x] \in Nat
    BY <2>1, RepeatsStep
  <2>5. UncertainEnds'
    BY <2>1, UncertainStep
  <2> QED
    BY <2>2, <2>3, <2>4, <2>5 DEF TrackInv, TrackTyped
<1> QED
  BY <1>1, <1>2

-----------------------------------------------------------------------------
\* FileReads.

LEMMA ReadsCount == ASSUME NEW S PROVE Reads!Cardinality(S) = Cardinality(S)
BY DEF Reads!Cardinality, Cardinality

LEMMA InOrderIs ==
  ASSUME NEW m \in Nat, NEW S \in SUBSET (0 .. m) PROVE Lists(Reads!InOrder(S), S)
<1>1. InOrder(S) = Reads!InOrder(S)
  BY DEF InOrder, Reads!InOrder, Cardinality, Reads!Cardinality
<1> QED
  BY <1>1, ListIs

\* The ranges of a finite set, in the order of their first and last characters.
Spots == {r \in Nat \X Nat : r[1] <= r[2]}

LEMMA SortedIs ==
  ASSUME NEW R \in SUBSET Spots, IsFiniteSet(R), NEW s, s = Reads!Sorted(R)
  PROVE  /\ s \in Seq(R) /\ Len(s) \in Nat
         /\ \A a, b \in 1 .. Len(s) : a < b => s[a][1] <= s[b][1]
         /\ \A x \in R : \E n \in 1 .. Len(s) : s[n] = x
<1> DEFINE below == [x \in R |-> {y \in R : Reads!Before(y, x)}]
<1>1. \A x \in R : x[1] \in Nat /\ x[2] \in Nat /\ x = <<x[1], x[2]>>
  BY DEF Spots
<1>2. below \in [R -> SUBSET R] /\ \A x \in R : x \notin below[x]
  BY <1>1 DEF Reads!Before
<1>3. \A x, y \in R : x # y => x \in below[y] \/ y \in below[x]
  BY <1>1 DEF Reads!Before
<1>4. \A x, y \in R : x \in below[y] => below[x] \subseteq below[y]
  BY <1>1 DEF Reads!Before
<1>5. \A x \in R : below[x] = {y \in R : Reads!Before(y, x)}
  OBVIOUS
<1> HIDE DEF below
<1>6. /\ Cardinality(R) \in Nat
      /\ \A x \in R : Cardinality(below[x]) \in 0 .. Cardinality(R) - 1
      /\ \A x, y \in R : x \in below[y] => Cardinality(below[x]) < Cardinality(below[y])
      /\ \A n \in 1 .. Cardinality(R) : \E x \in R : Cardinality(below[x]) = n - 1
  BY <1>2, <1>3, <1>4, RankIs
<1>7. ASSUME NEW n \in 1 .. Cardinality(R)
      PROVE  s[n] \in R /\ Cardinality(below[s[n]]) = n - 1
  <2>1. n \in 1 .. Reads!Cardinality(R)
    BY ReadsCount
  <2>2. s[n] = CHOOSE x \in R : Reads!Cardinality({y \in R : Reads!Before(y, x)}) = n - 1
    BY <2>1 DEF Reads!Sorted
  <2>3. \E x \in R : Reads!Cardinality({y \in R : Reads!Before(y, x)}) = n - 1
    <3>1. PICK x \in R : Cardinality(below[x]) = n - 1
      BY <1>6
    <3>2. Reads!Cardinality({y \in R : Reads!Before(y, x)}) = n - 1
      BY <1>5, <3>1, ReadsCount
    <3> QED
      BY <3>2
  <2>4. s[n] \in R /\ Reads!Cardinality({y \in R : Reads!Before(y, s[n])}) = n - 1
    BY <2>2, <2>3
  <2> QED
    BY <1>5, <2>4, ReadsCount
<1>8. s \in [1 .. Cardinality(R) -> R]
  BY <1>7, ReadsCount DEF Reads!Sorted
<1>9. s \in Seq(R) /\ Len(s) = Cardinality(R)
  BY <1>6, <1>8
<1>10. ASSUME NEW a \in 1 .. Len(s), NEW b \in 1 .. Len(s), a < b
       PROVE  s[a][1] <= s[b][1]
  <2>1. s[a] \in R /\ s[b] \in R
    BY <1>7, <1>9
  <2>2. Cardinality(below[s[a]]) = a - 1 /\ Cardinality(below[s[b]]) = b - 1
    BY <1>7, <1>9
  <2>3. s[b] \notin below[s[a]]
    BY <1>6, <1>9, <1>10, <2>1, <2>2
  <2>4. ~Reads!Before(s[b], s[a])
    BY <1>5, <2>1, <2>3
  <2> QED
    BY <1>1, <2>1, <2>4 DEF Reads!Before
<1>11. ASSUME NEW x \in R
       PROVE  \E n \in 1 .. Len(s) : s[n] = x
  <2> DEFINE n == Cardinality(below[x]) + 1
  <2>1. n \in 1 .. Cardinality(R) /\ n - 1 = Cardinality(below[x])
    BY <1>6
  <2> HIDE DEF n
  <2>2. s[n] \in R /\ Cardinality(below[s[n]]) = Cardinality(below[x])
    BY <1>7, <2>1
  <2>3. s[n] \notin below[x] /\ x \notin below[s[n]]
    BY <1>6, <2>2
  <2>4. s[n] = x
    BY <1>3, <2>2, <2>3
  <2> QED
    BY <1>9, <2>1, <2>4
<1> QED
  BY <1>6, <1>9, <1>10, <1>11

\* A list of ranges none of which touches a later one; the range that holds
\* another, and the characters in one of them.
Parted(q) == q \in Seq(Spots) /\ \A i, j \in 1 .. Len(q) : i < j => q[i][2] < q[j][1]
Holds(q, r) == \E i \in 1 .. Len(q) : q[i][1] <= r[1] /\ r[2] <= q[i][2]
Within(q, x) == \E i \in 1 .. Len(q) : q[i][1] <= x /\ x < q[i][2]

LEMMA SpotIs == ASSUME NEW r \in Spots PROVE r[1] \in Nat /\ r[2] \in Nat /\ r[1] <= r[2]
BY DEF Spots

LEMMA JoinedIs ==
  ASSUME NEW q, Parted(q), NEW r \in Spots, \A i \in 1 .. Len(q) : q[i][1] <= r[1],
         NEW t, t = Reads!Joined(q, r)
  PROVE  /\ Parted(t) /\ \A i \in 1 .. Len(t) : t[i][1] <= r[1]
         /\ \A x \in Nat : Within(t, x) => Within(q, x) \/ (r[1] <= x /\ x < r[2])
         /\ Holds(t, r) /\ \A p \in Spots : Holds(q, p) => Holds(t, p)
<1> DEFINE n == Len(q)
<1>1. q \in Seq(Spots) /\ n \in Nat /\ \A i, j \in 1 .. n : i < j => q[i][2] < q[j][1]
  BY DEF Parted
<1>2. \A i \in 1 .. n : q[i] \in Spots
  BY <1>1
<1>3. \A i \in 1 .. n : q[i][1] \in Nat /\ q[i][2] \in Nat /\ q[i][1] <= q[i][2]
  BY <1>2, SpotIs
<1>4. r[1] \in Nat /\ r[2] \in Nat /\ r[1] <= r[2]
  BY SpotIs
<1>5. q = <<>> <=> n = 0
  BY <1>1
<1>6. CASE q # <<>> /\ r[1] <= q[n][2]
  <2> DEFINE top == IF q[n][2] > r[2] THEN q[n][2] ELSE r[2]
             new == <<q[n][1], top>>
  <2>1. n \in 1 .. n
    BY <1>1, <1>5, <1>6
  <2>2. t = [q EXCEPT ![n] = new]
    BY <1>6 DEF Reads!Joined, Reads!Last, Reads!Top
  <2>3. top \in Nat /\ q[n][2] <= top /\ r[2] <= top /\ (top = q[n][2] \/ top = r[2])
    BY <1>3, <1>4, <2>1
  <2>4. q[n][1] <= top
    BY <1>3, <2>1, <2>3
  <2>5. new \in Spots /\ new[1] = q[n][1] /\ new[2] = top
    BY <1>3, <2>1, <2>3, <2>4 DEF Spots
  <2> HIDE DEF top, new, n
  <2>6. t \in Seq(Spots) /\ Len(t) = n /\ t[n] = new /\ \A i \in 1 .. n : i # n => t[i] = q[i]
    BY <1>1, <2>1, <2>2, <2>5 DEF n
  <2>7. \A i \in 1 .. n : t[i][1] = q[i][1] /\ q[i][2] <= t[i][2]
    BY <1>3, <2>3, <2>5, <2>6
  <2>8. ASSUME NEW i \in 1 .. n, NEW j \in 1 .. n, i < j
        PROVE  t[i][2] < t[j][1]
    <3>1. i # n
      BY <1>1, <2>8
    <3> QED
      BY <1>1, <2>6, <2>7, <2>8, <3>1
  <2>9. Parted(t)
    BY <2>6, <2>8 DEF Parted
  <2>10. \A i \in 1 .. Len(t) : t[i][1] <= r[1]
    BY <2>6, <2>7 DEF n
  <2>11. ASSUME NEW x \in Nat, Within(t, x)
         PROVE  Within(q, x) \/ (r[1] <= x /\ x < r[2])
    <3>1. PICK i \in 1 .. n : t[i][1] <= x /\ x < t[i][2]
      BY <2>6, <2>11 DEF Within
    <3>2. CASE i # n
      BY <2>6, <3>1, <3>2 DEF Within, n
    <3>3. CASE i = n
      <4>1. q[n][1] <= x /\ x < top
        BY <2>5, <2>6, <3>1, <3>3
      <4>2. x < q[n][2] \/ (r[1] <= x /\ x < r[2])
        BY <1>3, <1>4, <1>6, <2>1, <2>3, <4>1
      <4> QED
        BY <2>1, <4>1, <4>2 DEF Within, n
    <3> QED
      BY <3>2, <3>3
  <2>12. Holds(t, r)
    <3>1. t[n][1] <= r[1] /\ r[2] <= t[n][2]
      BY <2>1, <2>3, <2>5, <2>6, <2>10
    <3> QED
      BY <2>1, <2>6, <3>1 DEF Holds
  <2>13. ASSUME NEW p \in Spots, Holds(q, p)
         PROVE  Holds(t, p)
    <3>1. PICK i \in 1 .. n : q[i][1] <= p[1] /\ p[2] <= q[i][2]
      BY <2>13 DEF Holds, n
    <3>2. p[2] \in Nat /\ q[i][2] \in Nat /\ t[i][2] \in Nat
      BY <1>3, <2>3, <2>5, <2>6, SpotIs
    <3>3. t[i][1] <= p[1] /\ p[2] <= t[i][2]
      BY <2>7, <3>1, <3>2
    <3> QED
      BY <2>6, <3>3 DEF Holds
  <2> QED
    BY <2>9, <2>10, <2>11, <2>12, <2>13
<1>7. CASE ~(q # <<>> /\ r[1] <= q[n][2])
  <2>1. t = Append(q, r)
    BY <1>7 DEF Reads!Joined, Reads!Last
  <2>2. /\ t \in Seq(Spots) /\ Len(t) = n + 1 /\ t[n + 1] = r
        /\ \A i \in 1 .. n : t[i] = q[i]
    BY <1>1, <2>1
  <2>3. n # 0 => q[n][2] < r[1]
    <3>1. ASSUME n # 0
          PROVE  q[n][2] < r[1]
      <4>1. n \in 1 .. n /\ q # <<>>
        BY <1>1, <1>5, <3>1
      <4> QED
        BY <1>3, <1>4, <1>7, <4>1
    <3> QED
      BY <3>1
  <2> HIDE DEF n
  <2>4. ASSUME NEW i \in 1 .. n
        PROVE  q[i][2] < r[1]
    <3>1. n \in 1 .. n /\ q[n][1] \in Nat /\ q[n][2] \in Nat /\ q[n][1] <= q[n][2]
      BY <1>1, <1>3
    <3>2. CASE i = n
      BY <1>1, <2>3, <3>2
    <3>3. CASE i # n
      <4>1. i < n
        BY <1>1, <3>3
      <4>2. q[i][2] < q[n][1]
        BY <1>1, <3>1, <4>1
      <4> QED
        BY <1>1, <1>3, <1>4, <2>3, <3>1, <4>2
    <3> QED
      BY <3>2, <3>3
  <2>5. ASSUME NEW i \in 1 .. n + 1, NEW j \in 1 .. n + 1, i < j
        PROVE  t[i][2] < t[j][1]
    <3>1. i \in 1 .. n
      BY <1>1, <2>5
    <3>2. CASE j = n + 1
      BY <2>2, <2>4, <3>1, <3>2
    <3>3. CASE j # n + 1
      <4>1. j \in 1 .. n
        BY <1>1, <3>3
      <4> QED
        BY <1>1, <2>2, <2>5, <3>1, <4>1
    <3> QED
      BY <3>2, <3>3
  <2>6. Parted(t)
    BY <2>2, <2>5 DEF Parted
  <2>7. ASSUME NEW i \in 1 .. Len(t)
        PROVE  t[i][1] <= r[1]
    <3>1. CASE i = n + 1
      BY <1>4, <2>2, <3>1
    <3>2. CASE i # n + 1
      <4>1. i \in 1 .. n
        BY <1>1, <2>2, <3>2
      <4> QED
        BY <2>2, <4>1 DEF n
    <3> QED
      BY <3>1, <3>2
  <2>8. ASSUME NEW x \in Nat, Within(t, x)
        PROVE  Within(q, x) \/ (r[1] <= x /\ x < r[2])
    <3>1. PICK i \in 1 .. n + 1 : t[i][1] <= x /\ x < t[i][2]
      BY <2>2, <2>8 DEF Within
    <3>2. CASE i = n + 1
      BY <2>2, <3>1, <3>2
    <3>3. CASE i # n + 1
      <4>1. i \in 1 .. n
        BY <1>1, <3>3
      <4> QED
        BY <2>2, <3>1, <4>1 DEF Within, n
    <3> QED
      BY <3>2, <3>3
  <2>9. Holds(t, r)
    <3>1. n + 1 \in 1 .. Len(t) /\ t[n + 1][1] <= r[1] /\ r[2] <= t[n + 1][2]
      BY <1>1, <1>4, <2>2
    <3> QED
      BY <3>1 DEF Holds
  <2>10. ASSUME NEW p \in Spots, Holds(q, p)
         PROVE  Holds(t, p)
    <3>1. PICK i \in 1 .. n : q[i][1] <= p[1] /\ p[2] <= q[i][2]
      BY <2>10 DEF Holds, n
    <3>2. i \in 1 .. Len(t) /\ t[i] = q[i]
      BY <1>1, <2>2
    <3> QED
      BY <3>1, <3>2 DEF Holds
  <2> QED
    BY <2>6, <2>7, <2>8, <2>9, <2>10
<1> QED
  BY <1>6, <1>7

LEMMA JoinedTyped ==
  ASSUME NEW q \in Seq(Spots), NEW r \in Spots PROVE Reads!Joined(q, r) \in Seq(Spots)
<1> DEFINE n == Len(q)
           top == IF q[n][2] > r[2] THEN q[n][2] ELSE r[2]
           new == <<q[n][1], top>>
<1>1. CASE q # <<>> /\ r[1] <= q[n][2]
  <2>1. n \in 1 .. Len(q)
    BY <1>1
  <2>2. q[n] \in Spots
    BY <2>1
  <2>3. new \in Spots
    <3>1. q[n][1] \in Nat /\ q[n][2] \in Nat /\ q[n][1] <= q[n][2] /\ r[2] \in Nat
      BY <2>2, SpotIs
    <3>2. top \in Nat /\ q[n][1] <= top
      BY <3>1
    <3> QED
      BY <3>1, <3>2 DEF Spots
  <2>4. Reads!Joined(q, r) = [q EXCEPT ![n] = new]
    BY <1>1 DEF Reads!Joined, Reads!Last, Reads!Top
  <2> HIDE DEF new
  <2> QED
    BY <2>1, <2>3, <2>4
<1>2. CASE ~(q # <<>> /\ r[1] <= q[n][2])
  <2>1. Reads!Joined(q, r) = Append(q, r)
    BY <1>2 DEF Reads!Joined, Reads!Last
  <2> QED
    BY <2>1
<1> QED
  BY <1>1, <1>2

Merges(s, f) ==
  f = [n \in 0 .. Len(s) |-> IF n = 0 THEN <<>> ELSE Reads!Joined(f[n - 1], s[n])]

LEMMA MergeExists == ASSUME NEW s \in Seq(Spots) PROVE \E f : Merges(s, f)
<1> DEFINE m == Len(s)
           X == Seq(Spots)
           F == [n \in 1 .. m |-> [q \in X |-> Reads!Joined(q, s[n])]]
<1>1. m \in Nat /\ <<>> \in X
  OBVIOUS
<1>2. \A n \in 1 .. m : \A q \in X : F[n][q] = Reads!Joined(q, s[n])
  OBVIOUS
<1>3. \A n \in 1 .. m : \A q \in X : F[n][q] \in X
  BY <1>2, JoinedTyped
<1> HIDE DEF F, X, m
<1>4. PICK f : f = [n \in 0 .. m |-> IF n = 0 THEN <<>> ELSE F[n][f[n - 1]]] /\ f \in [0 .. m -> X]
  BY <1>1, <1>3, Iterates
<1>5. ASSUME NEW n \in 0 .. m
      PROVE  f[n] = IF n = 0 THEN <<>> ELSE Reads!Joined(f[n - 1], s[n])
  <2>1. CASE n = 0
    BY <1>4, <2>1
  <2>2. CASE n # 0
    <3>1. n \in 1 .. m /\ n - 1 \in 0 .. m
      BY <1>1, <2>2
    <3>2. f[n - 1] \in X
      BY <1>4, <3>1
    <3>3. f[n] = F[n][f[n - 1]]
      BY <1>4, <2>2
    <3> QED
      BY <1>2, <2>2, <3>1, <3>2, <3>3
  <2> QED
    BY <2>1, <2>2
<1>6. f = [n \in 0 .. m |-> f[n]]
  BY <1>4
<1>7. f = [n \in 0 .. m |-> IF n = 0 THEN <<>> ELSE Reads!Joined(f[n - 1], s[n])]
  BY <1>5, <1>6
<1> QED
  BY <1>7 DEF Merges, m

\* The ranges recorded of a file: apart, of the same characters as the ones
\* that were delivered, and none of these is split.
LEMMA MergedIs ==
  ASSUME NEW R \in SUBSET Spots, IsFiniteSet(R), NEW t, t = Reads!Merged(R)
  PROVE  /\ Parted(t) /\ \A r \in R : Holds(t, r)
         /\ \A x \in Nat : Within(t, x) => \E r \in R : r[1] <= x /\ x < r[2]
<1> DEFINE s == Reads!Sorted(R)
           m == Len(s)
           f == CHOOSE g : Merges(s, g)
<1>1. /\ s \in Seq(R) /\ m \in Nat
      /\ \A a, b \in 1 .. m : a < b => s[a][1] <= s[b][1]
      /\ \A x \in R : \E n \in 1 .. m : s[n] = x
  BY SortedIs
<1>2. \A n \in 1 .. m : s[n] \in R /\ s[n] \in Spots
  BY <1>1
<1>3. s \in Seq(Spots)
  BY <1>1
<1>4. Merges(s, f)
  BY <1>3, MergeExists
<1>5. t = f[m]
  BY DEF Reads!Merged, Merges
<1> HIDE DEF f, s
<1>6. \A n \in 0 .. m : f[n] = IF n = 0 THEN <<>> ELSE Reads!Joined(f[n - 1], s[n])
  BY <1>4 DEF Merges
<1> HIDE DEF m
<1> DEFINE Fine(n) ==
             /\ Parted(f[n])
             /\ n # 0 => \A i \in 1 .. Len(f[n]) : f[n][i][1] <= s[n][1]
             /\ n = 0 => f[n] = <<>>
             /\ \A k \in 1 .. n : Holds(f[n], s[k])
             /\ \A x \in Nat : Within(f[n], x) => \E k \in 1 .. n : s[k][1] <= x /\ x < s[k][2]
           T == {n \in 0 .. m : Fine(n)}
<1>7. 0 \in T
  <2>1. f[0] = <<>>
    BY <1>1, <1>6
  <2>2. Parted(<<>>) /\ \A x \in Nat : ~Within(<<>>, x)
    BY DEF Parted, Within
  <2>3. Fine(0)
    BY <2>1, <2>2
  <2> HIDE DEF Fine
  <2> QED
    BY <1>1, <2>3
<1>8. ASSUME NEW n \in 1 .. m, n - 1 \in T
      PROVE  n \in T
  <2> DEFINE q == f[n - 1]
             r == s[n]
  <2>1. Fine(n - 1)
    BY <1>8
  <2>2. f[n] = Reads!Joined(q, r)
    BY <1>1, <1>6
  <2>3. r \in Spots /\ Parted(q)
    BY <1>2, <2>1
  <2>4. \A i \in 1 .. Len(q) : q[i][1] <= r[1]
    <3>1. CASE n - 1 = 0
      BY <2>1, <3>1
    <3>2. CASE n - 1 # 0
      <4>1. n - 1 \in 1 .. m /\ n - 1 < n
        BY <1>1, <3>2
      <4>2. s[n - 1][1] <= r[1]
        BY <1>1, <4>1
      <4>3. s[n - 1][1] \in Nat /\ r[1] \in Nat
        BY <1>2, <4>1, SpotIs
      <4>4. \A i \in 1 .. Len(q) : q[i] \in Spots
        BY <2>3 DEF Parted
      <4>5. \A i \in 1 .. Len(q) : q[i][1] \in Nat /\ q[i][1] <= s[n - 1][1]
        BY <2>1, <3>2, <4>4, SpotIs
      <4> HIDE DEF q, r
      <4> QED
        BY <4>2, <4>3, <4>5
    <3> QED
      BY <3>1, <3>2
  <2>5. \A k \in 1 .. n - 1 : Holds(q, s[k])
    BY <2>1
  <2>6. \A x \in Nat : Within(q, x) => \E k \in 1 .. n - 1 : s[k][1] <= x /\ x < s[k][2]
    BY <2>1
  <2> HIDE DEF q, r
  <2>7. /\ Parted(f[n]) /\ \A i \in 1 .. Len(f[n]) : f[n][i][1] <= r[1]
        /\ \A x \in Nat : Within(f[n], x) => Within(q, x) \/ (r[1] <= x /\ x < r[2])
        /\ Holds(f[n], r) /\ \A p \in Spots : Holds(q, p) => Holds(f[n], p)
    BY <2>2, <2>3, <2>4, JoinedIs
  <2>8. ASSUME NEW k \in 1 .. n
        PROVE  Holds(f[n], s[k])
    <3>1. k \in 1 .. m
      BY <1>1
    <3>2. CASE k = n
      BY <2>7, <3>2 DEF r
    <3>3. CASE k # n
      <4>1. k \in 1 .. n - 1
        BY <1>1, <3>3
      <4> QED
        BY <1>2, <2>5, <2>7, <3>1, <4>1
    <3> QED
      BY <3>2, <3>3
  <2>9. ASSUME NEW x \in Nat, Within(f[n], x)
        PROVE  \E k \in 1 .. n : s[k][1] <= x /\ x < s[k][2]
    <3>1. CASE Within(q, x)
      <4>1. PICK k \in 1 .. n - 1 : s[k][1] <= x /\ x < s[k][2]
        BY <2>6, <3>1
      <4>2. k \in 1 .. n
        BY <1>1
      <4> QED
        BY <4>1, <4>2
    <3>2. CASE r[1] <= x /\ x < r[2]
      <4>1. n \in 1 .. n
        BY <1>1
      <4> QED
        BY <3>2, <4>1 DEF r
    <3> QED
      BY <2>7, <2>9, <3>1, <3>2
  <2>10. Fine(n)
    BY <2>7, <2>8, <2>9 DEF r
  <2> HIDE DEF Fine
  <2> QED
    BY <1>1, <2>10
<1>9. \A n \in 0 .. m : n \in T
  <2> HIDE DEF T
  <2> QED
    BY <1>1, <1>7, <1>8, Climb
<1>10. Fine(m)
  <2> HIDE DEF Fine
  <2> QED
    BY <1>1, <1>9
<1> QED
  BY <1>1, <1>2, <1>5, <1>10

\* The first of a set of places.
LEMMA FirstIs ==
  ASSUME NEW S \in SUBSET Nat, S # {}
  PROVE  Reads!Min(S) \in S /\ \A y \in S : Reads!Min(S) <= y
<1>1. PICK x \in S : \A y \in S : x <= y
  BY LeastIs
<1>2. Reads!Min(S) = CHOOSE z \in S : \A y \in S : z <= y
  BY DEF Reads!Min
<1> QED
  BY <1>1, <1>2

LEMMA CoveredIs ==
  ASSUME NEW q, Parted(q), NEW r \in Spots, r[1] < r[2]
  PROVE  Reads!SpanCovered(q, r) <=> Holds(q, r)
<1> DEFINE after == {i \in 1 .. Len(q) : q[i][2] > r[1]}
           m == Reads!Min(after)
<1>1. q \in Seq(Spots) /\ Len(q) \in Nat
  BY DEF Parted
<1>2. \A i \in 1 .. Len(q) : q[i][1] \in Nat /\ q[i][2] \in Nat
  BY <1>1, SpotIs
<1>3. r[1] \in Nat /\ r[2] \in Nat
  BY SpotIs
<1>4. Reads!SpanCovered(q, r) <=> after # {} /\ q[m][1] <= r[1] /\ q[m][2] >= r[2]
  <2>1. DOMAIN q = 1 .. Len(q)
    BY <1>1
  <2>2. {i \in DOMAIN q : q[i][2] > r[1]} = after
    BY <2>1
  <2>3. Reads!SpanCovered(q, r) <=>
          LET w == {i \in DOMAIN q : q[i][2] > r[1]}
          IN  w # {} /\ q[Reads!Min(w)][1] <= r[1] /\ q[Reads!Min(w)][2] >= r[2]
    BY Zenon DEF Reads!SpanCovered
  <2> QED
    BY <2>2, <2>3, Zenon
<1>5. after # {} => m \in after /\ \A i \in after : m <= i
  <2>1. after \in SUBSET Nat
    BY <1>1
  <2> HIDE DEF after
  <2> QED
    BY <2>1, FirstIs
<1>6. Reads!SpanCovered(q, r) => Holds(q, r)
  BY <1>2, <1>3, <1>4, <1>5 DEF Holds
<1>7. ASSUME Holds(q, r)
      PROVE  Reads!SpanCovered(q, r)
  <2>1. PICK i \in 1 .. Len(q) : q[i][1] <= r[1] /\ r[2] <= q[i][2]
    BY <1>7 DEF Holds
  <2>2. i \in after
    BY <1>2, <1>3, <2>1
  <2>3. m \in after /\ m <= i
    BY <1>5, <2>2
  <2>4. m \in 1 .. Len(q) /\ q[m][2] > r[1]
    BY <2>3
  <2> HIDE DEF after, m
  <2>5. m = i
    <3>1. ~(m < i)
      <4>1. m < i => q[m][2] < q[i][1]
        BY <2>4 DEF Parted
      <4> QED
        BY <1>2, <1>3, <2>1, <2>4, <4>1
    <3> QED
      BY <1>1, <2>3, <2>4, <3>1
  <2>6. q[m][1] <= r[1] /\ q[m][2] >= r[2]
    BY <1>2, <1>3, <2>1, <2>5
  <2> QED
    BY <1>4, <2>2, <2>6
<1> QED
  BY <1>6, <1>7

\* A text, the positions its lines start at, and the breaks before a position.
Breaks(d) == {i \in 0 .. Len(d) - 1 : i = 0 \/ d[i] = "n"}
Count(d, k) == Cardinality({i \in 1 .. k : d[i] = "n"})

LEMMA TextIs == ASSUME NEW d \in Docs \cup {<<>>} PROVE d \in Seq(STRING) /\ Len(d) \in Nat
<1>1. d \in Seq(STRING)
  <2>1. CASE d \in Docs
    BY <2>1, ReadsAssumption
  <2>2. CASE d = <<>>
    BY <2>2
  <2> QED
    BY <2>1, <2>2
<1> HIDE ReadsAssumption
<1> QED
  BY <1>1

LEMMA StartsAre ==
  ASSUME NEW d \in Docs \cup {<<>>}, NEW s, s = Reads!Starts(d)
  PROVE  /\ Reads!Lines(d) \in Nat /\ s \in [1 .. Reads!Lines(d) -> 0 .. Len(d) - 1]
         /\ \A l \in 1 .. Reads!Lines(d) : s[l] \in Breaks(d)
         /\ \A l \in 1 .. Reads!Lines(d) : Cardinality(Under(Breaks(d), s[l])) = l - 1
         /\ \A a, b \in 1 .. Reads!Lines(d) : a < b => s[a] < s[b]
         /\ \A x \in Breaks(d) : \E l \in 1 .. Reads!Lines(d) : s[l] = x
<1>1. s = Reads!InOrder(Breaks(d))
  BY DEF Reads!Starts, Reads!StartsOf, Breaks
<1>2. Breaks(d) \in SUBSET (0 .. Len(d)) /\ Len(d) \in Nat
  BY TextIs DEF Breaks
<1>3. /\ Cardinality(Breaks(d)) \in Nat
      /\ s \in [1 .. Cardinality(Breaks(d)) -> Breaks(d)] /\ Len(s) = Cardinality(Breaks(d))
      /\ \A n \in 1 .. Cardinality(Breaks(d)) : Cardinality(Under(Breaks(d), s[n])) = n - 1
      /\ \A a, b \in 1 .. Cardinality(Breaks(d)) : a < b => s[a] < s[b]
      /\ \A x \in Breaks(d) : \E n \in 1 .. Cardinality(Breaks(d)) : s[n] = x
  <2>1. Lists(s, Breaks(d))
    BY <1>1, <1>2, InOrderIs
  <2> QED
    BY <2>1 DEF Lists
<1>4. Reads!Lines(d) = Cardinality(Breaks(d))
  BY <1>3 DEF Reads!Lines
<1>5. Breaks(d) \subseteq 0 .. Len(d) - 1
  BY DEF Breaks
<1>6. s \in [1 .. Cardinality(Breaks(d)) -> 0 .. Len(d) - 1]
  <2> HIDE DEF Breaks
  <2> QED
    BY <1>3, <1>5
<1>7. \A l \in 1 .. Cardinality(Breaks(d)) : s[l] \in Breaks(d)
  BY <1>3
<1> QED
  BY <1>3, <1>4, <1>6, <1>7

\* A break more or none at each character.
LEMMA CountIs ==
  ASSUME NEW d, NEW k \in Nat
  PROVE  /\ Count(d, 0) = 0 /\ Count(d, k) \in Nat
         /\ IsFiniteSet({i \in 1 .. k : d[i] = "n"})
         /\ k # 0 => Count(d, k) = Count(d, k - 1) + (IF d[k] = "n" THEN 1 ELSE 0)
<1> DEFINE S(m) == {i \in 1 .. m : d[i] = "n"}
<1>1. ASSUME NEW m \in Nat
      PROVE  IsFiniteSet(S(m)) /\ Cardinality(S(m)) \in Nat
  <2>1. IsFiniteSet(1 .. m)
    BY FS_Interval
  <2> QED
    BY <2>1, FS_Subset, FS_CardinalityType
<1>2. S(0) = {}
  OBVIOUS
<1>3. Count(d, 0) = 0
  BY <1>2, FS_EmptySet DEF Count
<1>4. ASSUME k # 0
      PROVE  Count(d, k) = Count(d, k - 1) + (IF d[k] = "n" THEN 1 ELSE 0)
  <2>1. k - 1 \in Nat /\ k \notin S(k - 1)
    BY <1>4
  <2>2. S(k) = IF d[k] = "n" THEN S(k - 1) \cup {k} ELSE S(k - 1)
    BY <1>4
  <2>3. IsFiniteSet(S(k - 1)) /\ Cardinality(S(k - 1)) \in Nat
    BY <1>1, <2>1
  <2> HIDE DEF S
  <2>4. Cardinality(S(k - 1) \cup {k}) = Cardinality(S(k - 1)) + 1
    BY <2>1, <2>3, FS_AddElement
  <2>5. Cardinality(S(k)) = Cardinality(S(k - 1)) + (IF d[k] = "n" THEN 1 ELSE 0)
    BY <2>2, <2>3, <2>4
  <2> QED
    BY <2>5 DEF Count, S
<1> QED
  BY <1>1, <1>3, <1>4 DEF Count

\* The breaks after a position, counted from there.
LEMMA CountedFrom ==
  ASSUME NEW d, NEW a \in Nat, NEW m \in Nat
  PROVE  /\ Cardinality({i \in 1 .. m : d[a + i] = "n"}) = Count(d, a + m) - Count(d, a)
         /\ Cardinality({i \in (a + 1) .. (a + m) : d[i] = "n"}) = Count(d, a + m) - Count(d, a)
<1> DEFINE S(k) == {i \in 1 .. k : d[a + i] = "n"}
           R(k) == {i \in (a + 1) .. (a + k) : d[i] = "n"}
           Fine(k) == /\ IsFiniteSet(S(k)) /\ Cardinality(S(k)) = Count(d, a + k) - Count(d, a)
                      /\ IsFiniteSet(R(k)) /\ Cardinality(R(k)) = Count(d, a + k) - Count(d, a)
           T == {k \in 0 .. m : Fine(k)}
<1>1. 0 \in T
  <2>1. S(0) = {} /\ R(0) = {}
    OBVIOUS
  <2>2. Count(d, a) \in Nat
    BY CountIs
  <2>3. a + 0 = a /\ Count(d, a) - Count(d, a) = 0
    BY <2>2
  <2> HIDE DEF S, R
  <2> QED
    BY <2>1, <2>3, FS_EmptySet
<1>2. ASSUME NEW k \in 1 .. m, k - 1 \in T
      PROVE  k \in T
  <2>1. Fine(k - 1)
    BY <1>2
  <2>2. S(k) = IF d[a + k] = "n" THEN S(k - 1) \cup {k} ELSE S(k - 1)
    OBVIOUS
  <2>3. R(k) = IF d[a + k] = "n" THEN R(k - 1) \cup {a + k} ELSE R(k - 1)
    OBVIOUS
  <2>4. k \notin S(k - 1) /\ (a + k) \notin R(k - 1)
    OBVIOUS
  <2>5. Count(d, a + k) = Count(d, a + (k - 1)) + (IF d[a + k] = "n" THEN 1 ELSE 0)
    <3>1. a + k \in Nat /\ a + k # 0 /\ (a + k) - 1 = a + (k - 1)
      OBVIOUS
    <3> QED
      BY <3>1, CountIs
  <2>6. Count(d, a) \in Nat /\ Count(d, a + (k - 1)) \in Nat
    <3>1. a + (k - 1) \in Nat
      OBVIOUS
    <3> QED
      BY <3>1, CountIs
  <2> HIDE DEF S, R
  <2>12. IsFiniteSet(S(k - 1) \cup {k}) /\ IsFiniteSet(R(k - 1) \cup {a + k})
    BY <2>1, FS_AddElement
  <2>7. IsFiniteSet(S(k)) /\ IsFiniteSet(R(k))
    <3>1. CASE d[a + k] = "n"
      BY <2>2, <2>3, <2>12, <3>1
    <3>2. CASE d[a + k] # "n"
      BY <2>1, <2>2, <2>3, <3>2
    <3> QED
      BY <3>1, <3>2
  <2>8. Cardinality(S(k - 1) \cup {k}) = Cardinality(S(k - 1)) + 1
    BY <2>1, <2>4, FS_AddElement
  <2>9. Cardinality(R(k - 1) \cup {a + k}) = Cardinality(R(k - 1)) + 1
    BY <2>1, <2>4, FS_AddElement
  <2>10. CASE d[a + k] = "n"
    <3>1. S(k) = S(k - 1) \cup {k} /\ R(k) = R(k - 1) \cup {a + k}
      BY <2>2, <2>3, <2>10
    <3>2. Cardinality(S(k)) = Cardinality(S(k - 1)) + 1 /\ Cardinality(R(k)) = Cardinality(R(k - 1)) + 1
      BY <2>8, <2>9, <3>1
    <3>3. Count(d, a + k) = Count(d, a + (k - 1)) + 1
      BY <2>5, <2>10
    <3> QED
      BY <2>1, <2>6, <2>7, <3>2, <3>3
  <2>11. CASE d[a + k] # "n"
    <3>1. S(k) = S(k - 1) /\ R(k) = R(k - 1)
      BY <2>2, <2>3, <2>11
    <3>2. Count(d, a + k) = Count(d, a + (k - 1))
      BY <2>5, <2>6, <2>11
    <3> QED
      BY <2>1, <2>7, <3>1, <3>2
  <2> QED
    BY <2>10, <2>11
<1>3. \A k \in 0 .. m : k \in T
  <2> HIDE DEF T
  <2> QED
    BY <1>1, <1>2, Climb
<1>4. Fine(m)
  <2> HIDE DEF Fine
  <2> QED
    BY <1>3
<1> QED
  BY <1>4

\* As many breaks before a line's start as lines.
LEMMA CountAtStart ==
  ASSUME NEW d \in Docs \cup {<<>>}, NEW l \in 1 .. Reads!Lines(d)
  PROVE  Count(d, Reads!Starts(d)[l]) = l - 1
<1> DEFINE k == Reads!Starts(d)[l]
<1>1. k \in Breaks(d) /\ Cardinality(Under(Breaks(d), k)) = l - 1
  BY StartsAre
<1> HIDE DEF k
<1>2. k \in 0 .. Len(d) - 1 /\ (k = 0 \/ d[k] = "n") /\ Len(d) \in Nat
  BY <1>1, TextIs DEF Breaks
<1>3. CASE k = 0
  <2>1. Under(Breaks(d), k) = {}
    BY <1>2, <1>3 DEF Breaks, Under
  <2>2. l - 1 = 0
    BY <1>1, <2>1, FS_EmptySet
  <2> QED
    BY <1>3, <2>2, CountIs DEF k
<1>4. CASE k # 0
  <2> DEFINE S == {i \in 1 .. k - 1 : d[i] = "n"}
  <2>1. k \in Nat /\ k - 1 \in Nat
    BY <1>2, <1>4
  <2>2. Under(Breaks(d), k) = S \cup {0}
    BY <1>2, <1>4 DEF Breaks, Under
  <2>3. IsFiniteSet(S) /\ Cardinality(S) = Count(d, k - 1) /\ Count(d, k - 1) \in Nat
    BY <2>1, CountIs DEF Count
  <2>4. 0 \notin S
    BY <2>1
  <2> HIDE DEF S
  <2>5. Cardinality(S \cup {0}) = Cardinality(S) + 1
    BY <2>3, <2>4, FS_AddElement
  <2>6. Count(d, k) = Count(d, k - 1) + 1
    BY <1>2, <1>4, <2>1, CountIs
  <2> QED
    BY <1>1, <2>2, <2>3, <2>5, <2>6 DEF k
<1> QED
  BY <1>3, <1>4

\* A character of the recorded text for each one but the CR of a CRLF.
Pairs(d, k) == {i \in 1 .. k : Reads!CrLf(d, i)}

LEMMA NormalIs ==
  ASSUME NEW d, NEW k \in Nat
  PROVE  /\ Reads!Normal(d, 0) = 0 /\ Reads!Normal(d, k) \in Nat
         /\ k # 0 => Reads!Normal(d, k) = Reads!Normal(d, k - 1) + (IF Reads!CrLf(d, k) THEN 0 ELSE 1)
<1>1. ASSUME NEW m \in Nat
      PROVE  /\ IsFiniteSet(Pairs(d, m)) /\ Cardinality(Pairs(d, m)) \in 0 .. m
             /\ Reads!Normal(d, m) = m - Cardinality(Pairs(d, m))
  <2>1. IsFiniteSet(1 .. m) /\ Cardinality(1 .. m) = m
    BY FS_Interval
  <2>2. Pairs(d, m) \in SUBSET (1 .. m)
    BY DEF Pairs
  <2>3. IsFiniteSet(Pairs(d, m)) /\ Cardinality(Pairs(d, m)) <= m
    BY <2>1, <2>2, FS_Subset
  <2>4. Cardinality(Pairs(d, m)) \in Nat
    BY <2>3, FS_CardinalityType
  <2>5. Reads!Normal(d, m) = m - Reads!Cardinality(Pairs(d, m))
    BY DEF Reads!Normal, Pairs
  <2> QED
    BY <2>3, <2>4, <2>5, ReadsCount
<1>2. Reads!Normal(d, 0) = 0
  BY <1>1
<1>3. ASSUME k # 0
      PROVE  Reads!Normal(d, k) = Reads!Normal(d, k - 1) + (IF Reads!CrLf(d, k) THEN 0 ELSE 1)
  <2>1. k - 1 \in Nat /\ k \notin Pairs(d, k - 1)
    BY <1>3 DEF Pairs
  <2>2. Pairs(d, k) = IF Reads!CrLf(d, k) THEN Pairs(d, k - 1) \cup {k} ELSE Pairs(d, k - 1)
    BY <1>3 DEF Pairs
  <2>3. Cardinality(Pairs(d, k - 1) \cup {k}) = Cardinality(Pairs(d, k - 1)) + 1
    BY <1>1, <2>1, FS_AddElement
  <2>4. /\ Cardinality(Pairs(d, k - 1)) \in Int /\ Reads!Normal(d, k) = k - Cardinality(Pairs(d, k))
        /\ Reads!Normal(d, k - 1) = (k - 1) - Cardinality(Pairs(d, k - 1))
    BY <1>1, <2>1
  <2> QED
    BY <2>2, <2>3, <2>4
<1> QED
  BY <1>1, <1>2, <1>3

LEMMA NormalGrows ==
  ASSUME NEW d, NEW a \in Nat, NEW b \in Nat, a <= b
  PROVE  /\ Reads!Normal(d, a) <= Reads!Normal(d, b)
         /\ Reads!Normal(d, b) <= Reads!Normal(d, a) + (b - a)
         /\ (\A i \in (a + 1) .. b : ~Reads!CrLf(d, i)) => Reads!Normal(d, b) = Reads!Normal(d, a) + (b - a)
<1> DEFINE Fine(k) ==
             /\ Reads!Normal(d, a) <= Reads!Normal(d, a + k)
             /\ Reads!Normal(d, a + k) <= Reads!Normal(d, a) + k
             /\ (\A i \in (a + 1) .. (a + k) : ~Reads!CrLf(d, i)) =>
                  Reads!Normal(d, a + k) = Reads!Normal(d, a) + k
           m == b - a
           T == {k \in 0 .. m : Fine(k)}
<1>1. m \in Nat /\ a + m = b /\ \A k \in 0 .. m : a + k \in Nat
  OBVIOUS
<1>2. \A k \in 0 .. m : Reads!Normal(d, a + k) \in Nat
  BY <1>1, NormalIs
<1> HIDE DEF m
<1>3. 0 \in T
  <2>1. a + 0 = a /\ Reads!Normal(d, a) \in Nat
    BY <1>1, NormalIs
  <2>2. Fine(0)
    BY <2>1
  <2> HIDE DEF Fine
  <2> QED
    BY <1>1, <2>2
<1>4. ASSUME NEW k \in 1 .. m, k - 1 \in T
      PROVE  k \in T
  <2>1. Fine(k - 1) /\ k - 1 \in 0 .. m /\ k \in 0 .. m
    BY <1>1, <1>4
  <2>2. a + k \in Nat /\ a + k # 0 /\ (a + k) - 1 = a + (k - 1)
    BY <1>1
  <2>3. Reads!Normal(d, a + k) = Reads!Normal(d, a + (k - 1)) + (IF Reads!CrLf(d, a + k) THEN 0 ELSE 1)
    BY <2>2, NormalIs
  <2>4. Reads!Normal(d, a + (k - 1)) \in Nat /\ Reads!Normal(d, a) \in Nat
    BY <1>2, <2>1, NormalIs
  <2>5. Reads!Normal(d, a) <= Reads!Normal(d, a + k) /\ Reads!Normal(d, a + k) <= Reads!Normal(d, a) + k
    BY <2>1, <2>3, <2>4
  <2>6. ASSUME \A i \in (a + 1) .. (a + k) : ~Reads!CrLf(d, i)
        PROVE  Reads!Normal(d, a + k) = Reads!Normal(d, a) + k
    <3>1. \A i \in (a + 1) .. (a + (k - 1)) : ~Reads!CrLf(d, i)
      BY <2>6
    <3>2. Reads!Normal(d, a + (k - 1)) = Reads!Normal(d, a) + (k - 1)
      BY <2>1, <3>1
    <3>3. ~Reads!CrLf(d, a + k)
      BY <2>6
    <3> QED
      BY <2>3, <2>4, <3>2, <3>3
  <2>7. Fine(k)
    BY <2>5, <2>6
  <2> HIDE DEF Fine
  <2> QED
    BY <2>1, <2>7
<1>5. \A k \in 0 .. m : k \in T
  <2> HIDE DEF T
  <2> QED
    BY <1>1, <1>3, <1>4, Climb
<1>6. Fine(m)
  <2> HIDE DEF Fine
  <2> QED
    BY <1>1, <1>5
<1> QED
  BY <1>1, <1>6 DEF m

LEMMA CountGrows ==
  ASSUME NEW d, NEW a \in Nat, NEW b \in Nat, a <= b
  PROVE  /\ Count(d, a) <= Count(d, b)
         /\ (\A i \in (a + 1) .. b : d[i] # "n") => Count(d, b) = Count(d, a)
<1> DEFINE S == {i \in (a + 1) .. (a + (b - a)) : d[i] = "n"}
<1>1. b - a \in Nat /\ a + (b - a) = b
  OBVIOUS
<1>2. Cardinality(S) = Count(d, b) - Count(d, a)
  BY <1>1, CountedFrom
<1>3. Count(d, a) \in Nat /\ Count(d, b) \in Nat
  BY CountIs
<1>4. IsFiniteSet(S)
  <2>1. IsFiniteSet((a + 1) .. (a + (b - a)))
    BY <1>1, FS_Interval
  <2> QED
    BY <2>1, FS_Subset
<1>5. (\A i \in (a + 1) .. b : d[i] # "n") => S = {}
  BY <1>1
<1> HIDE DEF S
<1> QED
  BY <1>2, <1>3, <1>4, <1>5, FS_CardinalityType, FS_EmptySet

-----------------------------------------------------------------------------
\* A line reaches from a break or the start to the next break or the end.
LEMMA LineIs ==
  ASSUME NEW d \in Docs \cup {<<>>}, NEW n \in 1 .. Reads!Lines(d),
         NEW from, from = Reads!Starts(d)[n], NEW to, to = Reads!LineEnd(d, n)
  PROVE  /\ from \in 0 .. Len(d) - 1 /\ to \in (from + 1) .. Len(d) /\ Len(d) \in Nat
         /\ \A i \in (from + 1) .. (to - 1) : d[i] # "n"
         /\ from = 0 \/ d[from] = "n"
         /\ n < Reads!Lines(d) => to = Reads!Starts(d)[n + 1] /\ d[to] = "n"
         /\ n = Reads!Lines(d) => to = Len(d)
         /\ Count(d, from) = n - 1 /\ Count(d, to - 1) = n - 1
<1> DEFINE s == Reads!Starts(d)
           N == Reads!Lines(d)
<1>1. /\ N \in Nat /\ \A l \in 1 .. N : s[l] \in Breaks(d)
      /\ \A i, j \in 1 .. N : i < j => s[i] < s[j]
      /\ \A x \in Breaks(d) : \E l \in 1 .. N : s[l] = x
  BY StartsAre
<1>2. Len(d) \in Nat
  BY TextIs
<1>3. \A l \in 1 .. N : s[l] \in 0 .. Len(d) - 1 /\ (s[l] = 0 \/ d[s[l]] = "n")
  BY <1>1 DEF Breaks
<1> HIDE DEF s, N
<1>4. n \in 1 .. N /\ from = s[n] /\ to = IF n < N THEN s[n + 1] ELSE Len(d)
  BY DEF Reads!LineEnd, s, N
<1>5. n < N => n + 1 \in 1 .. N /\ s[n] < s[n + 1] /\ s[n + 1] \in 0 .. Len(d) - 1 /\ s[n + 1] # 0
  BY <1>1, <1>3, <1>4
<1>6. from \in 0 .. Len(d) - 1 /\ to \in (from + 1) .. Len(d)
  BY <1>2, <1>3, <1>4, <1>5
<1>7. ASSUME NEW i \in (from + 1) .. (to - 1)
      PROVE  d[i] # "n"
  <2> SUFFICES ASSUME d[i] = "n" PROVE FALSE
    OBVIOUS
  <2>1. i \in 0 .. Len(d) - 1
    BY <1>2, <1>6
  <2>2. i \in Breaks(d)
    BY <2>1 DEF Breaks
  <2>3. PICK l \in 1 .. N : s[l] = i
    BY <1>1, <2>2
  <2>4. s[n] < s[l] /\ (n < N => s[l] < s[n + 1])
    BY <1>4, <1>5, <1>6, <2>3
  <2>5. l \in Int /\ n \in Int /\ N \in Int /\ s[l] \in Int /\ s[n] \in Int
    BY <1>1, <1>3, <1>4
  <2>6. ~(l < n) /\ l # n
    BY <1>1, <1>4, <2>4, <2>5
  <2>7. n < l /\ n < N
    BY <1>1, <2>5, <2>6
  <2>8. l # n + 1 /\ ~(n + 1 < l)
    BY <1>1, <1>3, <1>5, <2>4, <2>5, <2>7
  <2> QED
    BY <2>5, <2>7, <2>8
<1>8. Count(d, from) = n - 1
  BY CountAtStart
<1>9. Count(d, to - 1) = Count(d, from)
  <2>1. from \in Nat /\ to - 1 \in Nat /\ from <= to - 1
    BY <1>2, <1>6
  <2> QED
    BY <1>7, <2>1, CountGrows
<1> QED
  BY <1>1, <1>2, <1>3, <1>4, <1>5, <1>6, <1>7, <1>8, <1>9 DEF s, N

\* Every position stands in a line, or at the end of the last one.
LEMMA LineOf ==
  ASSUME NEW d \in Docs \cup {<<>>}, NEW k \in 0 .. Len(d), Len(d) # 0
  PROVE  \E n \in 1 .. Reads!Lines(d) :
           /\ Reads!Starts(d)[n] <= k
           /\ k < Reads!LineEnd(d, n) \/ (k = Len(d) /\ n = Reads!Lines(d))
<1> DEFINE s == Reads!Starts(d)
           N == Reads!Lines(d)
           S == {l \in 1 .. N : l = N \/ k < s[l + 1]}
<1>1. /\ N \in Nat /\ \A l \in 1 .. N : s[l] \in Breaks(d)
      /\ \A i, j \in 1 .. N : i < j => s[i] < s[j]
      /\ \A x \in Breaks(d) : \E l \in 1 .. N : s[l] = x
  BY StartsAre
<1>2. Len(d) \in Nat
  BY TextIs
<1>3. \A l \in 1 .. N : s[l] \in 0 .. Len(d) - 1
  BY <1>1 DEF Breaks
<1>4. 0 \in Breaks(d)
  BY <1>2 DEF Breaks
<1> HIDE DEF s, N
<1>5. N \in 1 .. N /\ 1 \in 1 .. N /\ s[1] = 0
  <2>1. PICK l \in 1 .. N : s[l] = 0
    BY <1>1, <1>4
  <2>2. N \in 1 .. N /\ 1 \in 1 .. N /\ l \in Int
    BY <1>1
  <2>3. ~(1 < l)
    BY <1>1, <1>3, <2>1, <2>2
  <2> QED
    BY <2>1, <2>2, <2>3
<1>6. PICK n \in S : \A l \in S : n <= l
  <2>1. S \in SUBSET Nat /\ S # {}
    BY <1>5
  <2> HIDE DEF S
  <2> QED
    BY <2>1, LeastIs
<1>7. s[n] <= k
  <2>1. CASE n = 1
    BY <1>5, <2>1
  <2>2. CASE n # 1
    <3>1. n - 1 \in 1 .. N /\ ~(n <= n - 1)
      BY <1>1, <1>6, <2>2
    <3>2. n - 1 \notin S
      BY <1>6, <3>1
    <3>3. ~(k < s[(n - 1) + 1]) /\ (n - 1) + 1 = n
      BY <3>1, <3>2
    <3> QED
      BY <1>2, <1>3, <1>6, <3>3
  <2> QED
    BY <2>1, <2>2
<1>8. Reads!LineEnd(d, n) = IF n < N THEN s[n + 1] ELSE Len(d)
  BY DEF Reads!LineEnd, s, N
<1>9. k < Reads!LineEnd(d, n) \/ (k = Len(d) /\ n = N)
  BY <1>1, <1>2, <1>6, <1>8
<1> QED
  BY <1>6, <1>7, <1>9 DEF s, N

\* What ends a line's text: its end, or its break and what belongs to it.
Ends(d, u, to) ==
  \/ u = to /\ d[to] # "n"
  \/ u = to - 1 /\ d[to] = "n"
  \/ u = to - 2 /\ d[to] = "n" /\ d[to - 1] = "r"

LEMMA BodyIs ==
  ASSUME NEW d \in Docs \cup {<<>>}, NEW n \in 1 .. Reads!Lines(d),
         NEW from, from = Reads!Starts(d)[n], NEW to, to = Reads!LineEnd(d, n),
         NEW start \in 0 .. from, start = from \/ d[from] = "n",
         NEW u, u = Reads!Unbroken(d, start, to)
  PROVE  /\ u = Reads!Unbroken(d, from, to)
         /\ u \in from .. to /\ Ends(d, u, to)
         /\ \A k \in (from + 1) .. u : d[k] # "n" /\ ~Reads!CrLf(d, k)
         /\ u # to => u + 1 \in (from + 1) .. to /\ (d[u + 1] = "n" \/ Reads!CrLf(d, u + 1))
<1>1. /\ from \in 0 .. Len(d) - 1 /\ to \in (from + 1) .. Len(d) /\ Len(d) \in Nat
      /\ \A i \in (from + 1) .. (to - 1) : d[i] # "n"
      /\ n = Reads!Lines(d) => to = Len(d)
      /\ n < Reads!Lines(d) => d[to] = "n"
  BY LineIs
<1>2. Reads!Lines(d) \in Nat
  BY StartsAre
<1>3. u = IF d[to] # "n" THEN to ELSE IF to - 1 > start /\ d[to - 1] = "r" THEN to - 2 ELSE to - 1
  BY <1>1 DEF Reads!Unbroken
<1>4. Reads!Unbroken(d, from, to) =
        IF d[to] # "n" THEN to ELSE IF to - 1 > from /\ d[to - 1] = "r" THEN to - 2 ELSE to - 1
  BY <1>1 DEF Reads!Unbroken
<1>5. start # from => d[from] # "r"
  OBVIOUS
<1>6. to - 1 > start /\ d[to - 1] = "r" <=> to - 1 > from /\ d[to - 1] = "r"
  <2>1. start # from => to - 1 # from \/ d[to - 1] # "r"
    BY <1>5
  <2> QED
    BY <1>1, <2>1
<1>7. u = Reads!Unbroken(d, from, to)
  BY <1>3, <1>4, <1>6
<1>8. u = IF d[to] # "n" THEN to ELSE IF to - 1 > from /\ d[to - 1] = "r" THEN to - 2 ELSE to - 1
  BY <1>4, <1>7
<1>9. u \in from .. to
  BY <1>1, <1>8
<1>10. Ends(d, u, to)
  BY <1>8 DEF Ends
<1>11. ASSUME NEW k \in (from + 1) .. u
       PROVE  d[k] # "n" /\ ~Reads!CrLf(d, k)
  <2>1. CASE d[to] # "n"
    <3>1. u = to /\ to = Len(d)
      BY <1>1, <1>2, <1>8, <2>1
    <3>2. d[k] # "n"
      BY <1>1, <2>1, <3>1
    <3>3. k + 1 <= Len(d) => d[k + 1] # "n"
      <4>1. k + 1 <= Len(d) => k + 1 = to \/ k + 1 \in (from + 1) .. (to - 1)
        BY <1>1, <3>1
      <4> QED
        BY <1>1, <2>1, <4>1
    <3>4. k \in Int /\ Len(d) \in Int
      BY <1>1, <3>1
    <3> QED
      BY <3>2, <3>3, <3>4 DEF Reads!CrLf
  <2>2. CASE d[to] = "n"
    <3>1. k \in (from + 1) .. (to - 1)
      BY <1>1, <1>8, <2>2
    <3>2. k + 1 = to \/ k + 1 \in (from + 1) .. (to - 1)
      BY <1>1, <3>1
    <3>3. k + 1 = to => d[k] # "r"
      BY <1>1, <1>8, <2>2, <3>1
    <3> QED
      BY <1>1, <3>1, <3>2, <3>3 DEF Reads!CrLf
  <2> QED
    BY <2>1, <2>2
<1>12. ASSUME u # to
       PROVE  u + 1 \in (from + 1) .. to /\ (d[u + 1] = "n" \/ Reads!CrLf(d, u + 1))
  <2>1. d[to] = "n"
    BY <1>8, <1>12
  <2>2. CASE u = to - 1
    <3>1. u + 1 = to
      BY <1>1, <2>2
    <3> QED
      BY <1>1, <2>1, <3>1
  <2>3. CASE u # to - 1
    <3>1. u = to - 2 /\ to - 1 > from /\ d[to - 1] = "r"
      BY <1>8, <2>1, <2>3
    <3>2. u + 1 = to - 1 /\ (u + 1) + 1 = to /\ u + 1 < Len(d)
      BY <1>1, <3>1
    <3>3. u + 1 \in (from + 1) .. to
      BY <1>1, <3>1, <3>2
    <3>4. d[u + 1] = "r"
      BY <3>1, <3>2
    <3>5. d[(u + 1) + 1] = "n"
      BY <2>1, <3>2
    <3>6. Reads!CrLf(d, u + 1)
      BY <3>2, <3>4, <3>5, Zenon DEF Reads!CrLf
    <3> QED
      BY <3>3, <3>6
  <2> QED
    BY <2>2, <2>3
<1> QED
  BY <1>7, <1>9, <1>10, <1>11, <1>12

\* A range of lines ends with the text of its last one.
LEMMA RangeEndIs ==
  ASSUME NEW d \in Docs \cup {<<>>}, NEW start \in 1 .. Reads!Lines(d), NEW max \in Nat \ {0},
         NEW lastTo, lastTo = Reads!RangeEnd(d, start, max)
  PROVE  \E m \in start .. Reads!Lines(d) :
           /\ lastTo = Reads!Unbroken(d, Reads!Starts(d)[m], Reads!LineEnd(d, m))
           /\ Reads!Starts(d)[start] <= Reads!Starts(d)[m] /\ Reads!Starts(d)[m] <= lastTo
           /\ lastTo <= Reads!LineEnd(d, m) /\ Reads!LineEnd(d, m) <= Len(d)
           /\ Ends(d, lastTo, Reads!LineEnd(d, m))
           /\ lastTo # Reads!LineEnd(d, m) =>
                lastTo + 1 <= Len(d) /\ (d[lastTo + 1] = "n" \/ Reads!CrLf(d, lastTo + 1))
<1> DEFINE s == Reads!Starts(d)
           N == Reads!Lines(d)
           m == IF start + max - 1 < N THEN start + max - 1 ELSE N
           from == s[m]
           to == Reads!LineEnd(d, m)
<1>1. N \in Nat /\ \A i, j \in 1 .. N : i < j => s[i] < s[j]
  BY StartsAre
<1>2. lastTo = Reads!Unbroken(d, s[start], to)
  BY DEF Reads!RangeEnd
<1>3. m \in start .. N /\ m \in 1 .. N
  <2> HIDE DEF s
  <2> QED
    BY <1>1
<1> HIDE DEF m
<1>4. /\ from \in 0 .. Len(d) - 1 /\ to \in (from + 1) .. Len(d) /\ Len(d) \in Nat
      /\ from = 0 \/ d[from] = "n"
  BY <1>3, LineIs
<1>5. s[start] \in 0 .. Len(d) - 1
  BY LineIs
<1>6. s[start] \in 0 .. from /\ (s[start] = from \/ d[from] = "n")
  <2>1. start = m \/ s[start] < s[m]
    BY <1>1, <1>3
  <2> HIDE DEF s
  <2> QED
    BY <1>4, <1>5, <2>1
<1>7. /\ lastTo = Reads!Unbroken(d, from, to) /\ lastTo \in from .. to /\ Ends(d, lastTo, to)
      /\ lastTo # to => lastTo + 1 \in (from + 1) .. to /\ (d[lastTo + 1] = "n" \/ Reads!CrLf(d, lastTo + 1))
  <2> DEFINE S == s[start]
  <2>1. lastTo = Reads!Unbroken(d, S, to) /\ S \in 0 .. from /\ (S = from \/ d[from] = "n")
    BY <1>2, <1>6
  <2> HIDE DEF S
  <2> QED
    BY <1>3, <2>1, BodyIs
<1>8. s[start] <= from /\ from <= lastTo /\ lastTo <= to /\ to <= Len(d) /\ (lastTo # to => lastTo + 1 <= Len(d))
  <2> HIDE DEF s, to
  <2> QED
    BY <1>4, <1>5, <1>6, <1>7
<1> QED
  BY <1>3, <1>7, <1>8

\* The line of a position, unless it stands behind the break that ends the text.
LEMMA LineAt ==
  ASSUME NEW d \in Docs \cup {<<>>}, NEW k \in 0 .. Len(d), Len(d) # 0, k = Len(d) => d[k] # "n"
  PROVE  \E n \in 1 .. Reads!Lines(d) :
           /\ Reads!Starts(d)[n] <= k /\ Count(d, k) = n - 1
           /\ k < Reads!LineEnd(d, n) \/ (k = Len(d) /\ n = Reads!Lines(d))
<1>1. PICK n \in 1 .. Reads!Lines(d) :
           /\ Reads!Starts(d)[n] <= k
           /\ k < Reads!LineEnd(d, n) \/ (k = Len(d) /\ n = Reads!Lines(d))
  BY LineOf
<1> DEFINE from == Reads!Starts(d)[n]
           to == Reads!LineEnd(d, n)
<1>2. /\ from \in 0 .. Len(d) - 1 /\ to \in (from + 1) .. Len(d) /\ Len(d) \in Nat
      /\ \A i \in (from + 1) .. (to - 1) : d[i] # "n"
      /\ Count(d, from) = n - 1 /\ (n = Reads!Lines(d) => to = Len(d))
  BY LineIs
<1>3. from <= k /\ (k < to \/ (k = Len(d) /\ n = Reads!Lines(d)))
  BY <1>1
<1> HIDE DEF from, to
<1>4. \A i \in (from + 1) .. k : d[i] # "n"
  BY <1>2, <1>3
<1>5. Count(d, k) = Count(d, from)
  BY <1>2, <1>3, <1>4, CountGrows
<1> QED
  BY <1>1, <1>2, <1>5

LEMMA SpanIs ==
  ASSUME NEW d \in Docs, NEW n \in 1 .. Reads!Lines(d), NEW from, from = Reads!Starts(d)[n],
         NEW u, u = Reads!Unbroken(d, from, Reads!LineEnd(d, n))
  PROVE  /\ from \in Nat /\ u \in Nat /\ from <= u /\ u <= Len(d)
         /\ Reads!Span(d, n) \in Spots /\ Reads!Span(d, n)[1] = Reads!Normal(d, from)
         /\ Reads!Span(d, n)[2] = Reads!Normal(d, from) + (IF u = from THEN 1 ELSE u - from)
         /\ Reads!Span(d, n)[1] < Reads!Span(d, n)[2]
         /\ \A k \in (from + 1) .. u : d[k] # "n" /\ ~Reads!CrLf(d, k)
<1>1. /\ from \in 0 .. Len(d) - 1 /\ Reads!LineEnd(d, n) \in (from + 1) .. Len(d) /\ Len(d) \in Nat
  BY LineIs
<1>2. u \in from .. Reads!LineEnd(d, n) /\ \A k \in (from + 1) .. u : d[k] # "n" /\ ~Reads!CrLf(d, k)
  <2>1. from \in 0 .. from
    BY <1>1
  <2> QED
    BY <2>1, BodyIs
<1>3. Reads!Normal(d, from) \in Nat
  BY <1>1, NormalIs
<1>4. Reads!Span(d, n) =
        <<Reads!Normal(d, from), Reads!Normal(d, from) + (IF u - from = 0 THEN 1 ELSE u - from)>>
  BY DEF Reads!Span, Reads!Spans
<1>5. from \in Nat /\ u \in Nat /\ from <= u /\ u <= Len(d)
  BY <1>1, <1>2
<1>6. u - from = 0 <=> u = from
  BY <1>5
<1>7. (IF u = from THEN 1 ELSE u - from) \in Nat \ {0}
  BY <1>5
<1> QED
  BY <1>2, <1>3, <1>4, <1>5, <1>6, <1>7 DEF Spots

\* A character of a line's text stands in the span of the line.
LEMMA BodyInSpan ==
  ASSUME NEW d \in Docs, NEW n \in 1 .. Reads!Lines(d), NEW k \in Reads!Body(d, n)
  PROVE  /\ k \in 1 .. Len(d) /\ d[k] # "n" /\ ~Reads!CrLf(d, k) /\ Reads!Normal(d, k - 1) \in Nat
         /\ Reads!Span(d, n)[1] <= Reads!Normal(d, k - 1) /\ Reads!Normal(d, k - 1) < Reads!Span(d, n)[2]
<1> DEFINE from == Reads!Starts(d)[n]
           u == Reads!Unbroken(d, from, Reads!LineEnd(d, n))
<1>1. /\ from \in Nat /\ u \in Nat /\ from <= u /\ u <= Len(d)
      /\ Reads!Span(d, n)[1] = Reads!Normal(d, from)
      /\ Reads!Span(d, n)[2] = Reads!Normal(d, from) + (IF u = from THEN 1 ELSE u - from)
      /\ \A i \in (from + 1) .. u : d[i] # "n" /\ ~Reads!CrLf(d, i)
  BY SpanIs
<1>2. k \in (from + 1) .. u /\ Len(d) \in Nat
  BY TextIs DEF Reads!Body
<1> HIDE DEF from, u
<1>3. k - 1 \in Nat /\ from <= k - 1
  BY <1>1, <1>2
<1>4. /\ Reads!Normal(d, from) <= Reads!Normal(d, k - 1)
      /\ Reads!Normal(d, k - 1) <= Reads!Normal(d, from) + ((k - 1) - from)
  BY <1>1, <1>3, NormalGrows
<1>5. Reads!Normal(d, k - 1) \in Nat /\ Reads!Normal(d, from) \in Nat
  BY <1>1, <1>3, NormalIs
<1> QED
  BY <1>1, <1>2, <1>3, <1>4, <1>5

-----------------------------------------------------------------------------
\* Pages of a range of lines.
Pages ==
  [doc : Docs \cup {<<>>}, start : Nat, max : Nat, offset : Nat, length : Nat,
   complete : BOOLEAN, truncated : BOOLEAN, ends : Nat]
Fits(p) ==
  /\ p.doc \in Docs /\ p.start \in 1 .. Reads!Lines(p.doc) /\ p.max # 0
  /\ p.ends = Reads!RangeEnd(p.doc, p.start, p.max)
  /\ Reads!From(p) + p.length <= p.ends
  /\ ~p.truncated => p.complete /\ Reads!From(p) + p.length = p.ends
  /\ p.complete =>
       \/ Reads!EndsIn(p, "n") \/ Reads!From(p) + p.length = p.ends
       \/ p.doc[Reads!NextChar(p)] = "n"

LEMMA PageIs ==
  ASSUME NEW p \in Pages, Fits(p), NEW d, d = p.doc, NEW at, at = Reads!From(p), NEW e, e = at + p.length
  PROVE  /\ d \in Docs /\ Len(d) \in Nat /\ Len(d) # 0
         /\ Reads!Starts(d)[p.start] \in Nat /\ at = Reads!Starts(d)[p.start] + p.offset
         /\ at \in Nat /\ e \in at .. Len(d) /\ e <= p.ends /\ p.ends <= Len(d)
         /\ e = Len(d) => d[e] # "n"
         /\ Reads!EndsIn(p, "n") <=> e # at /\ d[e] = "n"
         /\ Reads!FirstLine(p) = 1 + Count(d, at)
         /\ Reads!LastLine(p) = 1 + Count(d, e) - (IF Reads!EndsIn(p, "n") THEN 1 ELSE 0)
<1> DEFINE S == Reads!Starts(d)[p.start]
<1>1. d \in Docs /\ p.start \in 1 .. Reads!Lines(d) /\ p.max \in Nat \ {0} /\ p.offset \in Nat /\ p.length \in Nat
  BY DEF Fits, Pages
<1>2. S \in 0 .. Len(d) - 1 /\ Len(d) \in Nat /\ Count(d, S) = p.start - 1
  BY <1>1, LineIs
<1>3. at = S + p.offset
  BY DEF Reads!From
<1>4. PICK m \in p.start .. Reads!Lines(d) :
           /\ p.ends <= Reads!LineEnd(d, m) /\ Reads!LineEnd(d, m) <= Len(d)
           /\ Ends(d, p.ends, Reads!LineEnd(d, m))
  BY <1>1, RangeEndIs DEF Fits
<1>5. p.ends \in Nat /\ e <= p.ends
  BY DEF Fits, Pages
<1>6. Reads!LineEnd(d, m) \in Nat
  <2>1. m \in 1 .. Reads!Lines(d)
    BY <1>1, StartsAre
  <2>2. Reads!LineEnd(d, m) \in (Reads!Starts(d)[m] + 1) .. Len(d) /\ Reads!Starts(d)[m] \in 0 .. Len(d) - 1
    BY <1>1, <2>1, LineIs
  <2> QED
    BY <1>2, <2>2
<1> HIDE DEF S
<1>12. S \in Nat /\ Len(d) # 0
  BY <1>2
<1>13. at \in Nat /\ e \in Nat /\ at <= e
  <2>1. at \in Nat
    BY <1>1, <1>3, <1>12
  <2> QED
    BY <1>1, <2>1
<1>14. p.ends <= Len(d) /\ e <= Len(d)
  BY <1>2, <1>4, <1>5, <1>6, <1>13
<1>7. at \in Nat /\ e \in at .. Len(d) /\ p.ends <= Len(d) /\ Len(d) # 0
  BY <1>2, <1>12, <1>13, <1>14
<1>8. e = Len(d) => d[e] # "n"
  BY <1>2, <1>4, <1>5, <1>6, <1>7 DEF Ends
<1>9. Reads!EndsIn(p, "n") <=> e # at /\ d[e] = "n"
  <2>1. p.length > 0 <=> e # at
    BY <1>1, <1>7
  <2> QED
    BY <2>1 DEF Reads!EndsIn
<1>10. Reads!FirstLine(p) = 1 + Count(d, at)
  <2>1. Reads!FirstLine(p) = p.start + Cardinality({i \in 1 .. p.offset : d[S + i] = "n"})
    BY ReadsCount DEF Reads!FirstLine, S
  <2>2. Cardinality({i \in 1 .. p.offset : d[S + i] = "n"}) = Count(d, S + p.offset) - Count(d, S)
    <3>1. S \in Nat /\ p.offset \in Nat
      BY <1>1, <1>12
    <3> QED
      BY <3>1, CountedFrom, Zenon
  <2>3. Count(d, at) \in Nat
    BY <1>7, CountIs
  <2> QED
    BY <1>1, <1>2, <1>3, <2>1, <2>2, <2>3
<1>11. Reads!LastLine(p) = 1 + Count(d, e) - (IF Reads!EndsIn(p, "n") THEN 1 ELSE 0)
  <2> DEFINE R == {i \in (at + 1) .. (at + p.length) : d[i] = "n"}
  <2>1. Cardinality(R) = Count(d, e) - Count(d, at)
    <3>1. at \in Nat /\ p.length \in Nat /\ e = at + p.length
      BY <1>1, <1>13
    <3>2. Cardinality(R) = Count(d, at + p.length) - Count(d, at)
      BY <3>1, CountedFrom
    <3> QED
      BY <3>1, <3>2
  <2>2. Reads!LastLine(p) = Reads!FirstLine(p) + Reads!Cardinality(R) - (IF Reads!EndsIn(p, "n") THEN 1 ELSE 0)
    BY DEF Reads!LastLine, Reads!Shown
  <2>3. Count(d, at) \in Nat /\ Count(d, e) \in Nat
    BY <1>13, CountIs
  <2> HIDE DEF R
  <2> QED
    BY <1>10, <2>1, <2>2, <2>3, ReadsCount
<1> QED
  BY <1>1, <1>2, <1>3, <1>5, <1>7, <1>8, <1>9, <1>10, <1>11, <1>12 DEF S

\* A page ends in a line of the file.
LEMMA PageLine ==
  ASSUME NEW p \in Pages, Fits(p), NEW d, d = p.doc, NEW e, e = Reads!From(p) + p.length
  PROVE  \E n \in 1 .. Reads!Lines(d) :
           /\ Reads!Starts(d)[n] <= e /\ Count(d, e) = n - 1
           /\ e < Reads!LineEnd(d, n) \/ (e = Len(d) /\ n = Reads!Lines(d))
           /\ Reads!LastLine(p) = IF Reads!EndsIn(p, "n") THEN n - 1 ELSE n
<1> DEFINE at == Reads!From(p)
<1>1. /\ d \in Docs /\ Len(d) \in Nat /\ Len(d) # 0 /\ at \in Nat /\ e \in at .. Len(d)
      /\ e = Len(d) => d[e] # "n"
      /\ Reads!LastLine(p) = 1 + Count(d, e) - (IF Reads!EndsIn(p, "n") THEN 1 ELSE 0)
  BY PageIs
<1> HIDE DEF at
<1>2. e \in 0 .. Len(d)
  BY <1>1
<1>3. PICK n \in 1 .. Reads!Lines(d) :
           /\ Reads!Starts(d)[n] <= e /\ Count(d, e) = n - 1
           /\ e < Reads!LineEnd(d, n) \/ (e = Len(d) /\ n = Reads!Lines(d))
  BY <1>1, <1>2, LineAt
<1>4. Reads!LastLine(p) = IF Reads!EndsIn(p, "n") THEN n - 1 ELSE n
  BY <1>1, <1>3
<1> QED
  BY <1>3, <1>4

\* A page to the end of its range ends with the text of a line.
LEMMA LastPage ==
  ASSUME NEW p \in Pages, Fits(p), NEW d, d = p.doc,
         NEW e, e = Reads!From(p) + p.length, e = p.ends
  PROVE  \E m \in p.start .. Reads!Lines(d) :
           /\ e = Reads!Unbroken(d, Reads!Starts(d)[m], Reads!LineEnd(d, m))
           /\ Reads!Starts(d)[p.start] <= Reads!Starts(d)[m] /\ Reads!Starts(d)[m] <= e
           /\ Count(d, e) = m - 1 /\ m \in 1 .. Reads!Lines(d)
           /\ e # Reads!LineEnd(d, m) => e + 1 <= Len(d) /\ (d[e + 1] = "n" \/ Reads!CrLf(d, e + 1))
<1>1. d \in Docs /\ p.start \in 1 .. Reads!Lines(d) /\ p.max \in Nat \ {0}
  BY DEF Fits, Pages
<1>2. e = Reads!RangeEnd(d, p.start, p.max)
  BY DEF Fits
<1>3. PICK m \in p.start .. Reads!Lines(d) :
           /\ e = Reads!Unbroken(d, Reads!Starts(d)[m], Reads!LineEnd(d, m))
           /\ Reads!Starts(d)[p.start] <= Reads!Starts(d)[m] /\ Reads!Starts(d)[m] <= e
           /\ e <= Reads!LineEnd(d, m) /\ Reads!LineEnd(d, m) <= Len(d)
           /\ Ends(d, e, Reads!LineEnd(d, m))
           /\ e # Reads!LineEnd(d, m) => e + 1 <= Len(d) /\ (d[e + 1] = "n" \/ Reads!CrLf(d, e + 1))
  BY <1>1, <1>2, RangeEndIs
<1>4. m \in 1 .. Reads!Lines(d)
  BY <1>1, <1>3, StartsAre
<1> DEFINE from == Reads!Starts(d)[m]
           to == Reads!LineEnd(d, m)
<1>5. /\ from \in 0 .. Len(d) - 1 /\ to \in (from + 1) .. Len(d) /\ Len(d) \in Nat
      /\ Count(d, from) = m - 1 /\ Count(d, to - 1) = m - 1
  BY <1>1, <1>4, LineIs
<1>6. e \in Int
  <2> DEFINE at == Reads!From(p)
  <2>1. e \in at .. Len(d) /\ at \in Nat /\ Len(d) \in Nat
    BY PageIs
  <2> HIDE DEF at
  <2> QED
    BY <2>1
<1>7. from <= e /\ e <= to /\ Ends(d, e, to)
  BY <1>3
<1> HIDE DEF from, to
<1>8. Count(d, e) = m - 1
  <2>1. from \in Nat /\ to - 1 \in Nat /\ to \in Nat /\ to # 0 /\ e \in Nat
    BY <1>5, <1>6, <1>7
  <2>2. CASE e < to
    <3>1. e <= to - 1
      BY <2>1, <2>2
    <3>2. Count(d, from) <= Count(d, e) /\ Count(d, e) <= Count(d, to - 1)
      BY <1>7, <2>1, <3>1, CountGrows
    <3>3. Count(d, e) \in Nat
      BY <2>1, CountIs
    <3> QED
      BY <1>4, <1>5, <3>2, <3>3
  <2>3. CASE ~(e < to)
    <3>1. e = to
      BY <1>7, <2>1, <2>3
    <3>2. d[e] # "n"
      BY <1>7, <2>1, <3>1 DEF Ends
    <3>3. Count(d, e) = Count(d, to - 1) + 0
      BY <2>1, <3>1, <3>2, CountIs
    <3> QED
      BY <1>4, <1>5, <3>3
  <2> QED
    BY <2>2, <2>3
<1> QED
  BY <1>3, <1>4, <1>8

\* A page that starts with a line and is complete shows all of its lines' text.
LEMMA WholeLines ==
  ASSUME NEW p \in Pages, Fits(p), Reads!StartsWhole(p), p.complete, NEW d, d = p.doc,
         NEW l \in Reads!FirstLine(p) .. Reads!LastLine(p)
  PROVE  Reads!Body(d, l) \subseteq Reads!Shown(p)
<1> DEFINE at == Reads!From(p)
           e == at + p.length
           s == Reads!Starts(d)
           N == Reads!Lines(d)
<1>1. /\ d \in Docs /\ Len(d) \in Nat /\ Len(d) # 0
      /\ s[p.start] \in Nat /\ at = s[p.start] + p.offset
      /\ at \in Nat /\ e \in at .. Len(d) /\ e <= p.ends /\ p.ends <= Len(d)
      /\ e = Len(d) => d[e] # "n"
      /\ Reads!FirstLine(p) = 1 + Count(d, at)
  BY PageIs
<1>2. PICK n \in 1 .. N :
           /\ s[n] <= e /\ Count(d, e) = n - 1
           /\ e < Reads!LineEnd(d, n) \/ (e = Len(d) /\ n = N)
           /\ Reads!LastLine(p) = IF Reads!EndsIn(p, "n") THEN n - 1 ELSE n
  BY PageLine
<1>3. /\ N \in Nat /\ \A i, j \in 1 .. N : i < j => s[i] < s[j]
      /\ \A i \in 1 .. N : s[i] \in 0 .. Len(d) - 1
      /\ \A x \in Breaks(d) : \E i \in 1 .. N : s[i] = x
  <2>1. /\ N \in Nat /\ (\A i, j \in 1 .. N : i < j => s[i] < s[j]) /\ s \in [1 .. N -> 0 .. Len(d) - 1]
        /\ \A x \in Breaks(d) : \E i \in 1 .. N : s[i] = x
    BY <1>1, StartsAre
  <2> HIDE DEF s, N
  <2> QED
    BY <2>1
<1>4. Count(d, at) \in Nat
  BY <1>1, CountIs
<1>5. p.start \in 1 .. N /\ p.ends \in Nat /\ p.offset \in Nat /\ p.length \in Nat
  BY DEF Fits, Pages
<1>6. PICK f \in 1 .. N : s[f] = at /\ Count(d, at) = f - 1
  <2>1. CASE p.offset = 0
    <3>1. s[p.start] = at
      BY <1>1, <2>1
    <3>2. Count(d, s[p.start]) = p.start - 1
      BY <1>1, <1>5, CountAtStart
    <3> QED
      BY <1>5, <3>1, <3>2
  <2>2. CASE p.offset # 0
    <3>1. d[at] = "n" /\ at # 0
      BY <1>1, <1>5, <2>2 DEF Reads!StartsWhole
    <3>2. at # Len(d)
      <4>1. at = Len(d) => e = Len(d)
        BY <1>1
      <4> HIDE DEF e
      <4> QED
        BY <1>1, <3>1, <4>1
    <3>3. at \in 0 .. Len(d) - 1
      BY <1>1, <3>2
    <3>4. at \in Breaks(d)
      BY <3>1, <3>3 DEF Breaks
    <3>5. PICK i \in 1 .. N : s[i] = at
      BY <1>3, <3>4
    <3>6. Count(d, s[i]) = i - 1
      BY <1>1, CountAtStart
    <3> QED
      BY <3>5, <3>6
  <2> QED
    BY <2>1, <2>2
<1> HIDE DEF at, e, s, N
<1>7. l \in 1 .. N /\ f <= l /\ l <= n
  BY <1>1, <1>2, <1>3, <1>6
<1>8. at <= s[l]
  <2>1. f = l \/ s[f] < s[l]
    BY <1>3, <1>7
  <2> QED
    BY <1>1, <1>3, <1>6, <1>7, <2>1
<1> DEFINE from == s[l]
           to == Reads!LineEnd(d, l)
           u == Reads!Unbroken(d, from, to)
<1>9. /\ from \in 0 .. Len(d) - 1 /\ to \in (from + 1) .. Len(d)
      /\ \A i \in (from + 1) .. (to - 1) : d[i] # "n"
      /\ l < N => to = s[l + 1]
  <2>1. d \in Docs \cup {<<>>} /\ l \in 1 .. Reads!Lines(d)
    BY <1>1, <1>7 DEF N
  <2>2. from = Reads!Starts(d)[l] /\ s[l + 1] = Reads!Starts(d)[l + 1] /\ N = Reads!Lines(d)
    BY DEF s, N
  <2>3. to = Reads!LineEnd(d, l)
    OBVIOUS
  <2> HIDE DEF from, to, s, N
  <2>4. /\ from \in 0 .. Len(d) - 1 /\ to \in (from + 1) .. Len(d)
        /\ \A i \in (from + 1) .. (to - 1) : d[i] # "n"
        /\ l < Reads!Lines(d) => to = Reads!Starts(d)[l + 1]
    BY ONLY <2>1, <2>2, <2>3, LineIs
  <2> QED
    BY ONLY <2>2, <2>4
<1>10. u \in from .. to /\ Ends(d, u, to)
  <2>1. from \in 0 .. from
    BY <1>9
  <2> QED
    BY <1>1, <1>7, <2>1, BodyIs DEF s, N
<1> HIDE DEF from, to, u
<1>11. u <= e
  <2>1. CASE l < n
    <3>1. l < N /\ l + 1 \in 1 .. N /\ (l + 1 = n \/ l + 1 < n)
      BY <1>2, <1>3, <1>7, <2>1
    <3>2. s[l + 1] <= s[n]
      BY <1>2, <1>3, <3>1
    <3>3. to <= e
      <4>1. to = s[l + 1] /\ s[l + 1] \in Int /\ s[n] \in Int /\ e \in Int
        BY <1>1, <1>2, <1>3, <1>9, <3>1
      <4> QED
        BY <1>2, <3>2, <4>1
    <3> QED
      BY <1>1, <1>9, <1>10, <3>3
  <2>2. CASE l = n
    <3>1. ~Reads!EndsIn(p, "n")
      BY <1>2, <1>7, <2>2
    <3>2. CASE e = p.ends
      <4>1. PICK m \in p.start .. N :
               /\ e = Reads!Unbroken(d, s[m], Reads!LineEnd(d, m)) /\ Count(d, e) = m - 1 /\ m \in 1 .. N
        BY <3>2, LastPage DEF e, at, s, N
      <4>2. m = n
        BY <1>2, <4>1
      <4> QED
        BY <1>1, <2>2, <4>1, <4>2 DEF u, from, to
    <3>3. CASE e # p.ends
      <4>1. d[e + 1] = "n"
        BY <3>1, <3>3 DEF Fits, Reads!NextChar, e, at
      <4>2. e < to
        BY <1>1, <1>2, <1>5, <2>2, <3>3 DEF to
      <4>3. from <= e
        BY <1>2, <2>2 DEF from
      <4>4. to = e + 1
        <5>1. e + 1 \in (from + 1) .. to
          BY <1>1, <1>9, <4>2, <4>3
        <5>2. e + 1 \notin (from + 1) .. (to - 1)
          BY <1>9, <4>1
        <5> QED
          BY <1>1, <1>9, <5>1, <5>2
      <4>5. u # to
        BY <1>1, <1>9, <4>1, <4>4, <1>10 DEF Ends
      <4> QED
        BY <1>1, <1>9, <1>10, <4>4, <4>5
    <3> QED
      BY <3>2, <3>3
  <2> QED
    BY <1>2, <1>7, <2>1, <2>2
<1>12. Reads!Body(d, l) = (from + 1) .. u
  BY DEF Reads!Body, u, from, to, s
<1>13. Reads!Shown(p) = (at + 1) .. e
  BY DEF Reads!Shown, e, at
<1> QED
  BY <1>1, <1>8, <1>9, <1>10, <1>11, <1>12, <1>13 DEF from

LEMMA DeliveredIs ==
  ASSUME NEW p \in Pages, Fits(p)
  PROVE  LET d == p.doc  e == Reads!From(p) + p.length  r == Reads!Delivered(p) IN
         /\ r \in Spots /\ r[1] = Reads!Normal(d, Reads!From(p))
         /\ r[2] = Reads!Normal(d, e) + (IF Reads!TakesBreak(p) THEN 1 ELSE 0)
         /\ Reads!Normal(d, e) \in Nat
<1> DEFINE d == p.doc
           at == Reads!From(p)
           e == at + p.length
           r == Reads!Delivered(p)
<1>1. at \in Nat /\ e \in at .. Len(d) /\ Len(d) \in Nat
  BY PageIs
<1>2. r = <<Reads!Normal(d, at), Reads!Normal(d, e) + (IF Reads!TakesBreak(p) THEN 1 ELSE 0)>>
  BY DEF Reads!Delivered
<1> HIDE DEF at, e, r
<1>3. at \in Nat /\ e \in Nat /\ at <= e
  BY <1>1
<1>4. Reads!Normal(d, at) \in Nat /\ Reads!Normal(d, e) \in Nat /\ Reads!Normal(d, at) <= Reads!Normal(d, e)
  BY <1>3, NormalIs, NormalGrows
<1>5. r \in Spots
  BY <1>2, <1>4 DEF Spots
<1> QED
  BY <1>2, <1>4, <1>5 DEF at, e, r

\* What a page adds to the record is what it showed, but for a break.
LEMMA ShownIs ==
  ASSUME NEW p \in Pages, Fits(p), NEW d, d = p.doc, NEW k \in 1 .. Len(d),
         d[k] # "n", ~Reads!CrLf(d, k),
         Reads!Delivered(p)[1] <= Reads!Normal(d, k - 1), Reads!Normal(d, k - 1) < Reads!Delivered(p)[2]
  PROVE  k \in Reads!Shown(p)
<1> DEFINE at == Reads!From(p)
           e == at + p.length
           n(i) == Reads!Normal(d, i)
<1>1. at \in Nat /\ e \in at .. Len(d) /\ Len(d) \in Nat
  BY PageIs
<1>2. n(at) <= n(k - 1) /\ n(k - 1) < n(e) + (IF Reads!TakesBreak(p) THEN 1 ELSE 0)
  BY DeliveredIs
<1>3. Reads!Shown(p) = (at + 1) .. e
  BY DEF Reads!Shown
<1>4. Reads!TakesBreak(p) => e + 1 <= Len(d) /\ (d[e + 1] = "n" \/ Reads!CrLf(d, e + 1))
  BY DEF Reads!TakesBreak, Reads!NextChar
<1> HIDE DEF at, e, n
<1>5. \A i \in Nat : n(i) \in Nat
  BY NormalIs DEF n
<1>6. \A i, j \in Nat : i <= j => n(i) <= n(j)
  BY NormalGrows DEF n
<1>7. \A i \in Nat : i # 0 => n(i) = n(i - 1) + (IF Reads!CrLf(d, i) THEN 0 ELSE 1)
  BY NormalIs DEF n
<1>8. at < k
  <2> SUFFICES ASSUME k <= at PROVE FALSE
    BY <1>1
  <2>1. k \in Nat /\ k # 0 /\ k - 1 \in Nat
    OBVIOUS
  <2>2. n(k) = n(k - 1) + 1
    BY <1>7, <2>1
  <2>3. n(k) <= n(at) /\ n(at) \in Nat /\ n(k - 1) \in Nat
    BY <1>1, <1>5, <1>6, <2>1
  <2> QED
    BY <1>2, <2>2, <2>3
<1>9. k <= e
  <2> SUFFICES ASSUME e < k PROVE FALSE
    BY <1>1
  <2>1. e \in Nat /\ k - 1 \in Nat /\ e <= k - 1
    BY <1>1
  <2>2. n(e) <= n(k - 1) /\ n(e) \in Nat /\ n(k - 1) \in Nat
    BY <1>5, <1>6, <2>1
  <2>3. Reads!TakesBreak(p) /\ n(k - 1) = n(e)
    BY <1>2, <2>2
  <2>4. e + 1 <= Len(d) /\ (d[e + 1] = "n" \/ Reads!CrLf(d, e + 1))
    BY <1>4, <2>3
  <2>5. k # e + 1
    BY <2>4
  <2>6. e + 1 \in Nat /\ (e + 1) - 1 = e /\ e + 1 <= k - 1 /\ e + 1 # 0
    BY <2>1, <2>5
  <2>7. n(e + 1) <= n(k - 1) /\ n(e + 1) \in Nat
    BY <1>5, <1>6, <2>1, <2>6
  <2>8. n(e + 1) = n(e) + (IF Reads!CrLf(d, e + 1) THEN 0 ELSE 1)
    BY <1>7, <2>6
  <2>9. Reads!CrLf(d, e + 1)
    BY <2>2, <2>3, <2>7, <2>8
  <2>10. d[(e + 1) + 1] = "n"
    BY <2>9 DEF Reads!CrLf
  <2>11. k # (e + 1) + 1
    BY <2>10
  <2>12. (e + 1) + 1 \in Nat /\ ((e + 1) + 1) - 1 = e + 1 /\ (e + 1) + 1 <= k - 1 /\ (e + 1) + 1 # 0
    BY <2>1, <2>6, <2>11
  <2>13. ~Reads!CrLf(d, (e + 1) + 1)
    BY <2>10 DEF Reads!CrLf
  <2>14. n((e + 1) + 1) = n(e + 1) + 1 /\ n((e + 1) + 1) <= n(k - 1)
    BY <1>6, <1>7, <2>1, <2>12, <2>13
  <2> QED
    BY <2>2, <2>3, <2>7, <2>8, <2>9, <2>14
<1> QED
  BY <1>1, <1>3, <1>8, <1>9

\* A line and its break come before the next one.
LEMMA SpanBeforeNext ==
  ASSUME NEW d \in Docs, NEW l \in 1 .. Reads!Lines(d), l < Reads!Lines(d)
  PROVE  Reads!Span(d, l)[2] <= Reads!Normal(d, Reads!Starts(d)[l + 1])
<1> DEFINE from == Reads!Starts(d)[l]
           to == Reads!LineEnd(d, l)
           u == Reads!Unbroken(d, from, to)
<1>1. /\ from \in 0 .. Len(d) - 1 /\ to \in (from + 1) .. Len(d) /\ Len(d) \in Nat
      /\ to = Reads!Starts(d)[l + 1] /\ d[to] = "n"
  BY LineIs
<1>2. u \in from .. to /\ Ends(d, u, to) /\ \A k \in (from + 1) .. u : ~Reads!CrLf(d, k)
  <2>1. from \in 0 .. from
    BY <1>1
  <2> QED
    BY <2>1, BodyIs
<1>3. Reads!Span(d, l)[2] = Reads!Normal(d, from) + (IF u = from THEN 1 ELSE u - from)
  BY SpanIs
<1> HIDE DEF from, to, u
<1>4. u <= to - 1 /\ to - 1 \in Nat /\ to \in Nat /\ to # 0 /\ u \in Nat /\ from \in Nat /\ from <= u
  BY <1>1, <1>2 DEF Ends
<1>5. Reads!Normal(d, u) = Reads!Normal(d, from) + (u - from)
  BY <1>2, <1>4, NormalGrows
<1>6. Reads!Normal(d, u) <= Reads!Normal(d, to - 1)
  BY <1>4, NormalGrows
<1>7. Reads!Normal(d, to) = Reads!Normal(d, to - 1) + 1
  <2>1. ~Reads!CrLf(d, to)
    BY <1>1 DEF Reads!CrLf
  <2> QED
    BY <1>4, <2>1, NormalIs
<1>8. Reads!Normal(d, from) \in Nat /\ Reads!Normal(d, u) \in Nat /\ Reads!Normal(d, to - 1) \in Nat
  BY <1>4, NormalIs
<1>9. Reads!Span(d, l)[2] <= Reads!Normal(d, to)
  BY <1>3, <1>4, <1>5, <1>6, <1>7, <1>8
<1> QED
  BY <1>1, <1>9

\* A page to the end of its range reaches past every line up to its last one.
LEMMA LinesReached ==
  ASSUME NEW p \in Pages, Fits(p), ~p.truncated, NEW d, d = p.doc,
         NEW l \in p.start .. Reads!LastLine(p)
  PROVE  /\ l \in 1 .. Reads!Lines(d)
         /\ Reads!Normal(d, Reads!Starts(d)[p.start]) <= Reads!Span(d, l)[1]
         /\ Reads!Span(d, l)[2] <= Reads!Delivered(p)[2]
<1> DEFINE at == Reads!From(p)
           e == at + p.length
           s == Reads!Starts(d)
           N == Reads!Lines(d)
<1>1. /\ d \in Docs /\ Len(d) \in Nat /\ at \in Nat /\ e \in at .. Len(d)
      /\ Reads!LastLine(p) = 1 + Count(d, e) - (IF Reads!EndsIn(p, "n") THEN 1 ELSE 0)
  BY PageIs
<1>2. p.complete /\ e = p.ends /\ p.start \in 1 .. N
  BY DEF Fits
<1>3. PICK m \in p.start .. N :
           /\ e = Reads!Unbroken(d, s[m], Reads!LineEnd(d, m))
           /\ s[p.start] <= s[m] /\ s[m] <= e
           /\ Count(d, e) = m - 1 /\ m \in 1 .. N
           /\ e # Reads!LineEnd(d, m) => e + 1 <= Len(d) /\ (d[e + 1] = "n" \/ Reads!CrLf(d, e + 1))
  BY <1>2, LastPage
<1>4. /\ N \in Nat /\ (\A i, j \in 1 .. N : i < j => s[i] < s[j]) /\ \A i \in 1 .. N : s[i] \in Nat
  <2>1. /\ N \in Nat /\ (\A i, j \in 1 .. N : i < j => s[i] < s[j]) /\ s \in [1 .. N -> 0 .. Len(d) - 1]
    BY <1>1, StartsAre
  <2> HIDE DEF s, N
  <2> QED
    BY <1>1, <2>1
<1>5. /\ Reads!Delivered(p)[2] = Reads!Normal(d, e) + (IF Reads!TakesBreak(p) THEN 1 ELSE 0)
      /\ Reads!Normal(d, e) \in Nat
  BY DeliveredIs
<1>6. Reads!TakesBreak(p) <=> e + 1 <= Len(d) /\ (d[e + 1] = "n" \/ Reads!CrLf(d, e + 1))
  BY <1>2 DEF Reads!TakesBreak, Reads!NextChar
<1> HIDE DEF at, e, s, N
<1>7. l \in 1 .. N /\ l <= m /\ p.start <= l
  BY <1>1, <1>2, <1>3, <1>4
<1> DEFINE from == s[l]
           u == Reads!Unbroken(d, from, Reads!LineEnd(d, l))
<1>8. /\ from \in Nat /\ u \in Nat /\ from <= u
      /\ Reads!Span(d, l)[1] = Reads!Normal(d, from)
      /\ Reads!Span(d, l)[2] = Reads!Normal(d, from) + (IF u = from THEN 1 ELSE u - from)
      /\ \A k \in (from + 1) .. u : ~Reads!CrLf(d, k)
  BY <1>1, <1>7, SpanIs DEF s, N
<1>9. Reads!Normal(d, s[p.start]) <= Reads!Span(d, l)[1]
  <2>1. p.start = l \/ s[p.start] < s[l]
    BY <1>2, <1>4, <1>7
  <2>2. s[p.start] \in Nat /\ s[l] \in Nat /\ s[p.start] <= s[l]
    BY <1>2, <1>4, <1>7, <2>1
  <2>3. Reads!Normal(d, s[p.start]) <= Reads!Normal(d, s[l])
    BY <2>2, NormalGrows
  <2> QED
    BY <1>8, <2>3
<1>10. Reads!Span(d, l)[2] <= Reads!Delivered(p)[2]
  <2>1. CASE l # m
    <3>1. l < N /\ l + 1 \in 1 .. N /\ (l + 1 = m \/ l + 1 < m)
      BY <1>3, <1>4, <1>7, <2>1
    <3>2. s[l + 1] \in Nat /\ s[m] \in Nat /\ s[l + 1] <= s[m]
      BY <1>3, <1>4, <3>1
    <3>3. e \in Nat /\ s[l + 1] <= e
      BY <1>1, <1>3, <3>2
    <3>4. Reads!Normal(d, s[l + 1]) <= Reads!Normal(d, e) /\ Reads!Normal(d, s[l + 1]) \in Nat
      BY <3>2, <3>3, NormalGrows, NormalIs
    <3>5. Reads!Span(d, l)[2] <= Reads!Normal(d, s[l + 1])
      BY <1>1, <1>7, <3>1, SpanBeforeNext DEF s, N
    <3>6. Reads!Span(d, l)[2] \in Int
      BY <1>8, NormalIs
    <3> QED
      BY <1>5, <3>4, <3>5, <3>6
  <2>2. CASE l = m
    <3>1. u = e
      BY <1>3, <2>2
    <3>2. Reads!Normal(d, e) = Reads!Normal(d, from) + (e - from)
      BY <1>8, <3>1, NormalGrows
    <3>3. CASE u # from
      BY <1>5, <1>8, <3>1, <3>2, <3>3
    <3>4. CASE u = from
      <4>1. Reads!LineEnd(d, m) \in (s[m] + 1) .. Len(d)
        BY <1>1, <1>3, LineIs DEF s, N
      <4>2. e # Reads!LineEnd(d, m)
        BY <1>1, <1>8, <2>2, <3>1, <3>4, <4>1
      <4>3. Reads!TakesBreak(p)
        BY <1>3, <1>6, <4>2
      <4>4. Reads!Normal(d, e) = Reads!Normal(d, from)
        BY <3>1, <3>4
      <4> QED
        BY <1>5, <1>8, <3>4, <4>3, <4>4
    <3> QED
      BY <3>3, <3>4
  <2> QED
    BY <2>1, <2>2
<1> QED
  BY <1>7, <1>9, <1>10 DEF s, N

ReadsTyped ==
  /\ file \in Docs /\ readEdits \in 0 .. MaxReadEdits /\ readAt \in {"idle", "read", "delivered"}
  /\ page \in Pages /\ coverage \in [hash : Docs \cup {<<>>}, ranges : Seq(Spots)]
  /\ cursor \in [doc : Docs \cup {<<>>}, start : Nat, max : Nat, offset : Nat]
  /\ chain \in [doc : Docs \cup {<<>>}, start : Nat, max : Nat, next : Nat]
  /\ shown \subseteq 1 .. Len(coverage.hash)

\* A cursor and a page are of a range of lines of the text they were taken from.
OfRange ==
  /\ readAt # "idle" => Fits(page)
  /\ cursor # Reads!NoCursor =>
       cursor.doc \in Docs /\ cursor.start \in 1 .. Reads!Lines(cursor.doc) /\ cursor.max # 0

\* The ranges are apart, and a character in one of them was shown, or is a break.
OnlyShown ==
  /\ Parted(coverage.ranges)
  /\ LET d == coverage.hash IN
     \A k \in 1 .. Len(d) :
       d[k] # "n" /\ ~Reads!CrLf(d, k) /\ Within(coverage.ranges, Reads!Normal(d, k - 1)) => k \in shown

\* The pages of a chain are in one range, from the start of their first line.
FromStart(to) == <<Reads!Normal(chain.doc, Reads!Starts(chain.doc)[chain.start]), to>>
Linked ==
  chain # Reads!NoChain =>
    /\ chain.doc = coverage.hash /\ chain.doc \in Docs /\ chain.start \in 1 .. Reads!Lines(chain.doc)
    /\ Holds(coverage.ranges,
             FromStart(Reads!Normal(chain.doc, Reads!Starts(chain.doc)[chain.start] + chain.next)))
    /\ readAt = "delivered" =>
         /\ chain.doc = page.doc /\ chain.start = page.start
         /\ Holds(coverage.ranges, FromStart(Reads!Delivered(page)[2]))

ReadsInv == ReadsTyped /\ OfRange /\ OnlyShown /\ Linked

LEMMA ReadsInit == Reads!Init => ReadsInv
<1> SUFFICES ASSUME Reads!Init PROVE ReadsInv
  OBVIOUS
<1> USE DEF Reads!Init
<1>1. page \in Pages
  BY DEF Reads!NoPage, Pages
<1>2. coverage \in [hash : Docs \cup {<<>>}, ranges : Seq(Spots)] /\ shown \subseteq 1 .. Len(coverage.hash)
  OBVIOUS
<1>3. cursor \in [doc : Docs \cup {<<>>}, start : Nat, max : Nat, offset : Nat]
  BY DEF Reads!NoCursor
<1>4. chain \in [doc : Docs \cup {<<>>}, start : Nat, max : Nat, next : Nat]
  BY DEF Reads!NoChain
<1>5. readEdits \in 0 .. MaxReadEdits
  BY ReadsAssumption
<1>6. Parted(coverage.ranges)
  BY DEF Parted
<1>7. \A k \in 1 .. Len(coverage.hash) : FALSE
  OBVIOUS
<1>8. OfRange /\ Linked
  BY DEF OfRange, Linked
<1> QED
  BY <1>1, <1>2, <1>3, <1>4, <1>5, <1>6, <1>7, <1>8 DEF ReadsInv, ReadsTyped, OnlyShown

\* What a page's text is, does not depend on what is said of it.
LEMMA SamePage ==
  ASSUME NEW p \in Pages, NEW q \in Pages,
         q.doc = p.doc, q.start = p.start, q.offset = p.offset, q.length = p.length
  PROVE  /\ Reads!From(q) = Reads!From(p) /\ Reads!NextChar(q) = Reads!NextChar(p)
         /\ Reads!EndsIn(q, "n") = Reads!EndsIn(p, "n")
BY DEF Reads!From, Reads!NextChar, Reads!EndsIn

LEMMA ReadKeeps ==
  ASSUME ReadsInv, NEW start \in 1 .. Reads!Lines(file), NEW max \in Nat \ {0},
         NEW offset \in Nat, NEW length \in Nat, Reads!Read(start, max, offset, length)
  PROVE  ReadsInv'
<1> DEFINE d == file
           lastTo == Reads!RangeEnd(d, start, max)
           from == Reads!Starts(d)[start]
           room == lastTo - from - offset
           p == [doc |-> d, start |-> start, max |-> max, offset |-> offset, length |-> length,
                 complete |-> FALSE, truncated |-> length < room, ends |-> lastTo]
           q == [p EXCEPT !.complete = Reads!CompleteAt(p, lastTo)]
<1>1. /\ room >= 0 /\ length <= room /\ readAt' = "read" /\ page' = q
      /\ UNCHANGED <<file, readEdits, coverage, cursor, shown, chain>>
  BY DEF Reads!Read
<1>2. d \in Docs
  BY DEF ReadsInv, ReadsTyped
<1>3. from \in 0 .. Len(d) - 1 /\ Len(d) \in Nat
  BY <1>2, LineIs
<1>4. lastTo \in Nat
  <2>1. PICK m \in start .. Reads!Lines(d) :
           /\ Reads!Starts(d)[m] <= lastTo /\ Ends(d, lastTo, Reads!LineEnd(d, m))
    BY <1>2, RangeEndIs
  <2>2. m \in 1 .. Reads!Lines(d)
    BY <1>2, StartsAre
  <2>3. Reads!Starts(d)[m] \in 0 .. Len(d) - 1 /\ Reads!LineEnd(d, m) \in (Reads!Starts(d)[m] + 1) .. Len(d)
    BY <1>2, <2>2, LineIs
  <2> DEFINE to == Reads!LineEnd(d, m)
  <2>4. Reads!Starts(d)[m] \in Nat /\ to \in Int /\ Reads!Starts(d)[m] <= lastTo /\ Ends(d, lastTo, to)
    BY <2>1, <2>3
  <2> HIDE DEF lastTo, to
  <2>5. lastTo = to \/ lastTo = to - 1 \/ lastTo = to - 2
    BY <2>4 DEF Ends
  <2> QED
    BY <2>4, <2>5
<1> HIDE DEF lastTo, from
<1>5. room \in Nat /\ (length < room) \in BOOLEAN
  BY <1>1, <1>3, <1>4
<1>6. p \in Pages
  BY <1>2, <1>4, <1>5 DEF Pages
<1>7. Reads!CompleteAt(p, lastTo) \in BOOLEAN
  BY DEF Reads!CompleteAt
<1>8. q \in Pages
  BY <1>6, <1>7 DEF Pages
<1>9. /\ p.doc = d /\ p.start = start /\ p.max = max /\ p.offset = offset /\ p.length = length
      /\ p.truncated = (length < room) /\ p.ends = lastTo
      /\ q.doc = d /\ q.start = start /\ q.max = max /\ q.offset = offset /\ q.length = length
      /\ q.truncated = (length < room) /\ q.ends = lastTo /\ q.complete = Reads!CompleteAt(p, lastTo)
  OBVIOUS
<1> HIDE DEF p, q
<1>10. /\ Reads!From(q) = Reads!From(p) /\ Reads!NextChar(q) = Reads!NextChar(p)
       /\ Reads!EndsIn(q, "n") = Reads!EndsIn(p, "n")
  BY <1>6, <1>8, <1>9, SamePage
<1>11. Reads!From(p) = from + offset /\ Reads!NextChar(p) = from + offset + length + 1
  BY <1>9 DEF Reads!From, Reads!NextChar, from
<1>12. from + offset + length <= lastTo /\ (~(length < room) <=> from + offset + length = lastTo)
  BY <1>1, <1>3, <1>4
<1>13. from + offset + length + 1 > lastTo <=> from + offset + length = lastTo
  BY <1>3, <1>4, <1>12
<1>14. Reads!CompleteAt(p, lastTo) =>
         Reads!EndsIn(p, "n") \/ from + offset + length = lastTo \/ d[Reads!NextChar(p)] = "n"
  BY <1>9, <1>11, <1>13 DEF Reads!CompleteAt
<1>15. from + offset + length = lastTo => Reads!CompleteAt(p, lastTo)
  BY <1>11, <1>13 DEF Reads!CompleteAt
<1>16. Fits(q)
  <2>1. q.doc \in Docs /\ q.start \in 1 .. Reads!Lines(q.doc) /\ q.max # 0
    BY <1>2, <1>9
  <2>2. q.ends = Reads!RangeEnd(q.doc, q.start, q.max)
    BY <1>9 DEF lastTo
  <2>3. Reads!From(q) + q.length = from + offset + length
    BY <1>9, <1>10, <1>11
  <2> QED
    BY <1>9, <1>10, <1>12, <1>14, <1>15, <2>1, <2>2, <2>3 DEF Fits
<1>17. ReadsTyped'
  BY <1>1, <1>8 DEF ReadsInv, ReadsTyped
<1>18. OfRange'
  BY <1>1, <1>16 DEF ReadsInv, OfRange, Reads!NoCursor
<1>19. OnlyShown' /\ Linked'
  BY <1>1 DEF ReadsInv, OnlyShown, Linked, FromStart, Reads!NoChain
<1> QED
  BY <1>17, <1>18, <1>19 DEF ReadsInv

LEMMA CutKeeps ==
  ASSUME ReadsInv, NEW length \in 1 .. Len(page.doc), Reads!Cut(length)
  PROVE  ReadsInv'
<1> DEFINE p == [page EXCEPT !.length = length, !.truncated = TRUE]
           breaks == Reads!EndsIn(p, "n") \/ (p.doc[Reads!NextChar(p)] = "n" /\ ~Reads!EndsIn(p, "r"))
           whole == IF length < page.length THEN breaks ELSE page.complete
           q == [p EXCEPT !.complete = whole]
<1>1. /\ readAt = "read" /\ length \in 1 .. page.length /\ page' = q
      /\ UNCHANGED <<file, readEdits, coverage, cursor, readAt, shown, chain>>
  BY DEF Reads!Cut
<1>2. page \in Pages /\ Fits(page)
  BY <1>1 DEF ReadsInv, ReadsTyped, OfRange
<1>3. length \in Nat /\ page.length \in Nat /\ length <= page.length
  BY <1>1, <1>2 DEF Pages
<1>4. p \in Pages
  BY <1>2, <1>3 DEF Pages
<1>5. whole \in BOOLEAN
  BY <1>2 DEF Pages
<1> HIDE DEF whole
<1>6. q \in Pages
  BY <1>4, <1>5 DEF Pages
<1>7. /\ p.doc = page.doc /\ p.start = page.start /\ p.offset = page.offset /\ p.length = length
      /\ q.doc = page.doc /\ q.start = page.start /\ q.offset = page.offset /\ q.length = length
      /\ q.max = page.max /\ q.ends = page.ends /\ q.truncated /\ q.complete = whole
  BY <1>2 DEF Pages
<1> HIDE DEF p, q
<1>8. /\ Reads!From(q) = Reads!From(p) /\ Reads!NextChar(q) = Reads!NextChar(p)
      /\ Reads!EndsIn(q, "n") = Reads!EndsIn(p, "n")
  BY <1>4, <1>6, <1>7, SamePage
<1>9. Reads!From(q) = Reads!From(page)
  BY <1>7 DEF Reads!From
<1>10. Reads!From(q) + q.length <= q.ends
  <2> DEFINE at == Reads!From(page)
  <2>1. at \in Nat /\ at + page.length <= page.ends /\ page.ends \in Nat
    BY <1>2, PageIs DEF Fits, Pages
  <2> HIDE DEF at
  <2>2. at + length <= page.ends
    BY <1>3, <2>1
  <2> QED
    BY <1>7, <1>9, <2>2 DEF at
<1>11. Fits(q)
  <2>1. length < page.length /\ whole =>
          Reads!EndsIn(p, "n") \/ p.doc[Reads!NextChar(p)] = "n"
    BY DEF whole
  <2>3. ~(length < page.length) /\ whole =>
          \/ Reads!EndsIn(q, "n") \/ Reads!From(q) + q.length = q.ends
          \/ q.doc[Reads!NextChar(q)] = "n"
    <3>1. SUFFICES ASSUME ~(length < page.length), whole
                   PROVE  \/ Reads!EndsIn(q, "n") \/ Reads!From(q) + q.length = q.ends
                          \/ q.doc[Reads!NextChar(q)] = "n"
      OBVIOUS
    <3>2. page.complete /\ q.length = page.length
      BY <1>3, <1>7, <3>1 DEF whole
    <3>3. /\ Reads!NextChar(q) = Reads!NextChar(page)
          /\ Reads!EndsIn(q, "n") = Reads!EndsIn(page, "n")
      BY <1>2, <1>6, <1>7, <3>2, SamePage
    <3> QED
      BY <1>2, <1>7, <1>9, <3>2, <3>3 DEF Fits
  <2>2. /\ q.doc \in Docs /\ q.start \in 1 .. Reads!Lines(q.doc) /\ q.max # 0
        /\ q.ends = Reads!RangeEnd(q.doc, q.start, q.max)
    BY <1>2, <1>7 DEF Fits
  <2> QED
    BY <1>7, <1>8, <1>10, <2>1, <2>2, <2>3 DEF Fits
<1>12. ReadsTyped'
  BY <1>1, <1>6 DEF ReadsInv, ReadsTyped
<1>13. OfRange'
  BY <1>1, <1>11 DEF ReadsInv, OfRange, Reads!NoCursor
<1>14. OnlyShown' /\ Linked'
  BY <1>1 DEF ReadsInv, OnlyShown, Linked, FromStart, Reads!NoChain
<1> QED
  BY <1>12, <1>13, <1>14 DEF ReadsInv

\* Two ranges of which one goes on where the other ends are in the same one.
LEMMA HoldsBoth ==
  ASSUME NEW q, Parted(q), NEW a \in Nat, NEW b \in Nat, NEW c \in Nat, NEW e \in Nat,
         a <= b, b <= c, c <= e, Holds(q, <<a, c>>), Holds(q, <<b, e>>)
  PROVE  Holds(q, <<a, e>>)
<1>1. q \in Seq(Spots) /\ \A i, j \in 1 .. Len(q) : i < j => q[i][2] < q[j][1]
  BY DEF Parted
<1>2. PICK i \in 1 .. Len(q) : q[i][1] <= a /\ c <= q[i][2]
  BY DEF Holds
<1>3. PICK j \in 1 .. Len(q) : q[j][1] <= b /\ e <= q[j][2]
  BY DEF Holds
<1>4. q[i][1] \in Nat /\ q[i][2] \in Nat /\ q[j][1] \in Nat /\ q[j][2] \in Nat
  BY <1>1, SpotIs
<1>5. i < j => q[i][2] < q[j][1]
  BY <1>1
<1>7. j < i => q[j][2] < q[i][1]
  BY <1>1
<1>8. ~(i < j) /\ ~(j < i)
  BY <1>2, <1>3, <1>4, <1>5, <1>7
<1>6. i = j
  BY <1>1, <1>8
<1> QED
  BY <1>2, <1>3, <1>6 DEF Holds

LEMMA HoldsLess ==
  ASSUME NEW q, Parted(q), NEW a \in Nat, NEW b \in Nat, NEW c \in Nat, NEW e \in Nat,
         a <= b, c <= e, Holds(q, <<a, e>>)
  PROVE  Holds(q, <<b, c>>)
<1>1. q \in Seq(Spots)
  BY DEF Parted
<1>2. PICK i \in 1 .. Len(q) : q[i][1] <= a /\ e <= q[i][2]
  BY DEF Holds
<1>3. q[i][1] \in Nat /\ q[i][2] \in Nat
  BY <1>1, SpotIs
<1>4. q[i][1] <= b /\ c <= q[i][2]
  BY <1>2, <1>3
<1> QED
  BY <1>4 DEF Holds

\* The ranges that were recorded, and the one that was delivered, as a set.
Collects(R, q, r) ==
  /\ R \in SUBSET Spots /\ IsFiniteSet(R) /\ r \in R /\ \A i \in 1 .. Len(q) : q[i] \in R
  /\ \A s \in R : s = r \/ \E i \in 1 .. Len(q) : s = q[i]

LEMMA RangesAre ==
  ASSUME NEW q \in Seq(Spots), NEW r \in Spots
  PROVE  Collects(Reads!Range(q) \cup {r}, q, r)
<1> DEFINE S == {q[i] : i \in 1 .. Len(q)}
<1>1. DOMAIN q = 1 .. Len(q) /\ Len(q) \in Nat
  OBVIOUS
<1>2. Reads!Range(q) = S
  BY <1>1 DEF Reads!Range
<1>3. S \in SUBSET Spots /\ (\A i \in 1 .. Len(q) : q[i] \in S) /\ \A s \in S : \E i \in 1 .. Len(q) : s = q[i]
  OBVIOUS
<1> HIDE DEF S
<1>4. IsFiniteSet(S)
  <2> DEFINE m == Len(q)
  <2>1. q \in Surjection(1 .. m, S)
    BY <1>1, <1>3 DEF Surjection
  <2>2. m \in Nat
    BY <1>1
  <2> HIDE DEF m
  <2>3. IsFiniteSet(1 .. m)
    BY <2>2, FS_Interval
  <2> QED
    BY <2>1, <2>3, FS_Surjection
<1>5. IsFiniteSet(S \cup {r})
  BY <1>4, FS_AddElement
<1>6. Collects(S \cup {r}, q, r)
  BY <1>3, <1>5 DEF Collects
<1> QED
  BY <1>2, <1>6

LEMMA DeliverKeeps == ASSUME ReadsInv, Reads!Deliver PROVE ReadsInv'
<1> DEFINE p == page
           d == p.doc
           same == coverage.hash = d
           oldRanges == IF same THEN coverage.ranges ELSE <<>>
           old == Reads!Recent(d)
           D == Reads!Delivered(p)
           t == Reads!Merged(old \cup {D})
           at == Reads!From(p)
           e == at + p.length
           n(i) == Reads!Normal(d, i)
           S == Reads!Starts(d)[p.start]
<1>1. /\ readAt = "read" /\ readAt' = "delivered" /\ UNCHANGED <<file, readEdits, page>>
      /\ cursor' = IF p.truncated THEN [doc |-> p.doc, start |-> p.start, max |-> p.max,
                                        offset |-> p.offset + p.length] ELSE cursor
  BY DEF Reads!Deliver
<1>2. p \in Pages /\ Fits(p)
  BY <1>1 DEF ReadsInv, ReadsTyped, OfRange
<1>3. /\ d \in Docs /\ p.start \in 1 .. Reads!Lines(d) /\ p.max \in Nat \ {0} /\ p.offset \in Nat
      /\ p.length \in Nat /\ p.start \in Nat
  BY <1>2, StartsAre DEF Fits, Pages
<1>4. /\ Len(d) \in Nat /\ S \in Nat /\ at = S + p.offset /\ at \in Nat /\ e \in at .. Len(d)
  BY <1>2, PageIs
<1>5. /\ cursor' \in [doc : Docs \cup {<<>>}, start : Nat, max : Nat, offset : Nat]
      /\ cursor' # Reads!NoCursor =>
           cursor'.doc \in Docs /\ cursor'.start \in 1 .. Reads!Lines(cursor'.doc) /\ cursor'.max # 0
  <2>1. CASE p.truncated
    <3>1. cursor' = [doc |-> p.doc, start |-> p.start, max |-> p.max, offset |-> p.offset + p.length]
      BY <1>1, <2>1
    <3>2. p.offset + p.length \in Nat
      BY <1>3
    <3> QED
      BY <1>3, <3>1, <3>2
  <2>2. CASE ~p.truncated
    BY <1>1, <2>2 DEF ReadsInv, ReadsTyped, OfRange
  <2> QED
    BY <2>1, <2>2
<1>6. OfRange'
  BY <1>1, <1>2, <1>5 DEF OfRange, Reads!NoCursor
<1>7. CASE ~Reads!Recorded(p)
  <2>1. chain' = Reads!NoChain /\ UNCHANGED <<coverage, shown>>
    BY <1>7 DEF Reads!Deliver
  <2>2. ReadsTyped'
    <3>1. Reads!NoChain \in [doc : Docs \cup {<<>>}, start : Nat, max : Nat, next : Nat]
      BY DEF Reads!NoChain
    <3> QED
      BY <1>1, <1>5, <2>1, <3>1 DEF ReadsInv, ReadsTyped
  <2>3. OnlyShown' /\ Linked'
    BY <2>1 DEF ReadsInv, OnlyShown, Linked, Reads!NoChain
  <2> QED
    BY <1>6, <2>2, <2>3 DEF ReadsInv
<1>8. CASE Reads!Recorded(p)
  <2> DEFINE next == [doc |-> p.doc, start |-> p.start, max |-> p.max, next |-> p.offset + p.length]
             follows == (same \/ p.offset = 0) /\ Reads!Follows(p)
  <2>1. /\ coverage' = [hash |-> d, ranges |-> t]
        /\ shown' = (IF same THEN shown ELSE {}) \cup Reads!Shown(p)
        /\ chain' = IF follows THEN next ELSE Reads!NoChain
    BY <1>8 DEF Reads!Deliver
  <2>2. D \in Spots /\ D[1] = n(at) /\ D[2] = n(e) + (IF Reads!TakesBreak(p) THEN 1 ELSE 0)
        /\ n(e) \in Nat
    BY <1>2, DeliveredIs
  <2>3. oldRanges \in Seq(Spots) /\ old \cup {D} = Reads!Range(oldRanges) \cup {D}
    <3>1. Reads!Range(<<>>) = {}
      BY DEF Reads!Range
    <3> QED
      BY <3>1 DEF ReadsInv, ReadsTyped, Reads!Recent
  <2> HIDE DEF oldRanges, old, t, D
  <2>4. /\ old \cup {D} \in SUBSET Spots /\ IsFiniteSet(old \cup {D}) /\ D \in old \cup {D}
        /\ \A i \in 1 .. Len(oldRanges) : oldRanges[i] \in old \cup {D}
        /\ \A s \in old \cup {D} : s = D \/ \E i \in 1 .. Len(oldRanges) : s = oldRanges[i]
    BY <2>2, <2>3, RangesAre DEF Collects
  <2>5. /\ Parted(t) /\ \A r \in old \cup {D} : Holds(t, r)
        /\ \A x \in Nat : Within(t, x) => \E r \in old \cup {D} : r[1] <= x /\ x < r[2]
    <3> DEFINE R == old \cup {D}
    <3>1. R \in SUBSET Spots /\ IsFiniteSet(R) /\ t = Reads!Merged(R)
      BY <2>4 DEF t
    <3> HIDE DEF R
    <3>2. /\ Parted(t) /\ \A r \in R : Holds(t, r)
          /\ \A x \in Nat : Within(t, x) => \E r \in R : r[1] <= x /\ x < r[2]
      BY <3>1, MergedIs
    <3> QED
      BY <3>2 DEF R
  <2>6. OnlyShown'
    <3> SUFFICES ASSUME NEW k \in 1 .. Len(d), d[k] # "n", ~Reads!CrLf(d, k), Within(t, n(k - 1))
                 PROVE  k \in (IF same THEN shown ELSE {}) \cup Reads!Shown(p)
      BY <2>1, <2>5 DEF OnlyShown
    <3>1. n(k - 1) \in Nat
      BY NormalIs
    <3>2. PICK r \in old \cup {D} : r[1] <= n(k - 1) /\ n(k - 1) < r[2]
      BY <2>5, <3>1
    <3>3. CASE r = D
      BY <1>2, <3>2, <3>3, ShownIs DEF D
    <3>4. CASE r # D
      <4>1. PICK i \in 1 .. Len(oldRanges) : r = oldRanges[i]
        BY <2>4, <3>4
      <4>2. same
        BY <4>1 DEF oldRanges
      <4>3. Within(coverage.ranges, n(k - 1))
        BY <3>2, <4>1, <4>2 DEF oldRanges, Within
      <4>4. k \in shown
        BY <4>2, <4>3 DEF ReadsInv, OnlyShown
      <4> QED
        BY <4>2, <4>4
    <3> QED
      BY <3>3, <3>4
  <2>7. next \in [doc : Docs \cup {<<>>}, start : Nat, max : Nat, next : Nat] /\ chain' \in {next, Reads!NoChain}
    <3>1. p.offset + p.length \in Nat
      BY <1>3
    <3> QED
      BY <1>3, <2>1, <3>1
  <2>8. Reads!Shown(p) \subseteq 1 .. Len(d)
    BY <1>4 DEF Reads!Shown
  <2>9. ReadsTyped'
    <3>1. Reads!NoChain \in [doc : Docs \cup {<<>>}, start : Nat, max : Nat, next : Nat]
      BY DEF Reads!NoChain
    <3>2. chain' \in [doc : Docs \cup {<<>>}, start : Nat, max : Nat, next : Nat]
      BY <2>7, <3>1
    <3>3. coverage' \in [hash : Docs \cup {<<>>}, ranges : Seq(Spots)]
      BY <1>3, <2>1, <2>5 DEF Parted
    <3>4. shown' \subseteq 1 .. Len(coverage'.hash)
      BY <2>1, <2>8 DEF ReadsInv, ReadsTyped
    <3> QED
      BY <1>1, <1>5, <3>2, <3>3, <3>4 DEF ReadsInv, ReadsTyped
  <2>10. Linked'
    <3>1. CASE ~follows
      BY <2>1, <3>1 DEF Linked
    <3>2. CASE follows
      <4>1. chain' = next /\ coverage' = [hash |-> d, ranges |-> t]
        BY <2>1, <3>2
      <4>2. chain'.doc = d /\ chain'.start = p.start /\ chain'.next = p.offset + p.length
        BY <4>1
      <4>3. S \in Nat /\ at \in Nat /\ e \in Nat /\ S <= at /\ at <= e
        BY <1>3, <1>4
      <4>4. n(S) \in Nat /\ n(at) \in Nat /\ n(S) <= n(at) /\ n(at) <= n(e)
        BY <4>3, NormalIs, NormalGrows
      <4>5. D[2] \in Nat /\ n(e) <= D[2] /\ D = <<n(at), D[2]>>
        BY <2>2 DEF Spots
      <4>6. Holds(t, D)
        BY <2>4, <2>5
      <4>7. Holds(t, <<n(S), D[2]>>)
        <5>1. CASE p.offset = 0
          <6>1. at = S
            BY <1>4, <5>1
          <6> QED
            BY <4>5, <4>6, <6>1
        <5>2. CASE p.offset # 0
          <6>1. same /\ chain = [doc |-> p.doc, start |-> p.start, max |-> p.max, next |-> p.offset]
            BY <3>2, <5>2 DEF Reads!Follows
          <6>2. chain # Reads!NoChain
            BY <1>3, <6>1 DEF Reads!NoChain
          <6>3. Holds(coverage.ranges, <<n(S), n(S + p.offset)>>)
            BY <6>1, <6>2 DEF ReadsInv, Linked, FromStart
          <6>4. Holds(oldRanges, <<n(S), n(at)>>)
            BY <1>4, <6>1, <6>3 DEF oldRanges
          <6>5. PICK i \in 1 .. Len(oldRanges) : oldRanges[i][1] <= n(S) /\ n(at) <= oldRanges[i][2]
            BY <6>4 DEF Holds
          <6>6. Holds(t, oldRanges[i]) /\ oldRanges[i] \in Spots
            BY <2>3, <2>4, <2>5
          <6>7. /\ oldRanges[i][1] \in Nat /\ oldRanges[i][2] \in Nat
                /\ oldRanges[i] = <<oldRanges[i][1], oldRanges[i][2]>>
            BY <6>6 DEF Spots
          <6>8. Holds(t, <<n(S), n(at)>>)
            BY <2>5, <4>4, <6>5, <6>6, <6>7, HoldsLess
          <6>9. Holds(t, <<n(at), D[2]>>)
            BY <4>5, <4>6
          <6> HIDE DEF n, at, S, e
          <6>10. n(at) <= D[2] /\ n(at) <= n(at)
            BY <2>2, <4>4, <4>5
          <6> QED
            BY <2>5, <4>4, <4>5, <6>8, <6>9, <6>10, HoldsBoth
        <5> QED
          BY <5>1, <5>2
      <4>8. Holds(t, <<n(S), n(e)>>)
        <5> DEFINE a == n(S)
                   b == n(e)
                   c == D[2]
        <5>1. a \in Nat /\ b \in Nat /\ c \in Nat /\ a <= a /\ b <= c /\ Holds(t, <<a, c>>)
          BY <2>2, <4>4, <4>5, <4>7
        <5> HIDE DEF a, b, c
        <5>2. Holds(t, <<a, b>>)
          BY <2>5, <5>1, HoldsLess
        <5> QED
          BY <5>2 DEF a, b
      <4>9. S + (p.offset + p.length) = e
        BY <1>3, <1>4
      <4>10. coverage'.hash = d /\ coverage'.ranges = t /\ page' = p
        BY <1>1, <4>1
      <4> HIDE DEF next
      <4> QED
        BY <1>3, <4>2, <4>7, <4>8, <4>9, <4>10 DEF Linked, FromStart, D
    <3> QED
      BY <3>1, <3>2
  <2> QED
    BY <1>6, <2>6, <2>9, <2>10 DEF ReadsInv
<1> QED
  BY <1>7, <1>8

\* What lies between two positions, but for breaks, is what was shown between them.
LEMMA BetweenIs ==
  ASSUME NEW d, Len(d) \in Nat, NEW at \in Nat, NEW e \in at .. Len(d), NEW k \in 1 .. Len(d),
         d[k] # "n", ~Reads!CrLf(d, k),
         Reads!Normal(d, at) <= Reads!Normal(d, k - 1), Reads!Normal(d, k - 1) < Reads!Normal(d, e)
  PROVE  k \in (at + 1) .. e
<1> DEFINE n(i) == Reads!Normal(d, i)
<1>1. n(at) <= n(k - 1) /\ n(k - 1) < n(e)
  OBVIOUS
<1>2. ~Reads!CrLf(d, k)
  OBVIOUS
<1> HIDE DEF n
<1>3. \A i \in Nat : n(i) \in Nat
  BY NormalIs DEF n
<1>4. \A i, j \in Nat : i <= j => n(i) <= n(j)
  BY NormalGrows DEF n
<1>5. \A i \in Nat : i # 0 => n(i) = n(i - 1) + (IF Reads!CrLf(d, i) THEN 0 ELSE 1)
  BY NormalIs DEF n
<1>6. at < k
  <2> SUFFICES ASSUME k <= at PROVE FALSE
    OBVIOUS
  <2>1. k \in Nat /\ k # 0 /\ k - 1 \in Nat
    OBVIOUS
  <2>2. n(k) = n(k - 1) + 1
    BY <1>2, <1>5, <2>1
  <2>3. n(k) <= n(at) /\ n(at) \in Nat /\ n(k - 1) \in Nat
    BY <1>3, <1>4, <2>1
  <2> QED
    BY <1>1, <2>2, <2>3
<1>7. k <= e
  <2> SUFFICES ASSUME e < k PROVE FALSE
    OBVIOUS
  <2>1. e \in Nat /\ k - 1 \in Nat /\ e <= k - 1
    OBVIOUS
  <2>2. n(e) <= n(k - 1) /\ n(e) \in Nat /\ n(k - 1) \in Nat
    BY <1>3, <1>4, <2>1
  <2> QED
    BY <1>1, <2>2
<1> QED
  BY <1>6, <1>7

\* What ranges held, ranges that hold each of them hold.
LEMMA HoldsOn ==
  ASSUME NEW q \in Seq(Spots), NEW t \in Seq(Spots), \A i \in 1 .. Len(q) : Holds(t, q[i]),
         NEW a \in Nat, NEW b \in Nat, Holds(q, <<a, b>>)
  PROVE  Holds(t, <<a, b>>)
<1>1. PICK i \in 1 .. Len(q) : q[i][1] <= a /\ b <= q[i][2]
  BY DEF Holds
<1>2. PICK j \in 1 .. Len(t) : t[j][1] <= q[i][1] /\ q[i][2] <= t[j][2]
  BY DEF Holds
<1>3. q[i][1] \in Nat /\ q[i][2] \in Nat /\ t[j][1] \in Nat /\ t[j][2] \in Nat
  BY SpotIs
<1>4. t[j][1] <= a /\ b <= t[j][2]
  BY <1>1, <1>2, <1>3
<1> QED
  BY <1>4 DEF Holds

LEMMA ShownPartKeeps ==
  ASSUME ReadsInv, NEW start \in 1 .. Reads!Lines(file), NEW offset \in Nat, NEW length \in Nat,
         Reads!Inspect(start, offset, length)
  PROVE  ReadsInv'
<1> DEFINE d == file
           same == coverage.hash = d
           oldRanges == IF same THEN coverage.ranges ELSE <<>>
           old == Reads!Recent(d)
           at == Reads!Starts(d)[start] + offset
           e == at + length
           n(i) == Reads!Normal(d, i)
           D == <<n(at), n(e)>>
           t == Reads!Merged(old \cup {D})
           new == (IF same THEN shown ELSE {}) \cup ((at + 1) .. e)
<1>1. /\ e <= Len(d) /\ coverage' = [hash |-> d, ranges |-> t] /\ shown' = new
      /\ chain' = IF same THEN chain ELSE Reads!NoChain
      /\ UNCHANGED <<file, readEdits, cursor, readAt, page>>
  BY DEF Reads!Inspect
<1>2. d \in Docs
  BY DEF ReadsInv, ReadsTyped
<1>3. /\ Len(d) \in Nat /\ at \in Nat /\ e \in at .. Len(d) /\ e \in Nat
  <2>1. Reads!Starts(d)[start] \in 0 .. Len(d) - 1 /\ Len(d) \in Nat
    BY <1>2, LineIs
  <2> DEFINE from == Reads!Starts(d)[start]
  <2>2. from \in Nat /\ Len(d) \in Nat /\ (from + offset) + length <= Len(d)
    BY <1>1, <2>1
  <2> HIDE DEF from
  <2>3. from + offset \in Nat /\ (from + offset) + length \in (from + offset) .. Len(d)
    BY <2>2
  <2> QED
    BY <2>2, <2>3 DEF from
<1> HIDE DEF at, e
<1>4. n(at) \in Nat /\ n(e) \in Nat /\ n(at) <= n(e)
  BY <1>3, NormalIs, NormalGrows
<1> HIDE DEF n
<1>5. D \in Spots /\ D[1] = n(at) /\ D[2] = n(e)
  BY <1>4 DEF Spots
<1>6. oldRanges \in Seq(Spots) /\ old \cup {D} = Reads!Range(oldRanges) \cup {D}
  <2>1. Reads!Range(<<>>) = {}
    BY DEF Reads!Range
  <2> QED
    BY <2>1 DEF ReadsInv, ReadsTyped, Reads!Recent
<1> HIDE DEF oldRanges, old, t, D, new
<1>7. /\ old \cup {D} \in SUBSET Spots /\ IsFiniteSet(old \cup {D}) /\ D \in old \cup {D}
      /\ \A i \in 1 .. Len(oldRanges) : oldRanges[i] \in old \cup {D}
      /\ \A s \in old \cup {D} : s = D \/ \E i \in 1 .. Len(oldRanges) : s = oldRanges[i]
  <2>1. Collects(Reads!Range(oldRanges) \cup {D}, oldRanges, D)
    BY <1>5, <1>6, RangesAre
  <2>2. Collects(old \cup {D}, oldRanges, D)
    BY <1>6, <2>1
  <2> QED
    BY ONLY <2>2 DEF Collects
<1>8. /\ Parted(t) /\ \A r \in old \cup {D} : Holds(t, r)
      /\ \A x \in Nat : Within(t, x) => \E r \in old \cup {D} : r[1] <= x /\ x < r[2]
  <2> DEFINE R == old \cup {D}
  <2>1. R \in SUBSET Spots /\ IsFiniteSet(R) /\ t = Reads!Merged(R)
    BY <1>7 DEF t
  <2> HIDE DEF R
  <2>2. /\ Parted(t) /\ \A r \in R : Holds(t, r)
        /\ \A x \in Nat : Within(t, x) => \E r \in R : r[1] <= x /\ x < r[2]
    BY <2>1, MergedIs
  <2> QED
    BY <2>2 DEF R
<1>9. OnlyShown'
  <2> SUFFICES ASSUME NEW k \in 1 .. Len(d), d[k] # "n", ~Reads!CrLf(d, k),
                      Within(t, Reads!Normal(d, k - 1))
               PROVE  k \in new
    BY <1>1, <1>8 DEF OnlyShown
  <2>1. n(k - 1) \in Nat
    BY NormalIs DEF n
  <2>2. PICK r \in old \cup {D} : r[1] <= n(k - 1) /\ n(k - 1) < r[2]
    BY <1>8, <2>1 DEF n
  <2>3. CASE r = D
    <3>1. Reads!Normal(d, at) <= Reads!Normal(d, k - 1) /\ Reads!Normal(d, k - 1) < Reads!Normal(d, e)
      BY <1>5, <2>2, <2>3 DEF n
    <3>2. k \in (at + 1) .. e
      BY <1>3, <3>1, BetweenIs
    <3> QED
      BY <3>2 DEF new
  <2>4. CASE r # D
    <3>1. PICK i \in 1 .. Len(oldRanges) : r = oldRanges[i]
      BY <1>7, <2>4
    <3>2. same
      BY <3>1 DEF oldRanges
    <3>3. Within(coverage.ranges, Reads!Normal(d, k - 1))
      BY <2>2, <3>1, <3>2 DEF oldRanges, Within, n
    <3>4. k \in shown
      BY <3>2, <3>3 DEF ReadsInv, OnlyShown
    <3> QED
      BY <3>2, <3>4 DEF new
  <2> QED
    BY <2>3, <2>4
<1>10. ReadsTyped'
  <2>1. chain' \in [doc : Docs \cup {<<>>}, start : Nat, max : Nat, next : Nat]
    <3>1. Reads!NoChain \in [doc : Docs \cup {<<>>}, start : Nat, max : Nat, next : Nat]
      BY DEF Reads!NoChain
    <3> QED
      BY <1>1, <3>1 DEF ReadsInv, ReadsTyped
  <2>2. coverage' \in [hash : Docs \cup {<<>>}, ranges : Seq(Spots)]
    BY <1>1, <1>2, <1>8 DEF Parted
  <2>3. (at + 1) .. e \subseteq 1 .. Len(d)
    BY <1>3
  <2>4. shown' \subseteq 1 .. Len(coverage'.hash)
    BY <1>1, <2>3 DEF ReadsInv, ReadsTyped, new
  <2> QED
    BY <1>1, <2>1, <2>2, <2>4 DEF ReadsInv, ReadsTyped
<1>11. OfRange'
  BY <1>1 DEF ReadsInv, OfRange, Reads!NoCursor
<1>12. Linked'
  <2>1. CASE ~same
    BY <1>1, <2>1 DEF Linked
  <2>2. CASE same
    <3>1. chain' = chain /\ coverage'.hash = coverage.hash /\ coverage'.ranges = t
      BY <1>1, <2>2
    <3>2. ASSUME NEW a \in Nat, NEW b \in Nat, Holds(coverage.ranges, <<a, b>>)
          PROVE  Holds(t, <<a, b>>)
      <4>1. Holds(oldRanges, <<a, b>>)
        BY <2>2, <3>2 DEF oldRanges
      <4>2. \A i \in 1 .. Len(oldRanges) : Holds(t, oldRanges[i])
        BY <1>7, <1>8
      <4>3. t \in Seq(Spots)
        BY <1>8 DEF Parted
      <4> QED
        BY <1>6, <4>1, <4>2, <4>3, HoldsOn
    <3> SUFFICES ASSUME chain # Reads!NoChain
                 PROVE  Linked'
      BY <3>1 DEF Linked
    <3> DEFINE S == Reads!Starts(chain.doc)[chain.start]
               to == Reads!Normal(chain.doc, S + chain.next)
               last_ == Reads!Delivered(page)[2]
    <3>3. /\ chain.doc = coverage.hash /\ chain.doc \in Docs
          /\ chain.start \in 1 .. Reads!Lines(chain.doc) /\ Holds(coverage.ranges, FromStart(to))
          /\ readAt = "delivered" =>
               /\ chain.doc = page.doc /\ chain.start = page.start
               /\ Holds(coverage.ranges, FromStart(last_))
      BY DEF ReadsInv, Linked
    <3>4. S \in Nat /\ chain.next \in Nat
      <4>1. S \in 0 .. Len(chain.doc) - 1
        BY <3>3, LineIs
      <4> QED
        BY <4>1 DEF ReadsInv, ReadsTyped
    <3>5. Reads!Normal(chain.doc, S) \in Nat /\ to \in Nat
      BY <3>4, NormalIs
    <3>6. Holds(t, FromStart(to))
      BY <3>2, <3>3, <3>5 DEF FromStart
    <3>7. readAt = "delivered" => Holds(t, FromStart(last_))
      <4> SUFFICES ASSUME readAt = "delivered" PROVE Holds(t, FromStart(last_))
        OBVIOUS
      <4>1. page \in Pages /\ Fits(page)
        BY DEF ReadsInv, ReadsTyped, OfRange
      <4>2. last_ \in Nat
        BY <4>1, DeliveredIs, SpotIs
      <4> QED
        BY <3>2, <3>3, <3>5, <4>2 DEF FromStart
    <3> QED
      BY <1>1, <3>1, <3>3, <3>6, <3>7 DEF Linked, FromStart
  <2> QED
    BY <2>1, <2>2
<1> QED
  BY <1>9, <1>10, <1>11, <1>12 DEF ReadsInv

LEMMA ReadsNext == ReadsInv /\ [Reads!Next]_readsVars => ReadsInv'
<1> SUFFICES ASSUME ReadsInv, [Reads!Next]_readsVars PROVE ReadsInv'
  OBVIOUS
<1>1. CASE UNCHANGED readsVars
  BY <1>1 DEF readsVars, ReadsInv, ReadsTyped, OfRange, OnlyShown, Linked, FromStart,
             Reads!NoCursor, Reads!NoChain
<1>2. ASSUME NEW d \in Docs, Reads!Edit(d)
      PROVE  ReadsInv'
  BY <1>2, ReadsAssumption
     DEF Reads!Edit, ReadsInv, ReadsTyped, OfRange, OnlyShown, Linked, FromStart,
         Reads!NoCursor, Reads!NoChain
<1>3. ASSUME NEW start \in 1 .. Reads!Lines(file), NEW max \in 1 .. MaxLines,
             NEW offset \in Offsets, NEW length \in 0 .. Len(file),
             Reads!ReadRange(start, max, offset, length)
      PROVE  ReadsInv'
  <2>1. max \in Nat \ {0} /\ offset \in Nat /\ length \in Nat
    BY ReadsAssumption
  <2> QED
    BY <1>3, <2>1, ReadKeeps DEF Reads!ReadRange
<1>4. ASSUME NEW length \in 0 .. Len(file), Reads!Continue(length)
      PROVE  ReadsInv'
  <2>1. /\ cursor.start \in 1 .. Reads!Lines(file) /\ cursor.max \in Nat \ {0} /\ cursor.offset \in Nat
        /\ length \in Nat
    BY <1>4 DEF Reads!Continue, ReadsInv, ReadsTyped, OfRange
  <2>2. Reads!Read(cursor.start, cursor.max, cursor.offset, length)
    BY <1>4 DEF Reads!Continue
  <2> QED
    BY <2>1, <2>2, ReadKeeps
<1>5. ASSUME NEW length \in 1 .. Len(page.doc), Reads!Cut(length)
      PROVE  ReadsInv'
  BY <1>5, CutKeeps
<1>6. CASE Reads!Deliver
  BY <1>6, DeliverKeeps
<1>7. ASSUME NEW start \in 1 .. Reads!Lines(file), NEW offset \in Offsets,
             NEW length \in 1 .. Len(file), Reads!Inspect(start, offset, length)
      PROVE  ReadsInv'
  <2>1. offset \in Nat /\ length \in Nat
    BY ReadsAssumption
  <2> QED
    BY <1>7, <2>1, ShownPartKeeps
<1> QED
  BY <1>1, <1>2, <1>3, <1>4, <1>5, <1>6, <1>7 DEF Reads!Next

LEMMA ReadsCover == ReadsInv => Reads!ReadsCovered
<1> SUFFICES ASSUME ReadsInv PROVE Reads!ReadsCovered
  OBVIOUS
<1>1. ASSUME NEW l \in 1 .. Reads!Lines(coverage.hash), Reads!LinesDelivered(coverage.hash, l, l),
             NEW k \in Reads!Body(coverage.hash, l)
      PROVE  k \in shown
  <2> DEFINE d == coverage.hash
             r == Reads!Span(d, l)
  <2>1. d \in Docs
    <3>1. d # <<>>
      <4>1. Reads!Lines(d) # 0 /\ Reads!Lines(d) \in Nat
        BY StartsAre DEF ReadsInv, ReadsTyped
      <4>2. l \in 1 .. Reads!Lines(d)
        OBVIOUS
      <4>3. Reads!Starts(d)[l] \in 0 .. Len(d) - 1
        BY LineIs DEF ReadsInv, ReadsTyped
      <4> QED
        BY <4>3
    <3> QED
      BY <3>1 DEF ReadsInv, ReadsTyped
  <2>2. r \in Spots /\ r[1] < r[2]
    BY <2>1, SpanIs
  <2>3. Parted(coverage.ranges)
    BY DEF ReadsInv, OnlyShown
  <2>4. l \in l .. l
    OBVIOUS
  <2>5. Reads!SpanCovered(coverage.ranges, r)
    BY <1>1, <2>4 DEF Reads!LinesDelivered
  <2>6. Holds(coverage.ranges, r)
    BY <2>2, <2>3, <2>5, CoveredIs
  <2>7. /\ k \in 1 .. Len(d) /\ d[k] # "n" /\ ~Reads!CrLf(d, k) /\ Reads!Normal(d, k - 1) \in Nat
        /\ r[1] <= Reads!Normal(d, k - 1) /\ Reads!Normal(d, k - 1) < r[2]
    BY <2>1, BodyInSpan
  <2>8. Within(coverage.ranges, Reads!Normal(d, k - 1))
    <3>1. PICK i \in 1 .. Len(coverage.ranges) :
            coverage.ranges[i][1] <= r[1] /\ r[2] <= coverage.ranges[i][2]
      BY <2>6 DEF Holds
    <3>2. coverage.ranges[i][1] \in Nat /\ coverage.ranges[i][2] \in Nat
      BY <2>3, SpotIs DEF Parted
    <3> HIDE DEF r
    <3>3. r[1] \in Nat /\ r[2] \in Nat
      BY <2>2, SpotIs
    <3> DEFINE x == Reads!Normal(d, k - 1)
    <3>4. x \in Nat /\ r[1] <= x /\ x < r[2]
      BY <2>7
    <3> HIDE DEF x
    <3>5. coverage.ranges[i][1] <= x /\ x < coverage.ranges[i][2]
      BY <3>1, <3>2, <3>3, <3>4
    <3>6. Within(coverage.ranges, x)
      BY <3>5 DEF Within
    <3> QED
      BY <3>6 DEF x
  <2> QED
    BY <2>7, <2>8 DEF ReadsInv, OnlyShown
<1>2. ASSUME readAt = "delivered"
      PROVE  page \in Pages /\ Fits(page) /\ page.doc \in Docs /\ Len(page.doc) # 0
  <2>1. page \in Pages /\ Fits(page)
    BY <1>2 DEF ReadsInv, ReadsTyped, OfRange
  <2> QED
    BY <2>1, PageIs
<1>3. ASSUME readAt = "delivered", ~page.truncated, chain.doc = page.doc,
             NEW l \in page.start .. Reads!LastLine(page)
      PROVE  l \notin Reads!Missing(page.doc)
  <2> DEFINE d == page.doc
             r == Reads!Span(d, l)
             a == Reads!Normal(d, Reads!Starts(d)[page.start])
             c == Reads!Delivered(page)[2]
  <2>1. chain # Reads!NoChain
    BY <1>2, <1>3 DEF Reads!NoChain
  <2>2. coverage.hash = d /\ Holds(coverage.ranges, <<a, c>>) /\ Parted(coverage.ranges)
    BY <1>3, <2>1 DEF ReadsInv, Linked, OnlyShown, FromStart
  <2>3. l \in 1 .. Reads!Lines(d) /\ a <= r[1] /\ r[2] <= c
    BY <1>2, <1>3, LinesReached
  <2>4. r \in Spots /\ r[1] < r[2] /\ r[1] \in Nat /\ r[2] \in Nat
    <3>1. r \in Spots /\ r[1] < r[2]
      BY <1>2, <1>3, <2>3, SpanIs
    <3> QED
      BY <3>1, SpotIs
  <2>5. a \in Nat /\ c \in Nat
    <3>1. Reads!Starts(d)[page.start] \in Nat /\ Reads!Delivered(page) \in Spots
      BY <1>2, <1>3, PageIs, DeliveredIs
    <3> QED
      BY <3>1, NormalIs, SpotIs
  <2> HIDE DEF a, c, r
  <2>6. Holds(coverage.ranges, <<r[1], r[2]>>)
    BY <2>2, <2>3, <2>4, <2>5, HoldsLess
  <2>7. Holds(coverage.ranges, r)
    BY <2>6 DEF Holds
  <2>8. Reads!SpanCovered(coverage.ranges, r)
    BY <2>2, <2>4, <2>7, CoveredIs
  <2>9. \A i \in l .. l : i = l
    BY <2>3
  <2>10. l <= Reads!Lines(d)
    BY <2>3
  <2>11. Reads!LinesDelivered(d, l, l)
    BY <2>2, <2>8, <2>9, <2>10 DEF Reads!LinesDelivered, r
  <2> QED
    BY <2>11 DEF Reads!Missing
<1>4. ASSUME readAt = "delivered"
      PROVE  Reads!LastLine(page) <= Reads!Lines(page.doc)
  <2>1. PICK n \in 1 .. Reads!Lines(page.doc) :
          Reads!LastLine(page) = IF Reads!EndsIn(page, "n") THEN n - 1 ELSE n
    BY <1>2, <1>4, PageLine
  <2>2. Reads!Lines(page.doc) \in Nat
    BY <1>2, <1>4, StartsAre
  <2> QED
    BY <2>1, <2>2
<1>5. ASSUME readAt = "delivered", Reads!StartsWhole(page), page.complete,
             NEW l \in Reads!FirstLine(page) .. Reads!LastLine(page)
      PROVE  Reads!Body(page.doc, l) \subseteq Reads!Shown(page)
  BY <1>2, <1>5, WholeLines
<1> QED
  BY <1>1, <1>3, <1>4, <1>5 DEF Reads!ReadsCovered

-----------------------------------------------------------------------------
\* A step of the tools is a step of each part or leaves it alone.
mcVars == <<part, vars, patchVars, clientVars, narrowVars, trackerVars, readsVars, digestsVars>>

LEMMA PartSteps ==
  [MCNext]_mcVars =>
    /\ [Patch!Next]_patchVars /\ [Client!Next]_clientVars
    /\ [Narrow!Next]_narrowVars /\ [Digests!Next]_digestsVars
    /\ [Tracker!Next]_trackerVars /\ [Reads!Next]_readsVars
BY DEF MCNext, mcVars

\* DigestCache, CacheCurrent: while every call is shorter than the settling
\* time, which is positive, what the cache holds for the version the file has
\* is true of its contents (tools.rs, remember_digest), for any threads and any
\* writes.
THEOREM CacheStaysCurrent == ASSUME ~Slow PROVE MCSpec => []CacheCurrent
<1>1. MCInit => DigestsInv
  BY DigestsInit, SettleAssumption DEF MCInit
<1>2. DigestsInv /\ [MCNext]_mcVars => DigestsInv'
  BY DigestsNext, PartSteps, SettleAssumption
<1>3. DigestsInv => CacheCurrent
  BY DEF DigestsInv, CacheCurrent
<1> QED
  BY <1>1, <1>2, <1>3, PTL DEF MCSpec, mcVars

\* FilePatch, PatchWhole: for any files and texts, any operations and any edits
\* by other programs, a patch is applied as a whole, or leaves the disk as it
\* would be without it, or reports an uncertain outcome (tools/file_edit.rs,
\* commit and rollback_changes).
THEOREM PatchesStayWhole == MCSpec => []PatchWhole
<1>1. MCInit => PatchInv /\ PatchFlags
  BY PatchInit DEF MCInit
<1>2. (PatchInv /\ PatchFlags) /\ [MCNext]_mcVars => (PatchInv /\ PatchFlags)'
  BY PatchNext, FlagsNext, PartSteps
<1>3. PatchInv => PatchWhole
  BY DEF PatchInv, PatchWhole
<1> QED
  BY <1>1, <1>2, <1>3, PTL DEF MCSpec, mcVars

\* CheckpointTools, CheckpointPrompt: for any bounds, what a request offers its
\* calls may run, and no checkpoint is held or refused more than once for the
\* same reason nor edited in more than three batches (tools.rs, ToolRegistry
\* and what fails a checkpoint).
THEOREM CheckpointsStayPrompt == MCSpec => []CheckpointPrompt
<1>1. MCInit => NarrowInv
  BY NarrowInit DEF MCInit
<1>2. NarrowInv /\ [MCNext]_mcVars => NarrowInv'
  BY NarrowNext, PartSteps
<1>3. NarrowInv => CheckpointPrompt
  BY NarrowPrompt DEF CheckpointPrompt
<1> QED
  BY <1>1, <1>2, <1>3, PTL DEF MCSpec, mcVars

\* Completions, CompletionsKept: for any requests and any number of retries, at
\* most one attempt of a request is shown, its attempts are bounded and billed,
\* and an endpoint loses a format only to what successes have shown (llm.rs).
THEOREM CompletionsStayKept == MCSpec => CompletionsKept
<1> DEFINE Kept == /\ \A i \in Requests :
                        /\ req[i].shown <= 1 /\ req[i].attempt <= Retries + 3
                        /\ req[i].generated <= req[i].attempt - req[i].unbilled
                   /\ bare => seen.bare
                   /\ refuses => seen.json \/ seen.bare
<1>1. MCInit => ClientInv
  BY ClientInit, RetriesAssumption DEF MCInit
<1>2. ClientInv /\ [MCNext]_mcVars => ClientInv'
  BY ClientNext, PartSteps, RetriesAssumption
<1>3. ClientInv /\ [MCNext]_mcVars => [recovered' /\ ~recovered => seen.streak = 1]_(Client!vars)
  BY ClientNext, PartSteps, RetriesAssumption DEF GivenUp
<1>4. ClientInv => Kept
  <2> SUFFICES ASSUME ClientInv, NEW i \in Requests
               PROVE  /\ req[i].shown <= 1 /\ req[i].attempt <= Retries + 3
                      /\ req[i].generated <= req[i].attempt - req[i].unbilled
    BY DEF ClientInv, Learned
  <2>1. req[i] \in Answers /\ Sound(req[i])
    BY DEF ClientInv
  <2>2. Fallbacks(req[i]) \in 0 .. 2
    BY DEF Fallbacks
  <2> QED
    BY <2>1, <2>2, AnswerFields, RetriesAssumption DEF Sound, Attempts, Relays
<1> QED
  BY <1>1, <1>2, <1>3, <1>4, PTL DEF MCSpec, mcVars, CompletionsKept, Client!CompletionsKept

\* Recovery, FailuresCounted: for any tools, calls and sizes of the tables,
\* however much they evict, a tool's failures are counted since its last success,
\* a run at the limit goes on only as a document's, a call is never said to have
\* failed alike more often than it did, and what may have happened unseen ends
\* the run (tools/recovery.rs, observe and mark_repeated_failure).
THEOREM FailuresStayCounted == MCSpec => []FailuresCounted
<1>1. MCInit => TrackInv
  BY TrackInit, LimitAssumption DEF MCInit
<1>2. TrackInv /\ [MCNext]_mcVars => TrackInv'
  BY TrackNext, PartSteps, LimitAssumption
<1>3. TrackInv => FailuresCounted
  BY DEF TrackInv, BelowLimit, Remembered, NotOvercounted, Answered, UncertainEnds,
         FailuresCounted, Tracker!FailuresCounted
<1> QED
  BY <1>1, <1>2, <1>3, PTL DEF MCSpec, mcVars

\* FileReads, ReadsCovered: for any texts, ranges, budgets and cursors, a line
\* counts as delivered only when all of its text was shown, a range that is read
\* to its end leaves no line of it missing, and what a page calls complete is
\* shown whole (tools.rs, read_file and limit_result; tools/coverage.rs).
THEOREM ReadsStayCovered == MCSpec => []ReadsCovered
<1>1. MCInit => ReadsInv
  BY ReadsInit DEF MCInit
<1>2. ReadsInv /\ [MCNext]_mcVars => ReadsInv'
  BY ReadsNext, PartSteps
<1>3. ReadsInv => ReadsCovered
  BY ReadsCover DEF ReadsCovered
<1> QED
  BY <1>1, <1>2, <1>3, PTL DEF MCSpec, mcVars

-----------------------------------------------------------------------------
\* The types of the parts, with the bounds of their counters and tables.

DigestsBounded ==
  /\ content \in Contents /\ time \in Nat /\ now \in Nat /\ time <= now /\ now <= MaxTime
  /\ cache \in [version : -1 .. MaxTime, hash : Contents \cup {Digests!Unknown},
                lines : Contents \cup {Digests!Unknown}, text : {Digests!Unknown, "no", "yes"}]
  /\ thread \in [Threads -> [pc : {"idle", "opened", "read", "keep", "done"},
                             kind : Digests!Kinds, version : -1 .. MaxTime, known : BOOLEAN,
                             read : Contents \cup {Digests!Unknown}, digest : DigestValues,
                             since : Nat]]

LEMMA DigestsStayBounded ==
  ASSUME DigestsBounded, [Digests!Next]_digestsVars
  PROVE  DigestsBounded'
<1> DEFINE Version == -1 .. MaxTime
           Value == Contents \cup {Digests!Unknown}
           Entries == [version : Version, hash : Value, lines : Value,
                       text : {Digests!Unknown, "no", "yes"}]
           Running == [pc : {"idle", "opened", "read", "keep", "done"}, kind : Digests!Kinds,
                       version : Version, known : BOOLEAN, read : Value, digest : DigestValues,
                       since : Nat]
<1>1. /\ content \in Contents /\ time \in Nat /\ now \in Nat /\ time <= now /\ now <= MaxTime
      /\ cache \in Entries /\ thread \in [Threads -> Running]
  BY DEF DigestsBounded
<1>2. MaxTime \in Nat /\ -1 \in Version /\ \A n \in Nat : n <= MaxTime => n \in Version
  BY LimitsAssumption
<1> HIDE DEF Version
<1>3. SUFFICES /\ content' \in Contents /\ time' \in Nat /\ now' \in Nat /\ time' <= now'
               /\ now' <= MaxTime /\ cache' \in Entries /\ thread' \in [Threads -> Running]
  BY DEF DigestsBounded, Version
<1>4. Digests!NoEntry \in Entries /\ Digests!Idle \in Running
  BY <1>2 DEF Digests!NoEntry, Digests!Idle, Digests!Kinds, DigestValues
<1>5. CASE Digests!Tick
  <2>1. now' = now + 1 /\ now < MaxTime /\ content' = content /\ time' = time /\ cache' = cache
        /\ thread' = thread
    BY <1>5 DEF Digests!Tick
  <2> QED
    BY <1>1, <1>2, <2>1
<1>6. ASSUME NEW c \in Contents, Digests!Write(c)
      PROVE  /\ content' \in Contents /\ time' = now /\ now' = now
             /\ cache' = cache /\ thread' = thread
  BY <1>6 DEF Digests!Write
<1>7. CASE Digests!Clear
  BY <1>1, <1>4, <1>7 DEF Digests!Clear
<1>8. ASSUME NEW t \in Threads, NEW r \in Running, Digests!Becomes(t, r)
      PROVE  thread' \in [Threads -> Running]
  BY <1>1, <1>8 DEF Digests!Becomes
<1>9. ASSUME NEW t \in Threads, NEW d \in DigestValues, Digests!Ends(t, d)
      PROVE  thread' \in [Threads -> Running]
  <2> DEFINE r == [Digests!Idle EXCEPT !.pc = "done", !.kind = thread[t].kind,
                                       !.read = thread[t].read, !.digest = d]
  <2>1. thread[t] \in Running
    BY <1>1
  <2>2. r \in Running
    BY <1>4, <2>1
  <2>3. Digests!Becomes(t, r)
    BY <1>9 DEF Digests!Ends
  <2> QED
    BY <1>8, <2>2, <2>3
<1>10. ASSUME NEW t \in Threads
       PROVE  /\ thread[t] \in Running /\ thread[t].kind \in Digests!Kinds
              /\ thread[t].version \in Version /\ thread[t].read \in Value
  BY <1>1
<1>11. /\ Value \subseteq DigestValues /\ {"no", "yes"} \subseteq DigestValues
       /\ cache.hash \in Value /\ cache.lines \in Value
       /\ cache.text \in {Digests!Unknown, "no", "yes"}
  BY <1>1 DEF DigestValues
<1>12. ASSUME NEW t \in Threads, NEW kind \in Digests!Kinds, Digests!Open(t, kind)
       PROVE  thread' \in [Threads -> Running] /\ UNCHANGED <<content, time, now, cache>>
  <2> DEFINE r == [Digests!Idle EXCEPT !.pc = "opened", !.kind = kind, !.version = time,
                                       !.since = now]
  <2>1. time \in Version
    BY <1>1, <1>2
  <2>2. r \in Running
    BY <1>1, <1>4, <2>1
  <2>3. Digests!Becomes(t, r)
    BY <1>12 DEF Digests!Open
  <2> QED
    BY <1>8, <1>12, <2>2, <2>3 DEF Digests!Open
<1>13. ASSUME NEW t \in Threads, Digests!Look(t)
       PROVE  thread' \in [Threads -> Running] /\ UNCHANGED <<content, time, now, cache>>
  <2>1. \/ \E hit \in DigestValues : Digests!Ends(t, hit)
        \/ Digests!Becomes(t, [thread[t] EXCEPT !.pc = "read"])
    BY <1>10, <1>11, <1>13 DEF Digests!Look, Digests!Kinds
  <2>2. [thread[t] EXCEPT !.pc = "read"] \in Running
    BY <1>10
  <2> QED
    BY <1>8, <1>9, <1>13, <2>1, <2>2 DEF Digests!Look
<1>14. ASSUME NEW t \in Threads, Digests!Read(t)
       PROVE  thread' \in [Threads -> Running] /\ UNCHANGED <<content, time, now, cache>>
  <2>1. [thread[t] EXCEPT !.pc = "keep", !.read = content] \in Running
    BY <1>1, <1>10
  <2> QED
    BY <1>8, <1>14, <2>1 DEF Digests!Read
<1>15. ASSUME NEW t \in Threads, Digests!LookAgain(t)
       PROVE  thread' \in [Threads -> Running] /\ UNCHANGED <<content, time, now, cache>>
  <2>1. /\ [thread[t] EXCEPT !.known = TRUE] \in Running
        /\ [thread[t] EXCEPT !.known = TRUE, !.version = -1] \in Running
    BY <1>2, <1>10
  <2> QED
    BY <1>8, <1>15, <2>1 DEF Digests!LookAgain
<1>16. ASSUME NEW v \in Version, NEW value
       PROVE  /\ value \in Value /\ Digests!Remember(v, "hash", value) => cache' \in Entries
              /\ value \in Value /\ Digests!Remember(v, "lines", value) => cache' \in Entries
              /\ value \in {"no", "yes"} /\ Digests!Remember(v, "text", value)
                   => cache' \in Entries
  <2> DEFINE e == Digests!Entry(v)
  <2>1. e \in Entries
    <3>1. [Digests!NoEntry EXCEPT !.version = v] \in Entries
      BY <1>4
    <3> QED
      BY <1>1, <3>1 DEF Digests!Entry
  <2> HIDE DEF e
  <2>2. /\ value \in Value => [e EXCEPT !["hash"] = value] \in Entries
        /\ value \in Value => [e EXCEPT !["lines"] = value] \in Entries
        /\ value \in {"no", "yes"} => [e EXCEPT !["text"] = value] \in Entries
    BY <2>1
  <2> QED
    BY <1>4, <2>2 DEF Digests!Remember, e
<1>17. ASSUME NEW t \in Threads, Digests!Keep(t)
       PROVE  /\ thread' \in [Threads -> Running] /\ cache' \in Entries
              /\ UNCHANGED <<content, time, now>>
  <2> DEFINE r == thread[t]
             is == IF r.read \in NotText THEN "no" ELSE "yes"
  <2>1. r.version \in Version /\ r.read \in Value /\ is \in {"no", "yes"} /\ r.kind \in Digests!Kinds
    BY <1>10
  <2> HIDE DEF r, is
  <2>2. \E d \in DigestValues : Digests!Ends(t, d)
    BY <1>11, <1>17, <2>1 DEF Digests!Keep, Digests!Kinds, r, is
  <2>3. \/ cache' = cache
        \/ Digests!Remember(r.version, "hash", r.read)
        \/ Digests!Remember(r.version, "lines", r.read)
        \/ Digests!Remember(r.version, "text", is)
    BY <1>17, <2>1 DEF Digests!Keep, Digests!Kinds, r, is
  <2>4. cache' \in Entries
    BY <1>1, <1>16, <2>1, <2>3
  <2> QED
    BY <1>9, <1>17, <2>2, <2>4 DEF Digests!Keep
<1>18. CASE UNCHANGED digestsVars
  BY <1>1, <1>18 DEF digestsVars
<1> QED
  BY <1>1, <1>5, <1>6, <1>7, <1>12, <1>13, <1>14, <1>15, <1>17, <1>18 DEF Digests!Next

\* What a patch remembers is of its files.
PatchNamed ==
  /\ patchAt \in {"stage", "check", "write", "rollback", "done"}
  /\ result \in {"none", "applied", "unchanged", "rolled_back", "uncertain"}
  /\ checked \subseteq Files /\ replaced \subseteq Files /\ raced \subseteq Files

LEMMA PatchStaysNamed ==
  ASSUME PatchNamed, [Patch!Next]_patchVars
  PROVE  PatchNamed'
<1> USE DEF PatchNamed
<1>1. ASSUME NEW f \in Files, NEW text \in Patch!AllTexts, Patch!Edit(f, text)
      PROVE  PatchNamed'
  BY <1>1 DEF Patch!Edit, Patch!stage
<1>2. CASE Patch!Cancel \/ Patch!Refuse \/ Patch!StartCheck \/ Patch!StartWrite
           \/ Patch!Cancelled \/ Patch!Finish
  BY <1>2 DEF Patch!Cancel, Patch!Refuse, Patch!StartCheck, Patch!StartWrite, Patch!Cancelled,
    Patch!Finish, Patch!End, Patch!stage
<1>3. ASSUME NEW f \in Files, Patch!Check(f) \/ Patch!Write(f)
             \/ \E mkdir \in BOOLEAN : Patch!WriteFails(f, mkdir)
      PROVE  PatchNamed'
  BY <1>3 DEF Patch!Check, Patch!Write, Patch!WriteFails, Patch!End, Patch!stage
<1>4. ASSUME NEW S, NEW next, NEW recreated \in SUBSET Files, NEW named \in SUBSET Files,
             Patch!Stage(S, next, recreated, named)
      PROVE  PatchNamed'
  BY <1>4 DEF Patch!Stage
<1>5. ASSUME NEW f \in Files, NEW text, Patch!Add(f, text)
      PROVE  PatchNamed'
  BY <1>4, <1>5 DEF Patch!Add
<1>6. ASSUME NEW f \in Files, NEW hash,
             \/ \E text \in FileTexts : Patch!Replace(f, hash, text)
             \/ \E to \in Files : Patch!Move(f, to, hash)
             \/ Patch!Delete(f, hash)
      PROVE  PatchNamed'
  BY <1>4, <1>6 DEF Patch!Replace, Patch!Move, Patch!Delete
<1>7. ASSUME NEW fails \in BOOLEAN, Patch!Restore(fails) \/ Patch!EndRollback(fails)
      PROVE  PatchNamed'
  BY <1>7 DEF Patch!Restore, Patch!EndRollback, Patch!End, Patch!stage
<1>8. CASE UNCHANGED patchVars
  BY <1>8 DEF patchVars
<1> QED
  BY <1>1, <1>2, <1>3, <1>5, <1>6, <1>7, <1>8 DEF Patch!Next

LEMMA PatchTypes == PatchInv /\ PatchNamed => Patch!TypeOK
<1> SUFFICES ASSUME PatchInv, PatchNamed PROVE Patch!TypeOK
  OBVIOUS
<1>1. PatchTyped
  BY DEF PatchInv
<1>2. DOMAIN original = Patch!Loaded
  BY <1>1 DEF PatchTyped
<1>3. Patch!Range(completed) \subseteq Files
  BY <1>1 DEF PatchTyped, Patch!Range
<1> QED
  BY <1>1, <1>2, <1>3 DEF PatchTyped, PatchNamed, Patch!TypeOK

-----------------------------------------------------------------------------
NarrowBounded ==
  /\ cp.id <= MaxCheckpoints /\ cp.attempts <= MaxRequests /\ cp.lookups <= Narrow!Lookups
  /\ batches.id <= MaxCheckpoints /\ editHeld.id <= MaxCheckpoints
  /\ citesHeld.id <= MaxCheckpoints /\ offered \subseteq Narrow!Tools
  /\ cpAt \in {"between", "calls", "completing", "stopped"} /\ cpCalls <= MaxBatchCalls

LEMMA NarrowStaysBounded ==
  ASSUME NarrowTyped, NarrowBounded, [Narrow!Next]_narrowVars
  PROVE  NarrowBounded'
<1> DEFINE Cp == [id : Nat, failed : BOOLEAN, acked : BOOLEAN, attempts : Nat, lookups : Nat]
<1>1. /\ MaxCheckpoints \in Nat /\ MaxRequests \in Nat /\ MaxBatchCalls \in Nat
      /\ cp \in Cp /\ batches \in Held /\ editHeld \in Held /\ citesHeld \in Held
      /\ cpCalls \in Nat /\ Narrow!Lookups = 3
  BY LimitsAssumption DEF NarrowTyped, Narrow!Lookups
<1>2. cp.id \in Nat /\ cp.attempts \in Nat /\ cp.lookups \in Nat /\ batches.id \in Nat
  BY <1>1 DEF Held
<1> USE DEF NarrowBounded
<1>3. ASSUME NEW to \in Narrow!Steers, Narrow!Steer(to)
      PROVE  NarrowBounded'
  BY <1>3 DEF Narrow!Steer, Narrow!bounds
<1>4. CASE Narrow!Prepare
  <2>1. cp' = [Narrow!NoCheckpoint EXCEPT !.id = Narrow!NextId] /\ Narrow!NextId <= MaxCheckpoints
        /\ UNCHANGED <<batches, editHeld, citesHeld, cpAt, cpCalls, offered>>
    BY <1>4 DEF Narrow!Prepare, Narrow!bounds
  <2>2. cp'.id = Narrow!NextId /\ cp'.attempts = 0 /\ cp'.lookups = 0
    BY <2>1 DEF Narrow!NoCheckpoint
  <2> QED
    BY <1>1, <2>1, <2>2
<1>5. CASE Narrow!Resume \/ Narrow!Rework
  <2>1. cp' = Narrow!Resumed(cp) /\ cpAt' = "between" /\ offered' = offered /\ cpCalls' = cpCalls
        /\ \/ UNCHANGED <<batches, editHeld, citesHeld>>
           \/ batches' = Narrow!Unheld /\ editHeld' = Narrow!Unheld /\ citesHeld' = Narrow!Unheld
    BY <1>5 DEF Narrow!Resume, Narrow!Rework, Narrow!bounds
  <2>2. cp'.id = cp.id /\ cp'.attempts = 0 /\ cp'.lookups = cp.lookups /\ Narrow!Unheld.id = 0
    BY <1>1, <2>1 DEF Narrow!Resumed, Narrow!Unheld
  <2> QED
    BY <1>1, <2>1, <2>2
<1>6. CASE Narrow!Request
  <2>1. /\ offered' = Narrow!Definitions /\ cpCalls' = 0 /\ cpAt' \in {"calls", "stopped"}
        /\ UNCHANGED <<batches, editHeld, citesHeld>>
        /\ \/ cp' = cp
           \/ /\ ~(cp.attempts >= MaxRequests)
              /\ cp' = [cp EXCEPT !.failed = FALSE, !.acked = FALSE, !.attempts = @ + 1]
    BY <1>6 DEF Narrow!Request, Narrow!bounds
  <2>2. cp'.id = cp.id /\ cp'.attempts <= MaxRequests /\ cp'.lookups = cp.lookups
    <3>1. CASE cp' = cp
      BY <3>1
    <3>2. CASE /\ ~(cp.attempts >= MaxRequests)
               /\ cp' = [cp EXCEPT !.failed = FALSE, !.acked = FALSE, !.attempts = @ + 1]
      <4>1. cp'.id = cp.id /\ cp'.attempts = cp.attempts + 1 /\ cp'.lookups = cp.lookups
        BY <1>1, <3>2
      <4>2. cp.attempts + 1 <= MaxRequests
        BY <1>1, <1>2, <3>2
      <4> QED
        BY <4>1, <4>2
    <3> QED
      BY <2>1, <3>1, <3>2
  <2>3. Narrow!Definitions \subseteq Narrow!Tools
    BY DEF Narrow!Definitions
  <2> QED
    BY <1>1, <2>1, <2>2, <2>3
<1>7. ASSUME NEW t \in Narrow!Tools, Narrow!Panics(t)
      PROVE  NarrowBounded'
  <2>1. /\ cp' = (IF Narrow!Open THEN Narrow!Failed(cp) ELSE cp) /\ cpCalls < MaxBatchCalls
        /\ cpCalls' = cpCalls + 1 /\ UNCHANGED <<batches, editHeld, citesHeld, cpAt, offered>>
    BY <1>7 DEF Narrow!Panics, Narrow!bounds
  <2>2. cp'.id = cp.id /\ cp'.attempts = cp.attempts /\ cp'.lookups = cp.lookups
    BY <1>1, <2>1 DEF Narrow!Failed
  <2> QED
    BY <1>1, <2>1, <2>2
<1>8. ASSUME NEW t \in Narrow!Tools, NEW works \in BOOLEAN, NEW cited \in BOOLEAN,
             Narrow!Call(t, works, cited)
      PROVE  NarrowBounded'
  <2>1. /\ cpCalls < MaxBatchCalls /\ cpCalls' = cpCalls + 1
        /\ UNCHANGED <<batches, citesHeld, cpAt, offered>>
        /\ \/ /\ t = "source_lookup" /\ Narrow!Open /\ Narrow!Runs(t) /\ editHeld' = editHeld
              /\ cp' = [cp EXCEPT !.lookups = @ + 1]
           \/ cp' = cp /\ editHeld' = editHeld
           \/ /\ cp' \in {cp, Narrow!Failed(cp)}
              /\ editHeld' \in {[id |-> cp.id, at |-> Narrow!Batches], editHeld}
    BY <1>8 DEF Narrow!Call, Narrow!Fails
  <2>2. /\ cp'.id = cp.id /\ cp'.attempts = cp.attempts
        /\ cp'.lookups <= Narrow!Lookups
    <3>1. CASE /\ t = "source_lookup" /\ Narrow!Open /\ Narrow!Runs(t)
               /\ cp' = [cp EXCEPT !.lookups = @ + 1]
      <4>1. ~(cp.lookups >= Narrow!Lookups)
        BY <3>1 DEF Narrow!Runs, Narrow!LookupSpent
      <4> QED
        BY <1>1, <1>2, <3>1, <4>1
    <3>2. CASE cp' \in {cp, Narrow!Failed(cp)}
      BY <1>1, <3>2 DEF Narrow!Failed
    <3> QED
      BY <2>1, <3>1, <3>2
  <2>3. editHeld'.id <= MaxCheckpoints
    BY <2>1
  <2> QED
    BY <1>1, <2>1, <2>2, <2>3
<1>9. ASSUME NEW valid \in BOOLEAN, Narrow!CompleteCheckpoint(valid)
      PROVE  NarrowBounded'
  <2>1. /\ cpAt' = "completing" /\ UNCHANGED <<batches, editHeld, cpCalls, offered>>
        /\ cp' \in {Narrow!Failed(cp), [cp EXCEPT !.acked = TRUE]}
        /\ citesHeld' \in {citesHeld, [id |-> cp.id, at |-> Narrow!Batches]}
    BY <1>9 DEF Narrow!CompleteCheckpoint
  <2>2. cp'.id = cp.id /\ cp'.attempts = cp.attempts /\ cp'.lookups = cp.lookups
    BY <1>1, <2>1 DEF Narrow!Failed
  <2>3. citesHeld'.id <= MaxCheckpoints
    BY <2>1
  <2> QED
    BY <1>1, <2>1, <2>2, <2>3
<1>10. ASSUME NEW stops \in BOOLEAN, Narrow!EndBatch(stops)
       PROVE  NarrowBounded'
  <2>1. /\ cpAt' \in {"stopped", "between"} /\ UNCHANGED <<editHeld, citesHeld, cpCalls, offered>>
        /\ cp' \in {Narrow!NoCheckpoint, [cp EXCEPT !.acked = FALSE], cp}
        /\ batches' \in {batches, [id |-> cp.id, at |-> Narrow!Batches + 1]}
    BY <1>10 DEF Narrow!EndBatch
  <2>2. /\ cp'.id \in {cp.id, 0} /\ cp'.attempts \in {cp.attempts, 0}
        /\ cp'.lookups \in {cp.lookups, 0}
    BY <1>1, <2>1 DEF Narrow!NoCheckpoint
  <2>3. batches'.id <= MaxCheckpoints
    BY <2>1
  <2> QED
    BY <1>1, <2>1, <2>2, <2>3
<1>11. CASE UNCHANGED narrowVars
  BY <1>11 DEF narrowVars
<1> QED
  BY <1>3, <1>4, <1>5, <1>6, <1>7, <1>8, <1>9, <1>10, <1>11 DEF Narrow!Next

LEMMA NarrowTypes == NarrowInv /\ NarrowBounded => Narrow!TypeOK
<1> SUFFICES ASSUME NarrowInv, NarrowBounded PROVE Narrow!TypeOK
  OBVIOUS
<1>1. NarrowTyped
  BY DEF NarrowInv
<1>2. /\ cp.id \in Nat /\ cp.attempts \in Nat /\ cp.lookups \in Nat /\ batches.id \in Nat
      /\ editHeld.id \in Nat /\ citesHeld.id \in Nat /\ cpCalls \in Nat
  BY <1>1 DEF NarrowTyped, Held
<1>3. MaxCheckpoints \in Nat /\ MaxRequests \in Nat /\ MaxBatchCalls \in Nat /\ Narrow!Lookups \in Nat
  BY LimitsAssumption DEF Narrow!Lookups
<1> QED
  BY <1>2, <1>3 DEF NarrowBounded, Narrow!TypeOK

LEMMA ReadsTypes == ReadsInv => Reads!TypeOK
BY DEF ReadsInv, ReadsTyped, Pages, Reads!TypeOK

LEMMA ClientTypes == ClientInv => Client!TypeOK
<1> SUFFICES ASSUME ClientInv PROVE Client!TypeOK
  OBVIOUS
<1>1. ASSUME NEW i \in Requests
      PROVE  /\ req[i].pc \in {"new", "send", "stream", "wait"} \cup Client!Ended
             /\ req[i].format \in Client!Formats /\ req[i].calls \in {"none", "whole", "broken"}
             /\ req[i].finish \in {"none", "stop", "tool_calls", "length"}
  <2>1. req[i] \in Answers
    BY DEF ClientInv
  <2> QED
    BY <2>1, AnswerFields DEF InFlight
<1> QED
  BY <1>1 DEF ClientInv, Client!TypeOK

-----------------------------------------------------------------------------
\* A table within its limit, whose entries were put at numbered calls.
Tabled(q, max) ==
  /\ IsFiniteSet(DOMAIN q) /\ Cardinality(DOMAIN q) <= max
  /\ \A x \in DOMAIN q : q[x].at \in Nat

LEMMA WithoutTabled ==
  ASSUME NEW q, NEW keys, NEW max \in Nat, Tabled(q, max)
  PROVE  Tabled(Tracker!Without(q, keys), max)
<1> DEFINE n == Tracker!Without(q, keys)
<1>1. DOMAIN n = DOMAIN q \ keys /\ \A x \in DOMAIN n : x \in DOMAIN q /\ n[x] = q[x]
  BY DEF Tracker!Without
<1> HIDE DEF n
<1>2. DOMAIN n \subseteq DOMAIN q
  BY <1>1
<1>3. IsFiniteSet(DOMAIN n) /\ Cardinality(DOMAIN n) <= Cardinality(DOMAIN q)
  BY <1>2, FS_Subset DEF Tabled
<1>4. Cardinality(DOMAIN n) \in Nat /\ Cardinality(DOMAIN q) \in Nat
  BY <1>3, FS_CardinalityType DEF Tabled
<1> QED
  BY <1>1, <1>3, <1>4 DEF Tabled, n

\* An entry more, of a table that has room or had the key.
LEMMA SetTabled ==
  ASSUME NEW q, NEW key, NEW e, e.at \in Nat, NEW max \in Nat, Tabled(q, max),
         key \in DOMAIN q \/ Cardinality(DOMAIN q) < max
  PROVE  Tabled(Tracker!Set(q, key, e), max)
<1> DEFINE n == Tracker!Set(q, key, e)
           D == DOMAIN q
<1>1. DOMAIN n = D \cup {key} /\ \A x \in DOMAIN n : n[x] = IF x = key THEN e ELSE q[x]
  BY DEF Tracker!Set
<1>2. IsFiniteSet(D) /\ Cardinality(D) \in Nat /\ Cardinality(D) <= max
  BY FS_CardinalityType DEF Tabled
<1> HIDE DEF n, D
<1>3. /\ IsFiniteSet(D \cup {key})
      /\ Cardinality(D \cup {key}) = IF key \in D THEN Cardinality(D) ELSE Cardinality(D) + 1
  BY <1>2, FS_AddElement
<1>4. Cardinality(D \cup {key}) <= max
  BY <1>2, <1>3 DEF D
<1>5. \A x \in DOMAIN n : n[x].at \in Nat
  BY <1>1 DEF Tabled, D
<1> QED
  BY <1>1, <1>3, <1>4, <1>5 DEF Tabled, n

\* A table with entries has a first one.
LEMMA FrontIs ==
  ASSUME NEW q, DOMAIN q # {}, \A x \in DOMAIN q : q[x].at \in Nat
  PROVE  \E x \in DOMAIN q : x \in Tracker!Front(q)
<1> DEFINE S == {q[x].at : x \in DOMAIN q}
<1>1. S \in SUBSET Nat /\ S # {}
  OBVIOUS
<1> HIDE DEF S
<1>2. PICK m \in S : \A y \in S : m <= y
  BY <1>1, LeastIs
<1> USE DEF S
<1>3. PICK x \in DOMAIN q : q[x].at = m
  OBVIOUS
<1>4. \A y \in DOMAIN q : q[x].at <= q[y].at
  BY <1>2, <1>3
<1> QED
  BY <1>4 DEF Tracker!Front

LEMMA TrackCount == \A S : Tracker!Cardinality(S) = Cardinality(S)
BY DEF Tracker!Cardinality, Cardinality

LEMMA MovedTabled ==
  ASSUME NEW q, NEW key, NEW e, e.at \in Nat, NEW max \in Nat \ {0}, Tabled(q, max)
  PROVE  Tabled(Tracker!Moved(q, key, e, max), max)
<1> DEFINE rest == Tracker!Without(q, {key})
           fewer == Tracker!Without(rest, Tracker!Front(rest))
<1>1. Tabled(rest, max)
  BY WithoutTabled
<1>2. IsFiniteSet(DOMAIN rest) /\ Cardinality(DOMAIN rest) \in Nat
      /\ Cardinality(DOMAIN rest) <= max
  BY <1>1, FS_CardinalityType DEF Tabled
<1> HIDE DEF rest
<1>3. CASE Cardinality(DOMAIN rest) = max
  <2>1. DOMAIN rest # {}
    BY <1>3, FS_EmptySet
  <2>2. PICK x \in DOMAIN rest : x \in Tracker!Front(rest)
    BY <1>1, <2>1, FrontIs DEF Tabled
  <2>3. DOMAIN fewer = DOMAIN rest \ Tracker!Front(rest)
    BY DEF Tracker!Without
  <2>4. Tabled(fewer, max)
    BY <1>1, WithoutTabled
  <2> HIDE DEF fewer
  <2>5. DOMAIN fewer \subseteq DOMAIN rest /\ DOMAIN fewer # DOMAIN rest
    BY <2>2, <2>3
  <2>6. Cardinality(DOMAIN fewer) < max
    <3>1. Cardinality(DOMAIN fewer) < Cardinality(DOMAIN rest)
      BY <1>2, <2>5, FS_Subset, FS_CardinalityType
    <3> QED
      BY <1>3, <3>1
  <2>7. Tabled(Tracker!Set(fewer, key, e), max)
    BY <2>4, <2>6, SetTabled
  <2> QED
    BY <1>3, <2>7, TrackCount DEF Tracker!Moved, rest, fewer
<1>4. CASE Cardinality(DOMAIN rest) # max
  <2>1. Cardinality(DOMAIN rest) < max
    BY <1>2, <1>4
  <2>2. Tabled(Tracker!Set(rest, key, e), max)
    BY <1>1, <2>1, SetTabled
  <2> QED
    BY <1>4, <2>2, TrackCount DEF Tracker!Moved, rest
<1> QED
  BY <1>3, <1>4

LEMMA KeptTabled ==
  ASSUME NEW q, NEW key, NEW cause, NEW max \in Nat \ {0}, Tabled(q, max), toolCalls \in Nat
  PROVE  Tabled(Tracker!Kept(q, key, Tracker!Counted(q, key, cause), max), max)
<1> DEFINE e == Tracker!Counted(q, key, cause)
<1>1. e.at = toolCalls
  BY DEF Tracker!Counted
<1>2. CASE key \in DOMAIN q
  <2>1. [e EXCEPT !.at = q[key].at].at = q[key].at
    BY DEF Tracker!Counted
  <2>2. q[key].at \in Nat
    BY <1>2 DEF Tabled
  <2> HIDE DEF e
  <2>3. Tabled(Tracker!Set(q, key, [e EXCEPT !.at = q[key].at]), max)
    BY <1>2, <2>1, <2>2, SetTabled
  <2> QED
    BY <1>2, <2>3 DEF Tracker!Kept, e
<1>3. CASE key \notin DOMAIN q
  <2> HIDE DEF e
  <2>1. Tabled(Tracker!Moved(q, key, e, max), max)
    BY <1>1, MovedTabled
  <2> QED
    BY <1>3, <2>1 DEF Tracker!Kept, e
<1> QED
  BY <1>2, <1>3

TrackBounded ==
  /\ byTool \in [Tracker!Keys -> Nat]
  /\ toolCalls \in 0 .. MaxToolCalls /\ \A k \in Tracker!Keys : byTool[k] <= toolCalls
  /\ running \in BOOLEAN
  /\ Tabled(byCode, MaxCodes) /\ Tabled(byInvocation, MaxInvocations)
  /\ Tabled(repeated, MaxRepeated)

LEMMA TrackStartsBounded == Tracker!Init => TrackBounded
<1> SUFFICES ASSUME Tracker!Init PROVE TrackBounded
  OBVIOUS
<1>1. DOMAIN Tracker!NoEntries = {}
  BY DEF Tracker!NoEntries
<1>2. \A n \in Nat : Tabled(Tracker!NoEntries, n)
  <2> DEFINE q == Tracker!NoEntries
  <2>1. DOMAIN q = {}
    BY <1>1
  <2> HIDE DEF q
  <2>2. \A n \in Nat : Tabled(q, n)
    BY <2>1, FS_EmptySet DEF Tabled
  <2> QED
    BY <2>2 DEF q
<1>3. toolCalls \in 0 .. MaxToolCalls
  BY LimitsAssumption DEF Tracker!Init
<1> QED
  BY <1>2, <1>3, TablesAssumption DEF Tracker!Init, TrackBounded

LEMMA TrackStaysBounded ==
  ASSUME TrackBounded, [Tracker!Next]_trackerVars
  PROVE  TrackBounded'
<1>1. CASE UNCHANGED trackerVars
  BY <1>1 DEF trackerVars, TrackBounded, Tabled
<1>2. CASE Tracker!Next
  <2>0. PICK t \in Names, a \in Args :
          \E r : Tracker!Result(t, a, r) /\ (r.status = "ok" => t \in Registered)
    BY <1>2 DEF Tracker!Next, Tracker!Result
  <2>1. PICK r : Tracker!Result(t, a, r) /\ (r.status = "ok" => t \in Registered)
    BY <2>0
  <2>2. /\ toolCalls < MaxToolCalls /\ toolCalls' = toolCalls + 1 /\ running' = ~Tracker!Ends(t, a, r)
        /\ Tracker!MarkRepeated(t, a, r) /\ Tracker!Observe(t, a, r)
    BY <2>1 DEF Tracker!Result
  <2>3. /\ toolCalls \in Nat /\ MaxToolCalls \in Nat /\ byTool \in [Tracker!Keys -> Nat]
        /\ MaxCodes \in Nat \ {0} /\ MaxInvocations \in Nat \ {0} /\ MaxRepeated \in Nat \ {0}
        /\ \A k \in Tracker!Keys : byTool[k] <= toolCalls
    BY LimitsAssumption, TablesAssumption DEF TrackBounded
  <2>4. toolCalls' \in 0 .. MaxToolCalls /\ running' \in BOOLEAN
    BY <2>2, <2>3 DEF Tracker!Ends
  <2>5. Tabled(repeated', MaxRepeated)
    <3>1. Tabled(repeated, MaxRepeated) /\ MaxRepeated \in Nat
      BY <2>3 DEF TrackBounded
    <3>2. CASE Tracker!Repeats(t, r)
      BY <2>2, <2>3, <3>1, <3>2, KeptTabled DEF Tracker!MarkRepeated, Tracker!Marks
    <3>3. CASE ~Tracker!Repeats(t, r)
      BY <2>2, <3>1, <3>3, WithoutTabled DEF Tracker!MarkRepeated
    <3> QED
      BY <3>2, <3>3
  <2>6. Tabled(byInvocation', MaxInvocations)
    <3>1. Tabled(byInvocation, MaxInvocations) /\ MaxInvocations \in Nat
      BY <2>3 DEF TrackBounded
    <3>2. Tracker!Invoked(t, a, r).at \in Nat
      BY <2>3 DEF Tracker!Invoked, Tracker!Counted
    <3>3. \/ byInvocation' = byInvocation
          \/ \E keys : byInvocation' = Tracker!Without(byInvocation, keys)
          \/ byInvocation' = Tracker!Moved(byInvocation, <<Tracker!Key(t), a, r.codes>>,
                                           Tracker!Invoked(t, a, r), MaxInvocations)
      BY <2>2 DEF Tracker!Observe, Tracker!ForgetTool
    <3> HIDE DEF Tracker!Invoked
    <3> QED
      BY <2>3, <3>1, <3>2, <3>3, WithoutTabled, MovedTabled
  <2>7. Tabled(byCode', MaxCodes)
    <3>1. Tabled(byCode, MaxCodes) /\ MaxCodes \in Nat
      BY <2>3 DEF TrackBounded
    <3> DEFINE key == <<Tracker!Key(t), r.codes>>
               e == Tracker!Counted(byCode, key, 0)
    <3>2. e.at \in Nat
      BY <2>3 DEF Tracker!Counted
    <3>3. \/ byCode' = byCode
          \/ \E keys : byCode' = Tracker!Without(byCode, keys)
          \/ byCode' = Tracker!Moved(byCode, key, e, MaxCodes)
      BY <2>2 DEF Tracker!Observe, Tracker!ForgetTool, Tracker!NoteTool
    <3> HIDE DEF key, e
    <3> QED
      BY <2>3, <3>1, <3>2, <3>3, WithoutTabled, MovedTabled
  <2>8. byTool' \in [Tracker!Keys -> Nat] /\ \A k \in Tracker!Keys : byTool'[k] <= toolCalls'
    <3>1. CASE byTool' = byTool
      BY <2>2, <2>3, <3>1
    <3>2. CASE byTool' = [byTool EXCEPT ![t] = 0]
      <4>1. byTool' \in [Tracker!Keys -> Nat]
        BY <2>3, <3>2
      <4>2. \A k \in Tracker!Keys : byTool'[k] \in {0, byTool[k]}
        BY <2>3, <3>2
      <4>3. toolCalls' \in Nat /\ toolCalls <= toolCalls'
        BY <2>2, <2>3
      <4> QED
        BY <2>3, <4>1, <4>2, <4>3
    <3>3. CASE byTool' = [byTool EXCEPT ![Tracker!Key(t)] = @ + 1]
      BY <2>2, <2>3, <3>3, KeyIsAKey
    <3> QED
      BY <2>2, <3>1, <3>2, <3>3 DEF Tracker!Observe, Tracker!ForgetTool, Tracker!NoteTool
  <2> QED
    BY <2>4, <2>5, <2>6, <2>7, <2>8 DEF TrackBounded
<1> QED
  BY <1>1, <1>2

LEMMA TrackTypes == TrackInv /\ TrackBounded => Tracker!TypeOK
<1> SUFFICES ASSUME TrackInv, TrackBounded PROVE Tracker!TypeOK
  OBVIOUS
<1>1. byTool \in [Tracker!Keys -> 0 .. MaxToolCalls] /\ failed = byTool
  <2>1. \A k \in Tracker!Keys : byTool[k] \in 0 .. MaxToolCalls
    BY LimitsAssumption DEF TrackBounded
  <2> QED
    BY <2>1 DEF TrackBounded, TrackInv
<1> QED
  BY <1>1, TrackCount DEF TrackBounded, Tabled, Tracker!TypeOK

-----------------------------------------------------------------------------
\* MCTools, TypesOK: for any constants, the state of every part keeps its type, the
\* counters stay within their limits and the tables of failures within their sizes
\* (tools/recovery.rs), whatever the documents' calls and other programs do.
THEOREM ToolsTyped ==
  ASSUME \A t \in STRING : Complete(t) \in STRING
  PROVE  MCSpec => []TypesOK
<1> DEFINE Bounded == DigestsBounded /\ PatchNamed /\ NarrowBounded /\ TrackBounded
           Invs == PatchInv /\ PatchFlags /\ ClientInv /\ NarrowInv /\ TrackInv /\ ReadsInv
<1>1. MCInit => DocumentInv /\ Invs /\ Bounded
  <2> SUFFICES ASSUME MCInit PROVE DocumentInv /\ Invs /\ Bounded
    OBVIOUS
  <2>1. Init /\ Patch!Init /\ Client!Init /\ Narrow!Init /\ Tracker!Init /\ Reads!Init /\ Digests!Init
    BY DEF MCInit
  <2>2. DocumentInv /\ Invs
    BY <2>1, DocumentStarts, PatchInit, ClientInit, NarrowInit, TrackInit, ReadsInit,
       RetriesAssumption, LimitAssumption
  <2>3. DigestsBounded
    <3>1. now \in Nat /\ now <= MaxTime /\ -1 \in -1 .. MaxTime
      BY <2>1, LimitsAssumption, SettleAssumption DEF Digests!Init
    <3>2. Digests!NoEntry \in [version : -1 .. MaxTime, hash : Contents \cup {Digests!Unknown},
                               lines : Contents \cup {Digests!Unknown},
                               text : {Digests!Unknown, "no", "yes"}]
      BY <3>1 DEF Digests!NoEntry
    <3>3. Digests!Idle \in [pc : {"idle", "opened", "read", "keep", "done"}, kind : Digests!Kinds,
                            version : -1 .. MaxTime, known : BOOLEAN,
                            read : Contents \cup {Digests!Unknown}, digest : DigestValues,
                            since : Nat]
      BY <3>1 DEF Digests!Idle, Digests!Kinds, DigestValues
    <3> QED
      BY <2>1, <3>1, <3>2, <3>3 DEF Digests!Init, DigestsBounded
  <2>4. PatchNamed
    BY <2>1 DEF Patch!Init, PatchNamed
  <2>5. NarrowBounded
    <3>1. MaxCheckpoints \in Nat /\ MaxRequests \in Nat /\ MaxBatchCalls \in Nat
      BY LimitsAssumption
    <3>2. /\ cp.id = 0 /\ cp.attempts = 0 /\ cp.lookups = 0 /\ batches.id = 0 /\ editHeld.id = 0
          /\ citesHeld.id = 0 /\ offered = {} /\ cpAt = "between" /\ cpCalls = 0
      BY <2>1 DEF Narrow!Init, Narrow!NoCheckpoint, Narrow!Unheld
    <3> QED
      BY <3>1, <3>2 DEF NarrowBounded, Narrow!Lookups
  <2>6. TrackBounded
    BY <2>1, TrackStartsBounded
  <2> QED
    BY <2>2, <2>3, <2>4, <2>5, <2>6
<1>2. DocumentInv /\ [MCNext]_mcVars => DocumentInv'
  <2>1. [MCNext]_mcVars => [Next]_vars
    BY DEF MCNext, mcVars
  <2> QED
    BY <2>1, DocumentSteps
<1>3. Invs /\ [MCNext]_mcVars => Invs'
  BY PartSteps, PatchNext, FlagsNext, ClientNext, NarrowNext, TrackNext, ReadsNext,
     RetriesAssumption, LimitAssumption
<1>4. Invs /\ Bounded /\ [MCNext]_mcVars => Bounded'
  <2> SUFFICES ASSUME Invs, Bounded, [MCNext]_mcVars PROVE Bounded'
    OBVIOUS
  <2>1. NarrowTyped
    BY DEF NarrowInv
  <2> QED
    BY <2>1, PartSteps, DigestsStayBounded, PatchStaysNamed, NarrowStaysBounded, TrackStaysBounded
<1>5. DocumentInv /\ Invs /\ Bounded => TypesOK
  <2> SUFFICES ASSUME DocumentInv, Invs, Bounded PROVE TypesOK
    OBVIOUS
  <2>1. TypeOK
    BY DocumentTypes
  <2>2. Digests!TypeOK
    BY LimitsAssumption DEF DigestsBounded, Digests!TypeOK
  <2> QED
    BY <2>1, <2>2, PatchTypes, ClientTypes, NarrowTypes, TrackTypes, ReadsTypes DEF TypesOK
<1> HIDE DEF Bounded, Invs
<1> QED
  BY <1>1, <1>2, <1>3, <1>4, <1>5, PTL DEF MCSpec, mcVars
=============================================================================

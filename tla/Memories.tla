------------------------------ MODULE Memories ------------------------------
(***************************************************************************)
(* The memories of a session (memory.rs) and the tools that write, find,   *)
(* delete and replace them (tools.rs), with the files their evidence was   *)
(* read from, the references the task holds to them and one paged listing. *)
(***************************************************************************)
EXTENDS Integers, SequencesExt

CONSTANTS Paths,          \* files of the project
          Keys,           \* user-given keys
          Bodies,         \* contents; a larger one is a larger number
          MaxCount, MaxBytes,
          MaxId,          \* bound: memories ever made
          MaxVersion,     \* bound: versions of a file
          MaxGeneration   \* bound: changes of the store

VARIABLES memories,     \* the entries, latest written first
          lastId, generation,
          sources,      \* evidence delivered in the session
          files,        \* the version each file holds
          refs,         \* memory_ids of the task state
          page          \* the listing the caller is reading

vars == <<memories, lastId, generation, sources, files, refs, page>>

Nobody == 0
Nil == -1                 \* no key, no revision
Kinds == {"observed", "inferred", "decision"}    \* a fact, a claim, any other kind
Statuses == {"active", "needs_review"}
Entries == Range(memories)
Stored == {e.id : e \in Entries}
Entry(id) == CHOOSE e \in Entries : e.id = id
Size(e) == e.body + (IF e.status = "needs_review" THEN 1 ELSE 0)
Bytes(s) ==
  LET upTo[n \in 0..Len(s)] == IF n = 0 THEN 0 ELSE upTo[n - 1] + Size(s[n])
  IN upTo[Len(s)]
Drop(s, ids) ==
  LET upTo[n \in 0..Len(s)] ==
        IF n = 0 THEN <<>> ELSE IF s[n].id \in ids THEN upTo[n - 1] ELSE Append(upTo[n - 1], s[n])
  IN upTo[Len(s)]
NoPage == [from |-> Nil, shown |-> <<>>]

TypeOK ==
  /\ \A e \in Entries : e.id \in 1..lastId /\ e.key \in Keys \cup {Nil} /\ e.body \in Bodies
                        /\ e.kind \in Kinds
                        /\ e.status \in Statuses /\ e.revision \in Nat \ {0}
                        /\ e.sources \subseteq Paths \X (0..MaxVersion)
  /\ lastId \in 0..MaxId /\ generation \in 0..MaxGeneration
  /\ sources \subseteq Paths \X (0..MaxVersion) /\ files \in [Paths -> 0..MaxVersion]
  /\ refs \subseteq 1..MaxId /\ page.from \in {Nil} \cup 0..MaxGeneration

Init == /\ memories = <<>> /\ lastId = 0 /\ generation = 0 /\ sources = {}
        /\ files = [p \in Paths |-> 0] /\ refs = {} /\ page = NoPage

---------------------------------------------------------------------------
\* Evidence.

\* The entry cites another version of a file than `changed` found; Nil where
\* it did not look.
Stale(e, changed) == e.status = "active" /\ \E s \in e.sources : changed[s[1]] \notin {Nil, s[2]}
AnyStale(s, changed) == \E e \in Range(s) : Stale(e, changed)
Reviewed(s, changed) ==
  [i \in DOMAIN s |->
     IF Stale(s[i], changed)
     THEN [s[i] EXCEPT !.status = "needs_review", !.revision = @ + 1] ELSE s[i]]

\* stale_paths: active memories whose evidence is of another version.
Becomes(s, gen, changed) ==
  /\ memories' = Reviewed(s, changed)
  /\ generation' = gen + (IF AnyStale(s, changed) THEN 1 ELSE 0)

\* Somebody edits a file of the project.
Edit(p) ==
  /\ files[p] < MaxVersion /\ files' = [files EXCEPT ![p] = @ + 1]
  /\ UNCHANGED <<memories, lastId, generation, sources, refs, page>>

\* A read delivers a file's lines as they are.  A view delivered before is the
\* same source, and marks nothing.
Observe(p) ==
  LET s == <<p, files[p]>> IN
  /\ s \notin sources /\ sources' = sources \cup {s} /\ generation < MaxGeneration
  /\ Becomes(memories, generation, [q \in Paths |-> IF q = p THEN files[p] ELSE Nil])
  /\ UNCHANGED <<lastId, files, refs, page>>

---------------------------------------------------------------------------
\* Writing.  `s` is the store a save works on.

Owner(s, key) == {e.id : e \in {x \in Range(s) : key # Nil /\ x.key = key}}
\* An observed fact keeps evidence, and the caller names the latest revision.
Contract(e, in) ==
  /\ in.kind = "observed" /\ e.sources # {} => in.sources # {}
  /\ in.revision = e.revision
StatusOf(in) == IF in.kind = "inferred" \/ (in.kind = "observed" /\ in.sources = {})
                THEN "needs_review" ELSE "active"
Made(in, id, revision) ==
  [id |-> id, key |-> in.key, body |-> in.body, kind |-> in.kind,
   sources |-> in.sources, status |-> StatusOf(in), revision |-> revision]
Same(e, in) == [e EXCEPT !.id = 0, !.revision = 0] = Made(in, 0, 0)

\* What saving the input gives: the store, whether it was refused, the entry.
Save(s, in) ==
  LET own == Owner(s, in.key)
      old == CHOOSE e \in Range(s) : e.id \in own
      refused == IF own # {} THEN ~Contract(old, in) ELSE in.revision # Nil
      same == {e \in Range(s) : Same(e, in)}
      id == IF own = {} THEN lastId + 1 ELSE old.id
      next == <<Made(in, id, IF own = {} THEN 1 ELSE old.revision + 1)>> \o Drop(s, own)
  IN IF refused THEN [ok |-> FALSE, store |-> s, id |-> Nobody]
     ELSE IF same # {} THEN [ok |-> TRUE, store |-> s, id |-> (CHOOSE e \in same : TRUE).id]
     ELSE [ok |-> Len(next) <= MaxCount /\ Bytes(next) <= MaxBytes, store |-> next, id |-> id]

\* The evidence a call names was delivered, or a memory still holds it.
Known == sources \cup UNION {e.sources : e \in Entries}
\* Revision 0 stands for a key no memory has.
Sent(in) == IF in.revision = 0 /\ in.key # Nil /\ Owner(memories, in.key) = {}
            THEN [in EXCEPT !.revision = Nil] ELSE in

Write(in) ==
  LET r == Save(memories, Sent(in))
      grown == IF r.store = memories THEN generation ELSE generation + 1
  IN /\ generation < MaxGeneration /\ in.sources \subseteq Known
     /\ r.ok /\ r.id <= MaxId /\ grown < MaxGeneration
     /\ lastId' = IF r.id > lastId THEN r.id ELSE lastId
     /\ Becomes(r.store, grown, files)
     /\ UNCHANGED <<sources, files, refs, page>>

\* memory_read and every page of memory_find look at the evidence first.
Read ==
  /\ generation < MaxGeneration /\ Becomes(memories, generation, files)
  /\ UNCHANGED <<lastId, sources, files, refs, page>>

\* All of the entries a call names, or none.
Delete(ids) ==
  /\ ids # {} /\ ids \subseteq Stored /\ ids \cap refs = {} /\ generation + Cardinality(ids) <= MaxGeneration
  /\ memories' = Drop(memories, ids) /\ generation' = generation + Cardinality(ids)
  /\ UNCHANGED <<lastId, sources, files, refs, page>>

\* Mutant: references are left as they are.
RedirectNone(ids, id) == refs

\* The references to what is replaced are to the new entry.
Redirect(ids, id) == IF refs \cap ids = {} THEN refs ELSE (refs \ ids) \cup {id}
\* The replaced entries leave as the new one comes: a copy is changed, so that
\* what refuses the save refuses all of it.
Replace(ids, in) ==
  LET sent == Sent(in)
      own == Owner(memories, in.key)
      allowed == own \subseteq ids /\ (own # {} => Contract(Entry(CHOOSE o \in own : TRUE), sent))
      r == Save(Drop(memories, ids), [sent EXCEPT !.revision = IF own = {} THEN @ ELSE Nil])
  IN /\ generation + 2 <= MaxGeneration
     /\ ids # {} /\ ids \subseteq Stored /\ in.sources \subseteq Known
     /\ allowed /\ r.ok /\ r.id <= MaxId
     /\ lastId' = IF r.id > lastId THEN r.id ELSE lastId
     /\ Becomes(r.store, generation + 1, files)
     /\ refs' = Redirect(ids, r.id)
     /\ UNCHANGED <<sources, files, page>>

\* task_state names the memories of the task; a new task starts with none.
Refer(ids) ==
  /\ ids \subseteq Stored /\ refs' = ids
  /\ UNCHANGED <<memories, lastId, generation, sources, files, page>>

---------------------------------------------------------------------------
\* A listing, a page of one entry at a time: a cursor is of one generation.
Shown(from, shown) ==
  LET rows == Reviewed(memories, files)
  IN page' = IF Len(shown) < Len(rows) THEN [from |-> from, shown |-> Append(shown, rows[Len(shown) + 1].id)]
             ELSE NoPage
Find(continue) ==
  LET gen == generation + (IF AnyStale(memories, files) THEN 1 ELSE 0)
  IN /\ gen <= MaxGeneration /\ Becomes(memories, generation, files)
     /\ IF ~continue THEN Shown(gen, <<>>)
        ELSE page.from = gen /\ Shown(gen, page.shown)     \* cursor_expired
     /\ UNCHANGED <<lastId, sources, files, refs>>

Inputs == [key : Keys \cup {Nil}, body : Bodies, kind : Kinds,
           sources : {{}} \cup {{s} : s \in Known},
           revision : {Nil, 0} \cup {e.revision : e \in Entries}]

Next ==
  \/ \E p \in Paths : Edit(p) \/ Observe(p)
  \/ \E in \in Inputs : Write(in) \/ \E ids \in (SUBSET Stored) \ {{}} : Replace(ids, in)
  \/ \E ids \in SUBSET Stored : Delete(ids) \/ Refer(ids)
  \/ Read \/ \E continue \in BOOLEAN : Find(continue)

Spec == Init /\ [][Next]_vars

---------------------------------------------------------------------------
\* The task's references name memories that exist, or no request could be
\* built again; a listing continued by its cursor skips and repeats nothing; a
\* key names one memory.
Consistent ==
  /\ refs \subseteq Stored
  /\ page.from = generation =>
       \A i \in DOMAIN page.shown : i \in DOMAIN memories /\ memories[i].id = page.shown[i]
  /\ \A i, j \in DOMAIN memories : i # j =>
       memories[i].id # memories[j].id /\ (memories[i].key = Nil \/ memories[i].key # memories[j].key)

\* What is stored fits, but for the notes of a review; an observed fact is
\* active only with evidence.
Sound ==
  /\ Len(memories) <= MaxCount
  /\ Bytes([i \in DOMAIN memories |-> [memories[i] EXCEPT !.status = "active"]]) <= MaxBytes
  /\ \A e \in Entries : e.status = "active" =>
       e.kind = "decision" \/ (e.kind = "observed" /\ e.sources # {})

\* No step leaves a new or changed entry active whose evidence the files no
\* longer bear out.
AddsCurrent ==
  \A e \in Range(memories') \ Entries :
    e.status = "active" => \A s \in e.sources : files[s[1]] = s[2]

\* The store stays consistent and sound, and a step adds as active only what is
\* current.
MemoriesKept == [](Consistent /\ Sound) /\ [][AddsCurrent]_vars
=============================================================================

------------------------------ MODULE TaskPlan ------------------------------
(***************************************************************************)
(* The ordered to-do list of a task (tools/task_plan.rs).  One call applies *)
(* a batch of operations to a copy, in the order given but for completions  *)
(* that wait for the items ahead of them, and commits the copy as a whole   *)
(* or leaves the plan alone.  Texts and results are values; how a call's    *)
(* JSON is read is not modelled beyond what it can refuse.                  *)
(***************************************************************************)
EXTENDS Integers, SequencesExt

CONSTANTS Texts,          \* texts of items
          Unusable,       \* those of them that only name files, or are too long
          MaxPending, MaxCompleted,
          MaxId,          \* bound: items ever made
          MaxRevision     \* bound: revisions of the plan

VARIABLES plan,       \* [todos, sequence, total]
          revision,   \* plan_revision
          closing,    \* the run finishes from what it gathered
          told        \* items the last reply said are completed

vars == <<plan, revision, closing, told>>

Todos == [id : 1..MaxId, text : Texts \ Unusable, done : BOOLEAN]
\* The places of the unfinished and of the completed items.
Open(p) == {i \in DOMAIN p.todos : ~p.todos[i].done}
Done(p) == {i \in DOMAIN p.todos : p.todos[i].done}

TypeOK ==
  /\ Range(plan.todos) \subseteq Todos /\ plan.sequence \in 0..MaxId
  /\ plan.total \in Nat /\ revision \in 0..MaxRevision
  /\ closing \in BOOLEAN /\ told \subseteq 1..MaxId

Init == /\ plan = [todos |-> <<>>, sequence |-> 0, total |-> 0]
        /\ revision = 0 /\ closing = FALSE /\ told = {}

---------------------------------------------------------------------------
\* One operation on a plan: the plan it gives, or why it is refused.  `before`
\* is 0 where it is omitted.

Applied(p) == [code |-> "ok", plan |-> p]
Refused(p) == [code |-> "refused", plan |-> p]
IsItem(p, id, done) == \E t \in Range(p.todos) : t.id = id /\ t.done = done
Index(p, id) == CHOOSE i \in DOMAIN p.todos : p.todos[i].id = id
Anchor(p, before) == before = 0 \/ IsItem(p, before, FALSE)
Position(p, before) == IF before = 0 THEN Len(p.todos) + 1 ELSE Index(p, before)

Splice(s, at, items) == SubSeq(s, 1, at - 1) \o items \o SubSeq(s, at, Len(s))
Without(p, id) == [p EXCEPT !.todos = RemoveAt(@, Index(p, id))]
Put(p, at, items) == [p EXCEPT !.todos = Splice(@, at, items)]
New(p, texts) ==
  [i \in DOMAIN texts |-> [id |-> p.sequence + i, text |-> texts[i], done |-> FALSE]]
\* Texts that may stand in the plan beside the items other than `except`.
Unique(p, texts, except) ==
  /\ Range(texts) \cap Unusable = {} /\ IsInjective(texts)
  /\ \A t \in Range(p.todos) : t.id # except => t.text \notin Range(texts)

Insert(p, o) ==
  IF Anchor(p, o.before) /\ Unique(p, o.texts, 0)
  THEN Applied([Put(p, Position(p, o.before), New(p, o.texts))
                EXCEPT !.sequence = @ + Len(o.texts)])
  ELSE Refused(p)

Update(p, o) ==
  IF IsItem(p, o.id, FALSE) /\ Unique(p, o.texts, o.id)
  THEN Applied([p EXCEPT !.todos[Index(p, o.id)].text = Head(o.texts)]) ELSE Refused(p)

\* The first part keeps the item's ID, the others follow it.
Split(p, o) ==
  LET at == Index(p, o.id)
      first == [p EXCEPT !.todos[at].text = Head(o.texts)]
  IN IF /\ IsItem(p, o.id, FALSE) /\ Len(o.texts) > 1 /\ Unique(p, o.texts, o.id)
        /\ p.todos[at].text \notin Range(o.texts)
     THEN Applied([Put(first, at + 1, New(p, Tail(o.texts)))
                   EXCEPT !.sequence = @ + Len(o.texts) - 1])
     ELSE Refused(p)

Move(p, o) ==
  LET rest == Without(p, o.id)
  IN IF ~IsItem(p, o.id, FALSE) THEN Refused(p)
     ELSE IF o.before = o.id THEN Applied(p)
     ELSE IF Anchor(rest, o.before)
     THEN Applied(Put(rest, Position(rest, o.before), <<p.todos[Index(p, o.id)]>>))
     ELSE Refused(p)

Drop(p, o) == IF IsItem(p, o.id, FALSE) THEN Applied(Without(p, o.id)) ELSE Refused(p)

Ahead(p, id) == {p.todos[i].id : i \in {j \in 1..(Index(p, id) - 1) : ~p.todos[j].done}}
Complete(p, o) ==
  IF IsItem(p, o.id, TRUE) THEN Applied(p)
  ELSE IF ~IsItem(p, o.id, FALSE) THEN Refused(p)
  ELSE IF Ahead(p, o.id) # {} THEN [code |-> "out_of_order", plan |-> p]
  ELSE Applied([p EXCEPT !.todos[Index(p, o.id)].done = TRUE, !.total = @ + 1])

\* A reopened item becomes the current one.
Reopen(p, o) ==
  LET rest == Without(p, o.id)
      to == IF Open(rest) = {} THEN Len(rest.todos) + 1 ELSE Min(Open(rest))
  IN IF IsItem(p, o.id, TRUE)
     THEN Applied(Put(rest, to, <<[p.todos[Index(p, o.id)] EXCEPT !.done = FALSE]>>))
     ELSE Refused(p)

Apply(p, o) == CASE o.op = "insert" -> Insert(p, o)
                 [] o.op = "update" -> Update(p, o)
                 [] o.op = "split" -> Split(p, o)
                 [] o.op = "move" -> Move(p, o)
                 [] o.op = "remove" -> Drop(p, o)
                 [] o.op = "complete" -> Complete(p, o)
                 [] o.op = "reopen" -> Reopen(p, o)

---------------------------------------------------------------------------
\* A batch on a copy of the plan.

Finishes(o, id) == o.op \in {"complete", "remove"} /\ o.id = id

\* Waiting completions whose turn has come apply right away.
Ready(s) == {i \in DOMAIN s.waiting : Apply(s.plan, s.waiting[i]).code # "out_of_order"}
Follow(s) ==
  LET i == Min(Ready(s))
      r == Apply(s.plan, s.waiting[i])
  IN [plan |-> r.plan, waiting |-> RemoveAt(s.waiting, i), failed |-> r.code # "ok"]
Settle(s) ==
  LET after[n \in 0..Len(s.waiting)] ==
        IF n = 0 THEN s
        ELSE LET t == after[n - 1] IN IF t.failed \/ Ready(t) = {} THEN t ELSE Follow(t)
  IN after[Len(s.waiting)]

\* A completion that only the rest of the batch holds up waits for it.
Waits(s, ops, i) ==
  \A id \in Ahead(s.plan, ops[i].id) :
     \E o \in Range(SubSeq(ops, i + 1, Len(ops)) \o s.waiting) : Finishes(o, id)
Step(s, ops, i) ==
  LET r == Apply(s.plan, ops[i])
  IN IF s.failed THEN s
     ELSE IF r.code = "ok" THEN Settle([s EXCEPT !.plan = r.plan])
     ELSE IF r.code = "out_of_order" /\ Waits(s, ops, i)
     THEN [s EXCEPT !.waiting = Append(@, ops[i])]
     ELSE [s EXCEPT !.failed = TRUE]

\* Mutant: what still waits is forgotten.
RestDropped(s) == s

\* What still waits at the end is applied, or refuses the batch.
Rest(s) ==
  LET after[n \in 0..Len(s.waiting)] ==
        IF n = 0 THEN s
        ELSE LET t == after[n - 1]
                 r == Apply(t.plan, s.waiting[n])
             IN [t EXCEPT !.plan = r.plan, !.failed = @ \/ r.code # "ok"]
  IN after[Len(s.waiting)]

\* The oldest completed items leave.
DropOldest(p) ==
  LET after[n \in 0..Len(p.todos)] ==
        IF n = 0 THEN p
        ELSE LET q == after[n - 1]
             IN IF Cardinality(Done(q)) <= MaxCompleted THEN q
                ELSE [q EXCEPT !.todos = RemoveAt(@, Min(Done(q)))]
  IN after[Len(p.todos)]

\* What a call tries; a refused batch leaves nothing of it.
Trial(p, ops) ==
  LET start == [plan |-> p, waiting |-> <<>>, failed |-> FALSE]
      after[n \in 0..Len(ops)] == IF n = 0 THEN start ELSE Step(after[n - 1], ops, n)
      s == Rest(after[Len(ops)])
      ok == ~s.failed /\ Cardinality(Open(s.plan)) <= MaxPending
  IN [ok |-> ok, plan |-> IF ok THEN DropOldest(s.plan) ELSE p]

---------------------------------------------------------------------------
\* The revision a call names must be the plan's; -1 stands for none.
Expected(sent) == sent = revision \/ (sent = -1 /\ revision = 0 /\ plan.todos = <<>>)

\* What a reply that says "applied" reports as completed.
Completed(ops) ==
  {ops[i].id : i \in {j \in DOMAIN ops :
     ops[j].op = "complete"
     /\ \A k \in (j + 1)..Len(ops) : ~(ops[k].op = "reopen" /\ ops[k].id = ops[j].id)}}

\* action=apply.  `fits`: the state stays within its token and byte limits.
Commit(next, completed, fits) ==
  IF next # plan /\ ~fits THEN UNCHANGED vars
  ELSE /\ plan' = next /\ told' = completed
       /\ revision' = revision + (IF next = plan THEN 0 ELSE 1)
       /\ UNCHANGED closing

\* The operations of a call name items that were made, or one that was not.
Item == 1..(IF plan.sequence < MaxId THEN plan.sequence + 1 ELSE MaxId)
Operations(T, pairs) ==
  [op : {"insert"}, texts : {<<x>> : x \in T}, id : {0}, before : Item \cup {0}]
  \cup [op : {"split"}, texts : pairs, id : Item, before : {0}]
  \cup [op : {"update"}, texts : {<<x>> : x \in T}, id : Item, before : {0}]
  \cup [op : {"move"}, texts : {<<>>}, id : Item, before : Item \cup {0}]
  \cup [op : {"remove", "complete", "reopen"}, texts : {<<>>}, id : Item, before : {0}]
\* Longer batches finish items, in any order, and move or reopen one between.
Finishing == [op : {"remove", "complete"}, texts : {<<>>}, id : Item, before : {0}]
Usual == Operations(Texts \ Unusable,
                    {x \in (Texts \ Unusable) \X (Texts \ Unusable) : x[1] # x[2]})
Between == {o \in Usual : o.op \in {"move", "reopen", "complete", "remove"}}
Batches == {<<o>> : o \in Operations(Texts, Texts \X Texts)}
           \cup {<<o, q>> : o \in Usual, q \in Usual}
           \cup {<<o, q, r>> : o \in Finishing, q \in Between, r \in Finishing}

Execute(sent) ==
  /\ revision < MaxRevision
  /\ IF ~Expected(sent) THEN UNCHANGED vars
     ELSE \E t \in {<<Trial(plan, ops), Completed(ops)>> : ops \in Batches} :
            /\ t[1].plan.sequence <= MaxId
            /\ IF t[1].ok /\ (closing => Cardinality(Open(t[1].plan)) <= Cardinality(Open(plan)))
               THEN \E fits \in BOOLEAN : Commit(t[1].plan, t[2], fits)
               ELSE UNCHANGED vars

\* The run enters closing mode, or a message gives it new work.
Closing(on) == closing' = on /\ UNCHANGED <<plan, revision, told>>

Next ==
  \/ \E sent \in {-1, revision, revision + 1} : Execute(sent)
  \/ \E on \in BOOLEAN : Closing(on)

Spec == Init /\ [][Next]_vars

---------------------------------------------------------------------------
\* Completed items stand before the unfinished ones, IDs and texts are unique,
\* the limits are kept, and no item an applied call reported complete is left
\* open, however the call ordered its operations.
DoneIds(p) == {p.todos[i].id : i \in Done(p)}
Ordered ==
  /\ \A i, j \in DOMAIN plan.todos : i < j /\ plan.todos[j].done => plan.todos[i].done
  /\ \A i, j \in DOMAIN plan.todos : i # j =>
       plan.todos[i].id # plan.todos[j].id /\ plan.todos[i].text # plan.todos[j].text
Limited == Cardinality(Open(plan)) <= MaxPending /\ Cardinality(Done(plan)) <= MaxCompleted
Truthful == \A i \in Open(plan) : plan.todos[i].id \notin told

\* A change has a revision of its own and adds nothing in closing mode.  What
\* stands before a completed item that the call does not report stood before it
\* already.  An item the call completed leaves at once only where the ones it
\* completed afterwards fill the list.
Precedes(p, a, b) ==
  \E i, j \in DOMAIN p.todos : i < j /\ p.todos[i].id = a /\ p.todos[j].id = b
ChangesAsTold ==
  plan' # plan =>
    /\ revision' = revision + 1 /\ plan'.total >= plan.total
    /\ closing => Cardinality(Open(plan')) <= Cardinality(Open(plan))
    /\ \A i, j \in DOMAIN plan'.todos :
         i < j /\ plan'.todos[j].id \in (DoneIds(plan) \cap DoneIds(plan')) \ told'
           => Precedes(plan, plan'.todos[i].id, plan'.todos[j].id)
    /\ \A i \in Open(plan) : plan.todos[i].id \in told' \ DoneIds(plan')
         => Cardinality(Done(plan')) = MaxCompleted /\ DoneIds(plan') \subseteq told'

\* The plan changes as a whole or not at all.
PlanWhole == [](Ordered /\ Limited /\ Truthful) /\ [][ChangesAsTold]_vars
=============================================================================

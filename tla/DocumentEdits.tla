--------------------------- MODULE DocumentEdits ---------------------------
(***************************************************************************)
(* document_edit and document_edit_batch (tools.rs), and the hash the agent *)
(* fills in for a later edit of one response (agent.rs).  The document is a *)
(* sequence of Markdown sections in file order; a hash is the text it is    *)
(* of.  Other programs edit the same file: the configured output is not     *)
(* under the write gate of WriteGate.                                       *)
(***************************************************************************)
EXTENDS Integers, SequencesExt, FiniteSetsExt, Ascending

CONSTANTS Calls,             \* bound: what the first call may be, the second, and so on:
                             \* a sequence of edits, one for document_edit, more for a batch
          Others,            \* what other programs save
          Long,              \* texts of 20 characters or more
          Complete(_),       \* a citation's text with its file's project path
          Absent, None, Malformed,   \* no document; no hash; a hash no tool issued
          MaxOthers, MaxLooks        \* bounds: saves by other programs, inspections

VARIABLES doc,               \* the configured output
          last,              \* last_document_write: what the last save wrote
          written,           \* document_written: saved in this task
          withheld,          \* whole_write_withheld
          chained,           \* batch_document_hash: the last save's of this response
          call,              \* the call under way
          given,             \* what the hashes in this task's results are of
          calls, others, looks   \* bounds' counters

vars == <<doc, last, written, withheld, chained, call, given, calls, others, looks>>
task == <<last, written, withheld, chained>>

Idle == [phase |-> "idle"]
Known == doc # Absent

\* Text above the first heading: under nothing, and over nothing.
Preamble == [level |-> 7, num |-> <<>>, name |-> ""]
Heads == [level : 1 .. 6, num : Seq(Nat), name : STRING] \cup {Preamble}
Sections == [head : Heads, body : Seq(STRING)]

Actions == {"create", "write", "append", "section", "insert_before", "insert_after",
            "insert_first_child", "insert_last_child", "replace_text", "delete_text",
            "insert_before_text", "insert_after_text"}

\* What a call may carry of an edit; only one that names a section pins it.
Edits ==
  {e \in [action : Actions, text : Seq(Sections), lines : Seq(STRING), old : STRING,
          section : Seq(Heads), pinned : BOOLEAN] : e.pinned => e.section # <<>>}

ASSUME BoundsAssumption == MaxOthers \in Nat /\ MaxLooks \in Nat
ASSUME CallsAssumption == Calls \in Seq(SUBSET (Seq(Edits) \ {<<>>}))
ASSUME TextsAssumption == Others \subseteq Seq(Sections)
ASSUME HashesAssumption ==
  {Absent, None, Malformed} \cap Seq(Sections) = {} /\ None # Malformed

---------------------------------------------------------------------------
\* Headings and sections.

\* Markdown: a section ends at the next heading of its level or above it.
End(d, i) ==
  LET next == {j \in i + 1 .. Len(d) : d[j].head.level <= d[i].head.level}
  IN  IF next = {} THEN Len(d) + 1 ELSE Min(next)
Extent(d, i) == SubSeq(d, i, End(d, i) - 1)

\* heading_paths: the headings a heading stands under, itself last.
Over(d, i) == {j \in 1 .. i : \A k \in j + 1 .. i : d[k].head.level > d[j].head.level}
Headings(d, S) == LET order == InOrder(S) IN [n \in DOMAIN order |-> d[order[n]].head]
Path(d, i) == Headings(d, Over(d, i))
Parent(d, i) == Front(Path(d, i))

\* resolve_heading: a heading, or its path, that only one section has.
Found(d, ref) ==
  {i \in DOMAIN d : IF Len(ref) = 1 THEN d[i].head = ref[1] ELSE Path(d, i) = ref}
Unique(d, ref) == Cardinality(Found(d, ref)) = 1
Named(d, ref) == {i \in Found(d, ref) : Unique(d, ref)}

\* number_rank: 4.10 follows 4.9.
Above(a, b) ==
  \E n \in DOMAIN a : /\ n <= Len(b) + 1 /\ SubSeq(a, 1, n - 1) = SubSeq(b, 1, n - 1)
                      /\ n <= Len(b) => a[n] > b[n]
Numbered(d, i) == d[i].head.num # <<>>
Siblings(d, i) ==
  {j \in DOMAIN d : j # i /\ d[j].head.level = d[i].head.level /\ Parent(d, j) = Parent(d, i)}

---------------------------------------------------------------------------
\* What an edit makes of a document: the result, or none when it is refused.

Written(e) == IF e.text = <<>> THEN <<[head |-> Preamble, body |-> e.lines]>> ELSE e.text

\* Text that goes on where the document's last line ends.
Extended(d, lines) == [d EXCEPT ![Len(d)].body = @ \o lines]

AppendedFits(d, i) ==
  /\ \A j \in DOMAIN d : j # i => Path(d, j) # Path(d, i)
  /\ Numbered(d, i) => \A j \in Siblings(d, i) :
       /\ d[j].head.num # d[i].head.num
       /\ (j < i /\ Numbered(d, j)) => ~Above(d[j].head.num, d[i].head.num)

Append_(d, e) ==
  IF e.text = <<>> THEN {Extended(d, e.lines)}
  ELSE {c \in {d \o e.text} : \A i \in Len(d) + 1 .. Len(c) : AppendedFits(c, i)}

Child(e) == e.action \in {"insert_first_child", "insert_last_child"}

Inserted(d, e, at) ==
  LET level == d[at].head.level + (IF Child(e) THEN 1 ELSE 0)
      first == {j \in at + 1 .. End(d, at) - 1 : d[j].head.level = level}
      before == CASE e.action = "insert_before" -> at
                  [] e.action = "insert_first_child" /\ first # {} -> Min(first)
                  [] OTHER -> End(d, at)
      new == SubSeq(d, 1, before - 1) \o e.text \o SubSeq(d, before, Len(d))
      alone == \A k \in DOMAIN e.text :
                 e.text[k].head.level = level => Unique(new, Path(new, before - 1 + k))
  IN  {c \in {new} : /\ level <= 6 /\ e.text # <<>> /\ e.text[1].head.level = level
                     /\ \A k \in DOMAIN e.text : e.text[k].head.level >= level
                     /\ alone}

\* An empty peer only points at the next section: it is left out.
EmptyPeers(text, level) ==
  {k \in 2 .. Len(text) : text[k].head.level <= level /\ Extent(text, k) = <<text[k]>>
                          /\ text[k].body = <<>>}
WithoutEmpty(text, level) ==
  LET keep == InOrder(DOMAIN text \ EmptyPeers(text, level))
  IN  [n \in DOMAIN keep |-> text[keep[n]]]

\* The section's own hash, or the document's, which pins every section.
SectionHashNames(d, i, pin) == pin \in {None, Extent(d, i), d}

SameHeading(head, new) ==
  \/ new = head
  \/ (new.level = head.level /\ new.num = head.num /\ head.num # <<>>)

PeerFits(d, i, peer) ==
  LET head == d[i].head
      siblings == {j \in DOMAIN d : Parent(d, j) = Parent(d, i) /\ Numbered(d, j)
                                    /\ d[j].head.level = peer.level /\ d[j].head.num = peer.num}
  IN  /\ peer.level = head.level
      /\ head.num # <<>> => ~IsStrictPrefix(head.num, peer.num)
      /\ \A j \in siblings : d[j].head = peer
      /\ \A j \in DOMAIN d : d[j].head # peer

SectionAt(d, e, pin, i) ==
  LET text == WithoutEmpty(e.text, d[i].head.level)
      new == SubSeq(d, 1, i - 1) \o text \o SubSeq(d, End(d, i), Len(d))
      peers == {k \in 2 .. Len(text) : text[k].head.level <= d[i].head.level}
  IN  {c \in {new} :
        /\ SectionHashNames(d, i, pin)
        /\ text # <<>> /\ SameHeading(d[i].head, text[1].head)
        /\ \A k \in peers : PeerFits(d, i, text[k].head)
        /\ Unique(c, IF text[1].head = d[i].head THEN e.section ELSE Path(c, i))}

\* The one place in the document, or in the section named, that old_text has.
Places(d, scope, old) ==
  {p \in UNION {{i} \X DOMAIN d[i].body : i \in scope} : d[p[1]].body[p[2]] = old}
Times(text, old) == Cardinality({k \in DOMAIN text : text[k] = old})
Insertion(e) == e.action \in {"insert_before_text", "insert_after_text"}

\* A text that repeats the long passage it goes beside replaces it.
RepeatedIn(e) == IF Insertion(e) /\ e.old \in Long THEN Times(e.lines, e.old) ELSE 0
Spliced(e) == CASE ~Insertion(e) \/ RepeatedIn(e) = 1 -> e.lines
                [] e.action = "insert_before_text" /\ RepeatedIn(e) # 1 -> Append(e.lines, e.old)
                [] OTHER -> <<e.old>> \o e.lines

TextAt(d, e, p) ==
  [d EXCEPT ![p[1]].body = SubSeq(@, 1, p[2] - 1) \o Spliced(e) \o SubSeq(@, p[2] + 1, Len(@))]
TextIn(d, e, scope) ==
  LET places == Places(d, scope, e.old)
  IN  IF (Cardinality(places) # 1) \/ RepeatedIn(e) > 1 THEN {}
      ELSE {TextAt(d, e, p) : p \in places}

Anchored(e) == e.action \in {"replace_text", "delete_text", "insert_before_text",
                             "insert_after_text"}
Structural(e) == e.action \in {"append", "section", "insert_before", "insert_after",
                               "insert_first_child", "insert_last_child"}

\* apply_document_edit_text, with the section hash "pin" the edit carries.
Results(d, e, pin) ==
  LET at == Named(d, e.section)
  IN  CASE e.action \in {"create", "write"} -> {Written(e)}
        [] e.action = "append" -> Append_(d, e)
        [] e.action = "section" -> UNION {SectionAt(d, e, pin, i) : i \in at}
        [] Anchored(e) /\ e.section = <<>> -> TextIn(d, e, DOMAIN d)
        [] Anchored(e) /\ e.section # <<>> ->
             UNION {TextIn(d, e, i .. End(d, i) - 1) :
                      i \in {j \in at : SectionHashNames(d, j, pin)}}
        [] OTHER -> UNION {Inserted(d, e, i) : i \in at}

\* rebase_document_hash: the batch's first document's hash still names a section
\* that the batch's earlier edits left as it was.
Rebased(e, pin, first, d) ==
  LET before == Found(first, e.section)  after == Found(d, e.section)
  IN  IF /\ pin = first /\ e.section # <<>> /\ Cardinality(before) = 1 /\ Cardinality(after) = 1
         /\ \E i \in before, j \in after : Extent(first, i) = Extent(d, j)
      THEN Extent(d, CHOOSE j \in after : TRUE) ELSE pin

Pin(c, e) == IF e.pinned THEN c.pin ELSE None

\* The edits in turn; one that fails is left out, and the call then saves nothing.
Applied(d, c) ==
  LET at[n \in 0 .. Len(c.edits)] ==
        IF n = 0 THEN [doc |-> d, failed |-> FALSE]
        ELSE LET e == c.edits[n]  so == at[n - 1]
                 made == Results(so.doc, e, Rebased(e, Pin(c, e), d, so.doc))
             IN  IF made = {} THEN [so EXCEPT !.failed = TRUE]
                 ELSE [so EXCEPT !.doc = CHOOSE r \in made : TRUE]
  IN  at[Len(c.edits)]

\* complete_citation_paths, on the whole text to save.
Completed(d) ==
  [i \in DOMAIN d |-> [d[i] EXCEPT !.body = [k \in DOMAIN @ |-> Complete(@[k])]]]

---------------------------------------------------------------------------
Init ==
  /\ doc \in Others \cup {Absent}
  /\ last = None /\ written = FALSE /\ withheld = FALSE /\ chained = None
  /\ call = Idle /\ given = {} /\ calls = 0 /\ others = 0 /\ looks = 0

\* Another program saves or deletes the output.  "raced": after the call's last look.
Other ==
  /\ others < MaxOthers /\ others' = others + 1
  /\ doc' \in (Others \cup {Absent}) \ {doc}
  /\ call' = IF call.phase = "checked" THEN [call EXCEPT !.raced = TRUE] ELSE call
  /\ UNCHANGED <<task, given, calls, looks>>

\* document_inspect, of the outline or of a section.
Inspect ==
  /\ call = Idle /\ Known /\ looks < MaxLooks /\ looks' = looks + 1
  /\ \E i \in 0 .. Len(doc) :
       given' = given \cup {doc} \cup (IF i = 0 THEN {} ELSE {Extent(doc, i)})
  /\ UNCHANGED <<doc, task, call, calls, others>>

Single(c) == Len(c.edits) = 1
Batch(c) == Len(c.edits) > 1
First(c) == c.edits[1]

\* rebase_document_call: a hash the model left out is the response's last save's.
Chained(c) ==
  IF chained = None \/ c.sent # None \/ First(c).action = "create" THEN c
  ELSE [c EXCEPT !.expected = chained]

\* A first append is a create; an edit right after our own save gets its hash.
Normalised(c) ==
  CASE Single(c) /\ First(c).action = "append" /\ ~Known ->
         [c EXCEPT !.edits[1].action = "create", !.expected = None]
    [] Single(c) /\ Structural(First(c)) /\ c.expected = None /\ last # None /\ doc = last ->
         [c EXCEPT !.expected = last]
    [] OTHER -> c

Writes(c) == \E i \in DOMAIN c.edits : c.edits[i].action = "write"

\* section_edit_needs: a section edit names a version, of the section or of all.
HasNeeds(c) ==
  Single(c) /\ First(c).action = "section" => First(c).pinned \/ c.expected # None

Call ==
  /\ call = Idle /\ calls < Len(Calls) /\ calls' = calls + 1
  /\ \E edits \in Calls[calls'], sent \in given \cup {None, Malformed},
        pin \in given \cup {Malformed} :
       LET c == Normalised(Chained([phase |-> "called", edits |-> edits, sent |-> sent, pin |-> pin,
                                    expected |-> sent, old |-> Absent, result |-> Absent,
                                    raced |-> FALSE]))
       IN  /\ (\E i \in DOMAIN edits : edits[i].pinned) \/ pin = Malformed
           /\ ~(withheld /\ Writes(c)) /\ HasNeeds(c)
           /\ call' = c
  /\ UNCHANGED <<doc, task, given, others, looks>>

---------------------------------------------------------------------------
\* The call reads the output and stages its result.

Refused(c) == call' = Idle /\ UNCHANGED <<doc, task, calls, others, looks>>
Told(values) == given' = given \cup values

SelfPinned(c) ==
  Single(c) /\ (Anchored(First(c)) \/ (First(c).action = "section" /\ First(c).pinned))

Exists(c) == Single(c) /\ First(c).action = "create" /\ Known
Missing(c) == ~Known /\ (Batch(c) \/ First(c).action \notin {"create", "write"})
HashMissing(c) == Known /\ ~Exists(c) /\ c.expected = None /\ ~SelfPinned(c)
Stale(c) == Known /\ ~Exists(c) /\ c.expected \notin {None, doc}
OnDisk == IF Known THEN doc ELSE <<>>
Fails(c) == Applied(OnDisk, c).failed
Unchanged(c) == Known /\ written /\ Applied(doc, c).doc = doc

\* Errors that carry the current hash: document_exists, document_unchanged, a stale
\* hash after our own save, a malformed one that lost a part of it.
Refuse ==
  /\ call.phase = "called" /\ Refused(call)
  /\ \/ Exists(call) /\ Told({doc})
     \/ (Missing(call) \/ HashMissing(call)) /\ Told({})
     \/ Stale(call) /\ call.expected # Malformed /\ Told(IF doc = last THEN {doc} ELSE {})
     \/ Stale(call) /\ call.expected = Malformed /\ \E t \in {{}, {doc}} : Told(t)
     \/ /\ ~(Exists(call) \/ Missing(call) \/ HashMissing(call) \/ Stale(call))
        /\ \/ Fails(call) /\ Told({})
           \/ ~Fails(call) /\ Unchanged(call) /\ Told({doc})

Stage ==
  /\ call.phase = "called"
  /\ ~(Exists(call) \/ Missing(call) \/ HashMissing(call) \/ Stale(call))
  /\ ~Fails(call) /\ ~Unchanged(call)
  /\ call' = [call EXCEPT !.phase = "staged", !.old = doc,
                          !.result = Completed(Applied(OnDisk, call).doc)]
  /\ UNCHANGED <<doc, task, given, calls, others, looks>>

\* Mutant: only whether the output exists is compared.
StillThere(c) == Known <=> c.old # Absent

\* persist_document_edit: the text is in a temporary file; is the output what it was?
SameAsRead(c) == doc = c.old

Check ==
  /\ call.phase = "staged"
  /\ call' = IF SameAsRead(call) THEN [call EXCEPT !.phase = "checked"] ELSE Idle
  /\ UNCHANGED <<doc, task, given, calls, others, looks>>

\* Renaming onto a document; a new one is only put where there is none.
Save ==
  /\ call.phase = "checked" /\ (call.old = Absent => ~Known)
  /\ doc' = call.result /\ last' = call.result /\ chained' = call.result
  /\ written' = TRUE /\ withheld' = FALSE
  /\ call' = Idle /\ Told({call.result})
  /\ UNCHANGED <<calls, others, looks>>

\* The call is cancelled, or writing fails: persist_noclobber, for one, when another
\* program has made the document.
Drop ==
  /\ call.phase \in {"staged", "checked"} /\ call' = Idle
  /\ UNCHANGED <<doc, task, given, calls, others, looks>>

---------------------------------------------------------------------------
\* The model's next response has its own chained hash.
NewResponse ==
  /\ call = Idle /\ chained # None /\ chained' = None
  /\ UNCHANGED <<doc, last, written, withheld, call, given, calls, others, looks>>

\* A response that exceeded the output limit while the document is large.
Truncated ==
  /\ call = Idle /\ Known /\ ~withheld /\ withheld' = TRUE
  /\ UNCHANGED <<doc, last, written, chained, call, given, calls, others, looks>>

\* A new task forgets the last one's save and its hashes.
ClearTask == last' = None /\ written' = FALSE /\ withheld' = FALSE /\ chained' = None

NewTask ==
  /\ call = Idle /\ written /\ ClearTask /\ given' = {}
  /\ UNCHANGED <<doc, call, calls, others, looks>>

Next == \/ Other \/ Inspect \/ Call \/ Refuse \/ Stage \/ Check \/ Save \/ Drop
        \/ NewResponse \/ Truncated \/ NewTask

Spec == Init /\ [][Next]_vars

---------------------------------------------------------------------------
TypeOK ==
  /\ doc \in Seq(Sections) \cup {Absent} /\ last \in Seq(Sections) \cup {None}
  /\ chained \in {last, None} /\ (written <=> last # None) /\ withheld \in BOOLEAN
  /\ call.phase \in {"idle", "called", "staged", "checked"}
  /\ given \subseteq Seq(Sections)
  /\ calls \in 0 .. Len(Calls) /\ others \in 0 .. MaxOthers /\ looks \in 0 .. MaxLooks

Paths(d) == {Path(d, i) : i \in DOMAIN d}
Having(d, path) == {i \in DOMAIN d : Path(d, i) = path}

\* What no edit of the call names: by its section, by its old text, or as the end.
Untouched(c, d) ==
  {i \in DOMAIN d : \A k \in DOMAIN c.edits : LET e == c.edits[k] IN
     /\ e.action = "section" => Last(e.section) \notin ToSet(Path(d, i))
     /\ Anchored(e) => e.old \notin ToSet(d[i].body)
     /\ (e.action = "append" /\ e.text = <<>>) => i # Len(d)}

\* The version saved over is one the call named, or this task's results did.
PinnedSave(c, d) ==
  \/ c.sent = d
  \/ c.sent = None /\ d \in given
  \/ /\ c.sent = None /\ SelfPinned(c)
     /\ First(c).pinned => \E i \in Found(d, First(c).section) : c.pin \in {Extent(d, i), d}

\* Sections no edit names keep their text, their place under their parents and their
\* order, and none of them gets a second of its path.
SectionsKept(c, d, new) ==
  \A i \in Untouched(c, d) :
    LET now == Having(new, Path(d, i))
        same == {j \in now : new[j].body = Completed(d)[i].body}
    IN  /\ same # {}
        /\ Cardinality(Having(d, Path(d, i))) = 1 =>
             /\ Cardinality(now) = 1
             /\ \A k \in Untouched(c, d) :
                  k > i => \E j \in Having(new, Path(d, k)) : j > Min(now)

\* Appends and section replacements give no section's number to a second one.
NumbersKept(c, d, new) ==
  (\A k \in DOMAIN c.edits : c.edits[k].action \in {"append", "section"}) =>
    \A i \in Untouched(c, d) :
      Numbered(d, i) =>
        \A j \in Having(new, Path(d, i)) : \A k \in Siblings(new, j) :
          new[k].head.num = new[j].head.num =>
            \E h \in Siblings(d, i) : d[h].head.num = new[k].head.num

Whole(c) == \E k \in DOMAIN c.edits : c.edits[k].action \in {"create", "write"}

\* A save replaces the document only in a version that was named, by the call or by an
\* earlier result of the task, and loses nothing of it but what the call's edits name
\* (another program's save after the call's last look is the exception).
SaveKeeps ==
  (others' = others /\ doc' # doc) =>
    /\ call.old = Absent => ~Known
    /\ (Known /\ ~call.raced) =>
         /\ PinnedSave(call, doc)
         /\ ~Whole(call) => SectionsKept(call, doc, doc') /\ NumbersKept(call, doc, doc')

DocumentKept == [][SaveKeeps]_vars
=============================================================================

------------------------------ MODULE FileReads ------------------------------
(***************************************************************************)
(* file_read (tools.rs) and the record of what the model was really shown   *)
(* of a file (tools/coverage.rs): a range of lines is read in pages that a  *)
(* budget cuts anywhere, continued by cursors, and recorded in characters   *)
(* of the text with CRLF written as LF.  Sections of it may be shown by      *)
(* document_inspect as well.  The file may change at any time.              *)
(***************************************************************************)
EXTENDS Integers, SequencesExt, FiniteSetsExt, Ascending

CONSTANTS Docs,       \* texts: sequences of "x", "#" (a line's first: a heading), "r" (CR), "n" (LF)
          MaxLines,   \* the largest max_lines asked for
          Offsets,    \* offsets asked for without a cursor
          MaxEdits    \* bound

VARIABLES file, edits,
          coverage,   \* [hash, ranges] of the file's record; a text is its own hash
          cursor,     \* the one issued last, or NoCursor
          pc, page,   \* the page read and not yet delivered, or just delivered
          given,      \* ghost: characters of coverage.hash ever shown
          chain       \* ghost: the pages that followed one another without a gap

vars == <<file, edits, coverage, cursor, pc, page, given, chain>>

NoCursor == [doc |-> <<>>, start |-> 0, max |-> 0, offset |-> 0]
NoPage == [doc |-> <<>>, start |-> 1, max |-> 1, offset |-> 0, length |-> 0,
           complete |-> FALSE, truncated |-> FALSE, ends |-> 0]
NoChain == [doc |-> <<>>, start |-> 0, max |-> 0, next |-> 0]

---------------------------------------------------------------------------
\* Lines, in characters before a position.

StartsOf ==
  [d \in Docs \cup {<<>>} |->
     InOrder({i \in 0..(Len(d) - 1) : i = 0 \/ d[i] = "n"})]
Starts(d) == StartsOf[d]
Lines(d) == Len(Starts(d))
LineEnd(d, l) == IF l < Lines(d) THEN Starts(d)[l + 1] ELSE Len(d)
\* A position without the line's break.
Unbroken(d, from, to) ==
  IF to = from \/ d[to] # "n" THEN to
  ELSE IF to - 1 > from /\ d[to - 1] = "r" THEN to - 2 ELSE to - 1
RangeEnd(d, start, max) ==
  Unbroken(d, Starts(d)[start], LineEnd(d, IF start + max - 1 < Lines(d) THEN start + max - 1 ELSE Lines(d)))
\* The position in the text with CRLF written as LF.
CrLf(d, i) == d[i] = "r" /\ i < Len(d) /\ d[i + 1] = "n"
Normal(d, k) == k - Cardinality({i \in 1..k : CrLf(d, i)})
\* The lines as the coverage measures them; an empty one spans its break.
Spans ==
  [d \in Docs |-> [l \in 1..Lines(d) |->
     LET from == Starts(d)[l]
         body == Unbroken(d, from, LineEnd(d, l)) - from
     IN <<Normal(d, from), Normal(d, from) + (IF body = 0 THEN 1 ELSE body)>>]]
Span(d, l) == Spans[d][l]

---------------------------------------------------------------------------
\* Ranges.

Before(a, b) == a[1] < b[1] \/ (a[1] = b[1] /\ a[2] < b[2])
Sorted(ranges) ==
  [n \in 1..Cardinality(ranges) |->
     CHOOSE r \in ranges : Cardinality({q \in ranges : Before(q, r)}) = n - 1]
Top(a, b) == IF a > b THEN a ELSE b

\* Mutant: ranges are sorted and not joined.
MergeNone(ranges) == Sorted(ranges)

\* A range joins the last one when they overlap or touch.
Joined(q, r) ==
  IF q # <<>> /\ r[1] <= Last(q)[2]
  THEN [q EXCEPT ![Len(q)] = <<@[1], Top(@[2], r[2])>>] ELSE Append(q, r)
Merged(ranges) ==
  LET sorted == Sorted(ranges)
      merged[n \in 0..Len(sorted)] == IF n = 0 THEN <<>> ELSE Joined(merged[n - 1], sorted[n])
  IN  merged[Len(sorted)]
SpanCovered(q, span) ==
  LET after == {i \in DOMAIN q : q[i][2] > span[1]} IN
  /\ after # {}
  /\ LET r == q[Min(after)] IN r[1] <= span[1] /\ r[2] >= span[2]
LinesDelivered(d, from, to) ==
  /\ coverage.hash = d
  /\ \A l \in from..to : l <= Lines(d) /\ SpanCovered(coverage.ranges, Span(d, l))
\* What report shows of a file: complete or not, and the lines that are missing.
Missing(d) == {l \in 1..Lines(d) : ~LinesDelivered(d, l, l)}

---------------------------------------------------------------------------

From(p) == Starts(p.doc)[p.start] + p.offset
Shown(p) == (From(p) + 1) .. (From(p) + p.length)
EndsIn(p, c) == p.length > 0 /\ p.doc[From(p) + p.length] = c
NextChar(p) == From(p) + p.length + 1
CompleteAt(p, last) ==
  \/ EndsIn(p, "n")
  \/ NextChar(p) > last
  \/ p.doc[NextChar(p)] = "n" /\ ~EndsIn(p, "r")
\* The first and the last line the page's observation claims.
FirstLine(p) == p.start + Cardinality({i \in 1..p.offset : p.doc[Starts(p.doc)[p.start] + i] = "n"})
StartsWhole(p) == p.offset = 0 \/ p.doc[From(p)] = "n"
LastLine(p) ==
  LET breaks == Cardinality({i \in Shown(p) : p.doc[i] = "n"})
  IN FirstLine(p) + breaks - (IF EndsIn(p, "n") THEN 1 ELSE 0)

TypeOK ==
  /\ file \in Docs /\ edits \in 0..MaxEdits /\ pc \in {"idle", "read", "delivered"}
  /\ coverage.hash \in Docs \cup {<<>>} /\ page.doc \in Docs \cup {<<>>}
  /\ given \subseteq 1..Len(coverage.hash)

Init ==
  /\ file \in Docs /\ edits = 0 /\ coverage = [hash |-> <<>>, ranges |-> <<>>]
  /\ cursor = NoCursor /\ pc = "idle" /\ page = NoPage /\ given = {} /\ chain = NoChain

Edit(d) == /\ edits < MaxEdits /\ edits' = edits + 1 /\ d # file /\ file' = d
           /\ UNCHANGED <<coverage, cursor, pc, page, given, chain>>

\* A page of the range from `offset`, as long as the budget lets it be.
Read(start, max, offset, length) ==
  LET last == RangeEnd(file, start, max)
      room == last - Starts(file)[start] - offset
      p == [doc |-> file, start |-> start, max |-> max, offset |-> offset, length |-> length,
            complete |-> FALSE, truncated |-> length < room, ends |-> last]
  IN /\ start <= Lines(file) /\ room >= 0 /\ length <= room /\ (length = 0 => room = 0)
     /\ pc' = "read" /\ page' = [p EXCEPT !.complete = CompleteAt(p, last)]
     /\ UNCHANGED <<file, edits, coverage, cursor, given, chain>>
ReadRange(start, max, offset, length) == pc # "read" /\ Read(start, max, offset, length)
\* A cursor's file must be what it was.
Continue(length) ==
  /\ pc # "read" /\ cursor # NoCursor /\ cursor.doc = file
  /\ Read(cursor.start, cursor.max, cursor.offset, length)

\* The batch's budget goes over the page once more: it may shorten it, or leave
\* all of its text and still say that it goes on.
Cut(length) ==
  LET p == [page EXCEPT !.length = length, !.truncated = TRUE]
      whole == EndsIn(p, "n") \/ (p.doc[NextChar(p)] = "n" /\ ~EndsIn(p, "r"))
  IN
  /\ pc = "read" /\ length \in 1..page.length
  /\ page' = [p EXCEPT !.complete = IF length < page.length THEN whole ELSE @]
  /\ UNCHANGED <<file, edits, coverage, cursor, pc, given, chain>>

\* The whole last line was shown: its break counts as shown with it.
TakesBreak(p) ==
  LET next == NextChar(p) IN
  /\ p.complete /\ (~EndsIn(p, "n") \/ ~p.truncated) /\ next <= Len(p.doc)
  /\ p.doc[next] = "n" \/ CrLf(p.doc, next)
Delivered(p) == <<Normal(p.doc, From(p)),
                  Normal(p.doc, From(p) + p.length) + (IF TakesBreak(p) THEN 1 ELSE 0)>>
Recorded(p) == file = p.doc /\ (p.length > 0 \/ p.complete)
Follows(p) == p.offset = 0 \/ chain = [doc |-> p.doc, start |-> p.start, max |-> p.max, next |-> p.offset]

\* The ranges recorded of this version of the file.
Recent(d) == IF coverage.hash = d THEN Range(coverage.ranges) ELSE {}

Deliver ==
  LET p == page
      same == coverage.hash = p.doc
  IN /\ pc = "read" /\ pc' = "delivered"
     /\ cursor' = IF p.truncated THEN [doc |-> p.doc, start |-> p.start, max |-> p.max,
                                       offset |-> p.offset + p.length] ELSE cursor
     /\ IF Recorded(p)
        THEN /\ coverage' = [hash |-> p.doc, ranges |-> Merged(Recent(p.doc) \cup {Delivered(p)})]
             /\ given' = (IF same THEN given ELSE {}) \cup Shown(p)
             /\ chain' = IF (same \/ p.offset = 0) /\ Follows(p)
                         THEN [doc |-> p.doc, start |-> p.start, max |-> p.max, next |-> p.offset + p.length]
                         ELSE NoChain
        ELSE chain' = NoChain /\ UNCHANGED <<coverage, given>>
     /\ UNCHANGED <<file, edits, page>>

\* document_inspect delivers a part of the section a heading begins; what is
\* recorded is what it showed, of the version the file still has.
Heading(d, l) == d[Starts(d)[l] + 1] = "#"
Inspect(start, offset, length) ==
  LET from == Starts(file)[start] + offset
      to == from + length
      same == coverage.hash = file
  IN /\ Heading(file, start) /\ length > 0 /\ to <= Len(file)
     /\ coverage' = [hash |-> file,
                     ranges |-> Merged(Recent(file) \cup {<<Normal(file, from), Normal(file, to)>>})]
     /\ given' = (IF same THEN given ELSE {}) \cup ((from + 1) .. to)
     /\ chain' = IF same THEN chain ELSE NoChain
     /\ UNCHANGED <<file, edits, cursor, pc, page>>

Next ==
  \/ \E d \in Docs : Edit(d)
  \/ \E start \in 1..Lines(file), max \in 1..MaxLines, offset \in Offsets, length \in 0..Len(file) :
       ReadRange(start, max, offset, length)
  \/ \E length \in 0..Len(file) : Continue(length)
  \/ \E length \in 1..Len(page.doc) : Cut(length)
  \/ Deliver
  \/ \E start \in 1..Lines(file), offset \in Offsets, length \in 1..Len(file) :
       Inspect(start, offset, length)

Spec == Init /\ [][Next]_vars

---------------------------------------------------------------------------
\* A line counts as delivered only when every character of its text was shown,
\* in this version of the file, in however many pieces; a range that is followed
\* page by page to its end is delivered whole, whatever its line breaks and
\* wherever the budgets cut.  A page that calls its first and last lines
\* complete holds all of their text, and never claims a line past its range.
Body(d, l) == (Starts(d)[l] + 1) .. Unbroken(d, Starts(d)[l], LineEnd(d, l))
ReadsCovered ==
  /\ LET d == coverage.hash IN
     \A l \in 1..Lines(d) : LinesDelivered(d, l, l) => Body(d, l) \subseteq given
  /\ (pc = "delivered" /\ ~page.truncated /\ chain.doc = page.doc) =>
       page.start..LastLine(page) \cap Missing(page.doc) = {}
  /\ pc = "delivered" =>
       /\ LastLine(page) <= Lines(page.doc)
       /\ (StartsWhole(page) /\ page.complete) =>
            \A l \in FirstLine(page)..LastLine(page) : Body(page.doc, l) \subseteq Shown(page)
=============================================================================

------------------------------- MODULE MCTools -------------------------------
(***************************************************************************)
(* The tools a run calls and the requests it sends: edits of the document  *)
(* (DocumentEdits), patches of files (FilePatch), reads with their         *)
(* coverage (FileReads) and digests (DigestCache), the tools a checkpoint  *)
(* leaves open (CheckpointTools), the count of failures (Recovery) and the *)
(* requests to the model (Completions).  The parts share no state, so a    *)
(* behaviour runs one of them while the others rest.                       *)
(***************************************************************************)
EXTENDS DocumentEdits

CONSTANTS
  Files, Nested, FileTexts, MaxOps, MaxPatchEdits,
  Requests, Retries, RetryTimeouts,
  MaxCheckpoints, MaxBatchCalls, MaxBatches, MaxRequests,
  Document, Names, Registered, Editors, Planners, Args, Causes, Limit, MaxCodes, MaxInvocations,
  MaxRepeated, MaxToolCalls,
  Docs, MaxLines, Offsets, MaxReadEdits,
  Threads, Contents, NotText, Settle, Slow, MaxTime, MaxDigestCalls

\* The retries are an unsigned setting, the limit of failures a positive one, and
\* digests settle after two seconds.
ASSUME RetriesAssumption == Retries \in Nat
ASSUME LimitAssumption == Limit \in Nat \ {0}
ASSUME SettleAssumption == Settle \in Nat \ {0}

\* The tables of failures hold something; a run's clock reaches the settling time.
ASSUME TablesAssumption ==
  MaxCodes \in Nat \ {0} /\ MaxInvocations \in Nat \ {0} /\ MaxRepeated \in Nat \ {0}
ASSUME LimitsAssumption ==
  /\ MaxToolCalls \in Nat /\ MaxTime \in Nat /\ Settle <= MaxTime
  /\ MaxCheckpoints \in Nat /\ MaxBatchCalls \in Nat /\ MaxRequests \in Nat

\* A text is a sequence of characters.
ASSUME ReadsAssumption ==
  Docs \subseteq Seq(STRING) /\ MaxLines \in Nat /\ Offsets \subseteq Nat /\ MaxReadEdits \in Nat

VARIABLES
  part,
  files, dir, patchAt, ops, cancel, patchEdits, original, staged, checked, replaced, made, left,
  completed, errors, result, alone, raced,
  req, refuses, bare, suspected, recovered, seen,
  document, reuse, question, steer, saved, cites, cp, batches, editHeld, citesHeld, cpAt, cpCalls,
  offered, edited, held, refused,
  byTool, byCode, byInvocation, repeated, toolCalls, running, verdict, failed, resent, streak,
  file, readEdits, coverage, cursor, readAt, page, shown, chain,
  content, time, now, cache, digestCalls, thread

Patch == INSTANCE FilePatch WITH
  Texts <- FileTexts, MaxEdits <- MaxPatchEdits, pc <- patchAt, edits <- patchEdits
Client == INSTANCE Completions
Narrow == INSTANCE CheckpointTools WITH
  MaxCalls <- MaxBatchCalls, written <- saved, pc <- cpAt, calls <- cpCalls
Tracker == INSTANCE Recovery WITH
  MaxCalls <- MaxToolCalls, calls <- toolCalls, last <- verdict
Reads == INSTANCE FileReads WITH
  MaxEdits <- MaxReadEdits, edits <- readEdits, pc <- readAt, given <- shown
Digests == INSTANCE DigestCache WITH MaxCalls <- MaxDigestCalls, calls <- digestCalls

patchVars == <<files, dir, patchAt, ops, cancel, patchEdits, original, staged, checked, replaced,
               made, left, completed, errors, result, alone, raced>>
clientVars == <<req, refuses, bare, suspected, recovered, seen>>
narrowVars == <<document, reuse, question, steer, saved, cites, cp, batches, editHeld, citesHeld,
                cpAt, cpCalls, offered, edited, held, refused>>
trackerVars == <<byTool, byCode, byInvocation, repeated, toolCalls, running, verdict, failed,
                 resent, streak>>
readsVars == <<file, readEdits, coverage, cursor, readAt, page, shown, chain>>
digestsVars == <<content, time, now, cache, digestCalls, thread>>

-----------------------------------------------------------------------------
\* The documents, and the edits the model sends in the first call and later.

Cited(t) == IF t = "f:1" THEN "src/f:1" ELSE t
Head_(l, n, t) == [level |-> l, num |-> n, name |-> t]
Sect(h, b) == [head |-> h, body |-> b]
Title == Head_(1, <<>>, "T")
First_ == Head_(2, <<1>>, "A")
Second == Head_(2, <<2>>, "B")
Inner == Head_(3, <<>>, "C")
Third == Head_(2, <<3>>, "D")
New(name) == Head_(2, <<>>, name)

Saved == {<<Sect(Title, <<>>), Sect(First_, <<"p">>), Sect(Inner, <<"q">>), Sect(Second, <<"r">>)>>,
          <<Sect(Title, <<>>), Sect(First_, <<"p">>), Sect(Second, <<"r", "x">>), Sect(Inner, <<"q">>)>>}

Nothing == [action |-> "", text |-> <<>>, lines |-> <<>>, old |-> "", section |-> <<>>, pinned |-> FALSE]
Put(action, text) == [Nothing EXCEPT !.action = action, !.text = text]
At(action, section, text) == [Put(action, text) EXCEPT !.section = section]
Text(action, old, lines) == [Nothing EXCEPT !.action = action, !.old = old, !.lines = lines]
Pinned(e) == [e EXCEPT !.pinned = TRUE]
NewDoc == <<Sect(Title, <<"f:1">>), Sect(First_, <<"u">>)>>
AddThird == Put("append", <<Sect(Third, <<"u">>)>>)
SplitFirst == Pinned(At("section", <<First_>>, <<Sect(First_, <<"u">>), Sect(Third, <<"w">>)>>))

Singles ==
  {Put("create", NewDoc), Put("write", NewDoc), AddThird, SplitFirst,
   Put("append", <<Sect(Head_(2, <<2>>, "B2"), <<"u">>)>>), Put("append", <<Sect(Inner, <<"u">>)>>),
   Put("append", <<Sect(Head_(2, <<1, 5>>, "E"), <<"f:1">>)>>),
   [Nothing EXCEPT !.action = "append", !.lines = <<"v">>],
   At("insert_before", <<Second>>, <<Sect(New("N"), <<"u">>)>>),
   At("insert_after", <<Title, First_>>, <<Sect(Second, <<"u">>)>>),
   At("insert_first_child", <<First_>>, <<Sect(Head_(3, <<>>, "K"), <<"u">>)>>),
   At("insert_last_child", <<First_>>, <<Sect(Inner, <<"u">>)>>),
   At("insert_after", <<Inner>>, <<Sect(New("N"), <<"u">>)>>),
   At("section", <<First_>>, <<Sect(First_, <<"u">>)>>),
   Pinned(At("section", <<First_>>, <<Sect(Head_(2, <<1>>, "A2"), <<"u">>), Sect(Second, <<>>)>>)),
   At("section", <<First_>>, <<Sect(First_, <<"u">>), Sect(Head_(2, <<2>>, "B2"), <<"w">>)>>),
   At("section", <<First_>>, <<Sect(First_, <<"u">>), Sect(Second, <<"w">>)>>),
   Pinned(At("section", <<Second>>, <<Sect(Second, <<"w">>)>>)),
   At("section", <<Inner>>, <<Sect(Inner, <<"w">>)>>),
   Text("replace_text", "p", <<"f:1">>), Text("delete_text", "q", <<>>),
   Text("insert_after_text", "p", <<"u">>), Text("insert_before_text", "r", <<"u", "r">>),
   Text("insert_after_text", "p", <<"p", "u">>),
   Pinned([Text("replace_text", "r", <<"w">>) EXCEPT !.section = <<Second>>])}

Doubles ==
  {<<At("section", <<First_>>, <<Sect(First_, <<"u">>)>>),
     Pinned(At("section", <<Second>>, <<Sect(Second, <<"w">>)>>))>>,
   <<AddThird, AddThird>>,
   <<Text("delete_text", "q", <<>>), Text("insert_after_text", "q", <<"u">>)>>,
   <<SplitFirst, At("insert_after", <<Third>>, <<Sect(Head_(2, <<4>>, "F"), <<"u">>)>>)>>}

CallsOfTheModel ==
  <<{<<Put("create", NewDoc)>>, <<Text("replace_text", "p", <<"f:1">>)>>, <<AddThird>>},
    {<<e>> : e \in Singles} \cup Doubles>>

\* Texts with lone and paired carriage returns, an empty line and headings.
DocsOfTheProject == {<<"#", "r", "n", "x">>, <<"n", "#", "r">>}

-----------------------------------------------------------------------------
MCInit ==
  /\ part \in {"edits", "patch", "client", "narrow", "tracker", "reads", "digests"}
  /\ Init /\ Patch!Init /\ Client!Init /\ Narrow!Init /\ Tracker!Init
  /\ Reads!Init /\ Digests!Init
  /\ part # "edits" => doc = Absent
  /\ part # "patch" => files = [f \in Files |-> Patch!Missing]
  /\ part # "narrow" => <<document, reuse, question, saved>> = <<FALSE, FALSE, FALSE, FALSE>>
  /\ part # "reads" => file = CHOOSE d \in Docs : TRUE
  /\ part # "digests" => now = 0 /\ content = CHOOSE c \in Contents : TRUE

MCNext ==
  \/ /\ part = "edits" /\ Next
     /\ UNCHANGED <<part, patchVars, clientVars, narrowVars, trackerVars, readsVars, digestsVars>>
  \/ /\ part = "patch" /\ Patch!Next
     /\ UNCHANGED <<part, vars, clientVars, narrowVars, trackerVars, readsVars, digestsVars>>
  \/ /\ part = "client" /\ Client!Next
     /\ UNCHANGED <<part, vars, patchVars, narrowVars, trackerVars, readsVars, digestsVars>>
  \/ /\ part = "narrow" /\ Narrow!Next
     /\ UNCHANGED <<part, vars, patchVars, clientVars, trackerVars, readsVars, digestsVars>>
  \/ /\ part = "tracker" /\ Tracker!Next
     /\ UNCHANGED <<part, vars, patchVars, clientVars, narrowVars, readsVars, digestsVars>>
  \/ /\ part = "reads" /\ Reads!Next
     /\ UNCHANGED <<part, vars, patchVars, clientVars, narrowVars, trackerVars, digestsVars>>
  \/ /\ part = "digests" /\ Digests!Next
     /\ UNCHANGED <<part, vars, patchVars, clientVars, narrowVars, trackerVars, readsVars>>

MCSpec ==
  MCInit /\ [][MCNext]_<<part, vars, patchVars, clientVars, narrowVars, trackerVars,
                         readsVars, digestsVars>>

-----------------------------------------------------------------------------
\* The type invariants of the parts.
TypesOK ==
  /\ part = "edits" => TypeOK
  /\ part = "patch" => Patch!TypeOK
  /\ part = "client" => Client!TypeOK
  /\ part = "narrow" => Narrow!TypeOK
  /\ part = "tracker" => Tracker!TypeOK
  /\ part = "reads" => Reads!TypeOK
  /\ part = "digests" => Digests!TypeOK

\* FilePatch: a patch that reports its end is on disk whole or not at all.
PatchWhole == part = "patch" => Patch!PatchWhole

\* Completions: what a request relays and returns is sound, and what one learns
\* of the endpoint holds for the next.
CompletionsKept == Client!CompletionsKept

\* CheckpointTools: a checkpoint is completed without needless rounds, and never
\* ahead of what failed.
CheckpointPrompt == part = "narrow" => Narrow!CheckpointPrompt

\* Recovery: the bounded tables count what unbounded ones would.
FailuresCounted == part = "tracker" => Tracker!FailuresCounted

\* FileReads: no line counts as read that the model was not shown whole.
ReadsCovered == part = "reads" => Reads!ReadsCovered

\* DigestCache: a digest taken from the cache is of the file as it is.
CacheCurrent == part = "digests" => Digests!CacheCurrent
=============================================================================

----------------------------- MODULE FilePatch -----------------------------
(***************************************************************************)
(* file_edit, file_write and file_patch (tools/file_edit.rs): a list of     *)
(* operations is staged on what the files held when first read, checked     *)
(* again, and written file by file; what fails or is cancelled halfway is   *)
(* rolled back.  Other programs edit the same files.  The tool holds the    *)
(* file write gate of WriteGate all along, so it is the only one of ours.   *)
(***************************************************************************)
EXTENDS Integers, SequencesExt

CONSTANTS Files,      \* paths, in the order a patch writes them
          Nested,     \* those of them in a directory that may not exist
          Texts,
          MaxOps,     \* bound: operations of a patch
          MaxEdits    \* bound: edits by other programs

VARIABLES files, dir,             \* what is on disk
          pc, ops, cancel, edits,
          original, staged,       \* the files read so far, and what they become
          checked, replaced,      \* files whose version an operation named; recreated ones
          made,                   \* the patch created the directory
          left, completed,        \* files still to check or to write; written ones
          errors, result,
          alone,                  \* the disk as it would be without the patch
          raced                   \* files another program edited after their last check

vars == <<files, dir, pc, ops, cancel, edits, original, staged, checked, replaced, made,
          left, completed, errors, result, alone, raced>>
disk == <<files, dir, made>>
stage == <<ops, original, staged, checked, replaced>>

Missing == "absent"
AllTexts == Texts \cup {Missing}
Loaded == DOMAIN staged
Changed == {f \in Loaded : staged[f] # original[f] \/ f \in replaced}
NoFiles == [f \in {} |-> Missing]
\* Files are checked and written in the order of their paths.
First(f) == f \in left /\ \A g \in left : f <= g

TypeOK ==
  /\ files \in [Files -> AllTexts] /\ alone \in [Files -> AllTexts]
  /\ Loaded \subseteq Files /\ DOMAIN original = Loaded
  /\ pc \in {"stage", "check", "write", "rollback", "done"}
  /\ checked \cup replaced \cup raced \cup left \cup Range(completed) \subseteq Files
  /\ result \in {"none", "applied", "unchanged", "rolled_back", "uncertain"}

Init ==
  /\ files \in [Files -> AllTexts] /\ dir = (\E f \in Nested : files[f] # Missing)
  /\ pc = "stage" /\ ops = 0 /\ cancel = FALSE /\ edits = 0
  /\ original = NoFiles /\ staged = NoFiles /\ checked = {} /\ replaced = {} /\ made = FALSE
  /\ left = {} /\ completed = <<>> /\ errors = FALSE /\ result = "none"
  /\ alone = files /\ raced = {}

End(what) == pc' = "done" /\ result' = what

---------------------------------------------------------------------------
\* Others.

\* Written and unchecked since, or checked and still to write.
Exposed == IF pc \in {"write", "rollback"} THEN Changed
           ELSE IF pc = "check" THEN Changed \ left ELSE {}
Edit(f, text) ==
  /\ edits < MaxEdits /\ edits' = edits + 1 /\ text # files[f] /\ pc # "done"
  /\ text # Missing /\ f \in Nested => dir
  /\ files' = [files EXCEPT ![f] = text] /\ alone' = [alone EXCEPT ![f] = text]
  /\ raced' = IF f \in Exposed THEN raced \cup {f} ELSE raced
  /\ UNCHANGED <<dir, made, pc, cancel, stage, left, completed, errors, result>>

Cancel == /\ ~cancel /\ pc # "done" /\ cancel' = TRUE
          /\ UNCHANGED <<disk, pc, edits, stage, left, completed, errors, result, alone, raced>>

---------------------------------------------------------------------------
\* Staging: each operation on the files as the ones before it left them.

Extended(g, S, h) == [f \in DOMAIN g \cup S |-> IF f \in DOMAIN g THEN g[f] ELSE h[f]]
Before(S) == Extended(staged, S, files)

\* The version named is the file's, as found or as the patch made it; a later
\* operation on a file may name none.
Named(f, hash, now) ==
  IF f \in checked THEN hash \in {Missing, Extended(original, {f}, files)[f], now[f]}
  ELSE hash = now[f]

Stage(S, next, recreated, named) ==
  /\ pc = "stage" /\ ~cancel /\ ops < MaxOps /\ ops' = ops + 1
  /\ original' = Extended(original, S, files) /\ staged' = next
  /\ replaced' = replaced \cup {f \in recreated : original'[f] # Missing}
  /\ checked' = checked \cup named
  /\ UNCHANGED <<disk, pc, cancel, edits, left, completed, errors, result, alone, raced>>

Add(f, text) ==
  LET now == Before({f}) IN
  now[f] = Missing /\ Stage({f}, [now EXCEPT ![f] = text], {f}, {f})
\* update and replace; what `update` does not find is a refusal.
Replace(f, hash, text) ==
  LET now == Before({f}) IN
  /\ now[f] # Missing /\ Named(f, hash, now)
  /\ Stage({f}, [now EXCEPT ![f] = text], {}, {f})
Move(f, to, hash) ==
  LET now == Before({f, to}) IN
  /\ f # to /\ now[f] # Missing /\ Named(f, hash, now) /\ now[to] = Missing
  /\ Stage({f, to}, [now EXCEPT ![f] = Missing, ![to] = now[f]], {to}, {f, to})
Delete(f, hash) ==
  LET now == Before({f}) IN
  /\ now[f] # Missing /\ Named(f, hash, now)
  /\ Stage({f}, [now EXCEPT ![f] = Missing], {}, {f})

\* An operation that is refused, a limit or a cancellation ends the call.
Refuse == /\ pc = "stage" /\ End("unchanged")
          /\ UNCHANGED <<disk, stage, cancel, edits, left, completed, errors, alone, raced>>

---------------------------------------------------------------------------
\* Committing.

StartCheck == /\ pc = "stage" /\ ops > 0 /\ pc' = "check" /\ left' = Changed
              /\ UNCHANGED <<disk, stage, cancel, edits, completed, errors, result, alone, raced>>

\* Mutant: a file is not looked at again before it is written.
CheckNothing(f) == TRUE

Matches(f) == files[f] = original[f]
Check(f) ==
  /\ pc = "check" /\ First(f)
  /\ IF Matches(f) THEN left' = left \ {f} /\ UNCHANGED <<pc, result>>
     ELSE End("unchanged") /\ UNCHANGED left
  /\ UNCHANGED <<disk, stage, cancel, edits, completed, errors, alone, raced>>
StartWrite == /\ pc = "check" /\ left = {} /\ pc' = "write" /\ left' = Changed
              /\ UNCHANGED <<disk, stage, cancel, edits, completed, errors, result, alone, raced>>

\* A file whose text goes to the disk creates its directory first.
MakesDir(f, text) == f \in Nested /\ text # Missing /\ ~dir
Put(f, text) == /\ files' = [files EXCEPT ![f] = text]
                /\ dir' = (dir \/ MakesDir(f, text)) /\ made' = (made \/ MakesDir(f, text))

\* A file that was there is replaced; one that was not may not be there now; one
\* that is to be deleted must be.
CanWrite(f) == IF original[f] = Missing THEN files[f] = Missing
               ELSE staged[f] # Missing \/ files[f] # Missing
Write(f) ==
  /\ pc = "write" /\ First(f) /\ ~cancel /\ CanWrite(f)
  /\ Put(f, staged[f]) /\ left' = left \ {f} /\ completed' = Append(completed, f)
  /\ UNCHANGED <<pc, stage, cancel, edits, errors, result, alone, raced>>

\* A write that fails may have created the directory.
WriteFails(f, mkdir) ==
  /\ pc = "write" /\ First(f) /\ (mkdir => MakesDir(f, staged[f]))
  /\ dir' = (dir \/ mkdir) /\ made' = (made \/ mkdir) /\ pc' = "rollback" /\ left' = {}
  /\ UNCHANGED <<files, stage, cancel, edits, completed, errors, result, alone, raced>>
Cancelled ==
  /\ pc = "write" /\ left # {} /\ cancel
  /\ IF completed = <<>> THEN End("unchanged") ELSE pc' = "rollback" /\ UNCHANGED result
  /\ UNCHANGED <<disk, stage, cancel, edits, left, completed, errors, alone, raced>>
Finish == /\ pc = "write" /\ left = {} /\ End("applied")
          /\ UNCHANGED <<disk, stage, cancel, edits, left, completed, errors, alone, raced>>

\* Written files get their text back, the last one first; one that fails is
\* reported and the others go on.
Restore(fails) ==
  LET f == Last(completed) IN
  /\ pc = "rollback" /\ completed # <<>> /\ completed' = Front(completed)
  /\ IF fails THEN errors' = TRUE /\ UNCHANGED disk
     ELSE Put(f, original[f]) /\ UNCHANGED errors
  /\ UNCHANGED <<pc, stage, cancel, edits, left, result, alone, raced>>
\* Directories the patch created go when they are empty.
EndRollback(fails) ==
  LET empty == \A f \in Nested : files[f] = Missing
      stays == made /\ dir /\ (fails \/ ~empty)
      bad == errors \/ stays
  IN /\ pc = "rollback" /\ completed = <<>>
     /\ dir' = (dir /\ ~(made /\ ~stays)) /\ errors' = bad
     /\ End(IF bad THEN "uncertain" ELSE "rolled_back")
     /\ UNCHANGED <<files, made, stage, cancel, edits, left, completed, alone, raced>>

Next ==
  \/ \E f \in Files, text \in AllTexts : Edit(f, text)
  \/ Cancel \/ Refuse \/ StartCheck \/ StartWrite \/ Cancelled \/ Finish
  \/ \E f \in Files : Check(f) \/ Write(f) \/ \E mkdir \in BOOLEAN : WriteFails(f, mkdir)
  \/ \E f \in Files, text \in Texts : Add(f, text)
  \/ \E f \in Files, hash \in AllTexts :
       \/ \E text \in Texts : Replace(f, hash, text)
       \/ \E to \in Files : Move(f, to, hash)
       \/ Delete(f, hash)
  \/ \E fails \in BOOLEAN : Restore(fails) \/ EndRollback(fails)

Spec == Init /\ [][Next]_vars

---------------------------------------------------------------------------
\* A patch is applied as a whole, or the disk is what it would be without it,
\* directories included, or the call says that its outcome is uncertain.  What
\* another program wrote before the patch looked at the file for the last time
\* survives it; only a file edited after that is left out.
PatchWhole ==
  \A f \in Files \ raced :
    CASE result = "applied" ->
           IF f \in Changed THEN alone[f] = original[f] /\ files[f] = staged[f]
           ELSE files[f] = alone[f]
      [] result \in {"unchanged", "rolled_back"} ->
           files[f] = alone[f] /\ ~(made /\ dir)
      [] OTHER -> TRUE
=============================================================================

--------------------------- MODULE AgentRunProofs ---------------------------
(***************************************************************************)
(* Proofs about AgentRun for any limits of the loop: type correctness (a   *)
(* checkpoint never uses more requests than it has), the bound on closing  *)
(* mode, and the honest end of a run.                                      *)
(*                                                                         *)
(* The bound on the answers of closing mode is not inductive.  It needs    *)
(* that every request of closing was counted by the ladder unless the pass *)
(* sends again what was not answered (Paced), and that only what was       *)
(* counted in this pass is given back to a checkpoint (Counts).            *)
(***************************************************************************)
EXTENDS AgentRun, TLAPS

Looping == {"boundary", "ladder", "prepare", "reply"}

\* What the limits say of the counters while the loop runs.
Limits ==
  /\ closing.on => document
  /\ pc \in Looping => closing.rounds <= ClosingRounds
  /\ pc # "settle" => retry.lengths < Lengths
  /\ pc = "reply" /\ cp.on => cp.attempts >= 1 /\ cp.failures < CheckpointFailures

\* A pass is new until its ladder; what it counted there is open until the request.
Counts ==
  /\ pc \in {"prepare", "reply"} => ~retry.fresh
  /\ retry.counted => pc \in {"prepare", "settle"}
  /\ pc = "prepare" /\ retry.counted => closing.rounds >= 1

\* Answers of closing mode against the rounds counted.
Paced ==
  /\ ~closing.on \/ pc = "ended" => asked = 0
  /\ pc \in Looping => asked <= closing.rounds + 1
  /\ pc \in Looping /\ ~cp.on /\ (retry.fresh \/ pc \in {"prepare", "reply"}) =>
       asked <= closing.rounds

\* What a final status claims.
Claims ==
  /\ status # "running"
  /\ status \in {"complete", "complete_with_gaps"} => ~cp.on /\ doc.state # "changed"
  /\ status = "complete" => ~plan.todo
  /\ document /\ status = "complete" => doc.state = "saved" /\ ~Missing
  /\ status = "complete_with_gaps" => doc.state = "saved" /\ Missing /\ gaps

\* A run on its way claims nothing; one about to end claims what is so, unless
\* something stronger decides its status.
Claimed ==
  /\ pc \in Looping => status = "running" /\ ~uncertain
  /\ pc = "settle" /\ ~failure /\ ~cancelled /\ ~uncertain => Claims

IInv == TypeOK /\ Limits /\ Counts /\ Paced /\ Claimed /\ HonestEnd /\ ClosingBounded

-----------------------------------------------------------------------------
(* The limits as numbers.                                                  *)

LEMMA Numbers ==
  /\ ClosingRounds \in Nat /\ ClosingRounds > 0
  /\ CheckpointRequests \in Nat /\ CheckpointRequests > 0
  /\ CheckpointFailures \in Nat /\ CheckpointFailures > 0
  /\ EmptyRetries \in Nat /\ EmptyRetries > 0 /\ EmptyToClose \in Nat /\ EmptyToClose > 0
  /\ Lengths \in Nat /\ Lengths > 0
  /\ StallRounds \in Nat /\ OutcomeRounds \in Nat /\ SubstantiveRounds \in Nat
  /\ ChurnRounds \in Nat /\ Outages \in Nat /\ FinalRetries \in Nat
BY LimitsAssumption

LEMMA CappedBounds ==
  ASSUME NEW n \in Nat, NEW limit \in Nat PROVE Capped(n, limit) \in 0 .. limit
BY DEF Capped

\* The parts of the type, each to be cited alone.
Docs == {NotWritten, Changed} \union Written
Plans == [todo : BOOLEAN, unresolved : {"none", "unseen", "shown"}, covered : BOOLEAN]
Closings == [on : BOOLEAN, rounds : 0 .. ClosingRounds + 1, finals : 0 .. 2]
Checkpoints == [on : BOOLEAN, attempts : 0 .. CheckpointRequests,
                failures : 0 .. CheckpointFailures]
Stalls == [best : 0 .. StallRounds, outcome : 0 .. OutcomeRounds,
           substantive : 0 .. SubstantiveRounds, churn : 0 .. ChurnRounds]
Retries == [fresh : BOOLEAN, counted : BOOLEAN, empties : Nat, lengths : 0 .. Lengths,
            outages : 0 .. Outages, rejected : BOOLEAN]

LEMMA FirstTyped ==
  /\ NoClosing \in Closings /\ NoCheckpoint \in Checkpoints /\ NoRetry \in Retries
  /\ [NoCheckpoint EXCEPT !.on = TRUE] \in Checkpoints
  /\ [NoClosing EXCEPT !.on = TRUE] \in Closings
  /\ Changed \in Docs /\ NotWritten \in Docs
<1>1. NoClosing \in Closings
  BY Numbers DEF NoClosing, Closings
<1>2. NoCheckpoint \in Checkpoints
  BY Numbers DEF NoCheckpoint, Checkpoints
<1>3. NoRetry \in Retries
  BY Numbers DEF NoRetry, Retries
<1>4. \A c \in Closings : [c EXCEPT !.on = TRUE] \in Closings
  BY DEF Closings
<1>5. \A c \in Checkpoints : [c EXCEPT !.on = TRUE] \in Checkpoints
  BY DEF Checkpoints
<1> QED
  BY <1>1, <1>2, <1>3, <1>4, <1>5, Zenon DEF Docs

\* The type, with its records folded.
Types ==
  /\ workflow \in Workflows /\ pc \in Looping \union {"settle", "ended"}
  /\ doc \in Docs /\ plan \in Plans /\ closing \in Closings /\ cp \in Checkpoints
  /\ stall \in Stalls /\ finals \in 0 .. FinalRetries /\ retry \in Retries
  /\ failure \in BOOLEAN /\ status \in Statuses /\ gaps \in BOOLEAN
  /\ out \in BOOLEAN /\ cancelled \in BOOLEAN /\ uncertain \in BOOLEAN
  /\ asked \in Nat

LEMMA TypesFold == TypeOK <=> Types
BY DEF TypeOK, Types, Docs, Plans, Closings, Checkpoints, Stalls, Retries, Looping

LEMMA TypesFoldNext == TypeOK' <=> Types'
BY DEF TypeOK, Types, Docs, Plans, Closings, Checkpoints, Stalls, Retries, Looping

-----------------------------------------------------------------------------
(* What the next pass takes over stays typed; few steps touch what a pass  *)
(* counted.                                                                *)

SamePass(n, r) == n \in Retries /\ n.fresh = r.fresh /\ n.counted = r.counted

LEMMA RetryTyped ==
  ASSUME NEW r \in Retries, NEW fresh \in BOOLEAN, NEW counted \in BOOLEAN
  PROVE  LET n == [r EXCEPT !.fresh = fresh, !.counted = counted]
         IN n \in Retries /\ n.fresh = fresh /\ n.counted = counted /\ n.lengths = r.lengths
BY DEF Retries

LEMMA RetryCounted ==
  ASSUME NEW r \in Retries
  PROVE  LET n == [r EXCEPT !.counted = FALSE]
         IN n \in Retries /\ n.fresh = r.fresh /\ ~n.counted /\ n.lengths = r.lengths
BY DEF Retries

LEMMA RetryOutage ==
  ASSUME NEW r \in Retries, r.outages < Outages
  PROVE  LET n == [r EXCEPT !.outages = @ + 1, !.fresh = TRUE]
         IN n \in Retries /\ n.counted = r.counted /\ n.lengths = r.lengths
<1> DEFINE o == r.outages + 1
           n == [r EXCEPT !.outages = o, !.fresh = TRUE]
<1>1. o \in 0 .. Outages
  BY Numbers DEF Retries
<1> HIDE DEF o
<1>2. n \in Retries /\ n.counted = r.counted /\ n.lengths = r.lengths
  BY <1>1 DEF Retries
<1> QED
  BY <1>2 DEF o

LEMMA RetryRejected ==
  ASSUME NEW r \in Retries, NEW b \in BOOLEAN
  PROVE  /\ SamePass([r EXCEPT !.rejected = b], r)
         /\ [r EXCEPT !.rejected = b].lengths = r.lengths
         /\ SamePass([r EXCEPT !.rejected = b, !.outages = 0, !.empties = 0, !.lengths = 0], r)
         /\ [r EXCEPT !.rejected = b, !.outages = 0, !.empties = 0, !.lengths = 0].lengths = 0
<1>1. 0 \in 0 .. Outages /\ 0 \in 0 .. Lengths /\ 0 \in Nat
  BY Numbers
<1> QED
  BY <1>1 DEF Retries, SamePass

LEMMA RetryEmpty ==
  ASSUME NEW r \in Retries, NEW e \in Nat
  PROVE  LET n == [r EXCEPT !.outages = 0, !.empties = e]
         IN SamePass(n, r) /\ n.lengths = r.lengths
<1>1. 0 \in 0 .. Outages
  BY Numbers
<1> QED
  BY <1>1 DEF Retries, SamePass

LEMMA RetryAnswered ==
  ASSUME NEW r \in Retries, NEW l \in 0 .. Lengths
  PROVE  LET n == [r EXCEPT !.outages = 0, !.empties = 0, !.lengths = l]
         IN SamePass(n, r) /\ n.lengths = l
<1>1. 0 \in 0 .. Outages /\ 0 \in Nat
  BY Numbers
<1> QED
  BY <1>1 DEF Retries, SamePass

LEMMA ClosingTyped ==
  ASSUME NEW c \in Closings
  PROVE  /\ c.on \in BOOLEAN /\ c.rounds \in Nat /\ c.rounds <= ClosingRounds + 1
         /\ c.finals \in 0 .. 2
BY Numbers DEF Closings

LEMMA ClosingGivesBack ==
  ASSUME NEW c \in Closings, c.rounds >= 1
  PROVE  LET d == [c EXCEPT !.rounds = @ - 1]
         IN d \in Closings /\ d.on = c.on /\ d.rounds = c.rounds - 1
BY Numbers DEF Closings

LEMMA ClosingFinals ==
  ASSUME NEW c \in Closings, NEW n \in 0 .. 2
  PROVE  LET d == [c EXCEPT !.finals = n]
         IN d \in Closings /\ d.on = c.on /\ d.rounds = c.rounds
BY DEF Closings

LEMMA CheckpointTyped ==
  ASSUME NEW c \in Checkpoints
  PROVE  /\ c.on \in BOOLEAN /\ c.attempts \in Nat /\ c.failures \in Nat
         /\ c.attempts >= 1 => /\ [c EXCEPT !.attempts = @ - 1] \in Checkpoints
                               /\ [c EXCEPT !.attempts = @ - 1].on = c.on
         /\ c.attempts < CheckpointRequests =>
              LET d == [c EXCEPT !.attempts = @ + 1]
              IN d \in Checkpoints /\ d.on = c.on /\ d.attempts >= 1 /\ d.failures = c.failures
         /\ c.failures < CheckpointFailures =>
              LET d == [c EXCEPT !.failures = @ + 1] IN d \in Checkpoints /\ d.on = c.on
BY Numbers DEF Checkpoints

-----------------------------------------------------------------------------
(* The ends of a pass.                                                     *)

LEMMA InitInv == Init => IInv
<1> SUFFICES ASSUME Init PROVE IInv
  OBVIOUS
<1>1. plan \in Plans
  BY DEF Init, Plans
<1>2. stall \in Stalls
  BY Numbers DEF Init, Stalls
<1>3. Types
  <2>1. doc \in Docs /\ closing \in Closings /\ cp \in Checkpoints /\ retry \in Retries
    BY FirstTyped, Zenon DEF Init
  <2>2. finals \in 0 .. FinalRetries /\ asked \in Nat
    BY Numbers DEF Init
  <2> QED
    BY <1>1, <1>2, <2>1, <2>2 DEF Init, Types, Statuses
<1>4. TypeOK
  BY <1>3, TypesFold
<1>5. Limits /\ Counts /\ Paced
  BY Numbers DEF Init, Limits, Counts, Paced, Looping, NoClosing, NoCheckpoint, NoRetry
<1>6. Claimed /\ HonestEnd /\ ClosingBounded
  BY Numbers DEF Init, Claimed, HonestEnd, ClosingBounded, Looping
<1> QED
  BY <1>4, <1>5, <1>6 DEF IInv

LEMMA BeginInv == IInv /\ Begin => IInv'
<1> SUFFICES ASSUME IInv, Begin PROVE IInv'
  OBVIOUS
<1> USE DEF IInv
<1>1. [stall EXCEPT !.best = 0] \in Stalls
  BY Numbers, TypesFold DEF Types, Stalls
<1>2. Types'
  BY <1>1, FirstTyped, TypesFold DEF Begin, Types, Statuses, Looping, env
<1>3. TypeOK'
  BY <1>2, TypesFoldNext
<1>4. Limits' /\ Counts' /\ Paced'
  BY Numbers DEF Begin, env, TypeOK, Limits, Counts, Paced, Looping, NoClosing, document
<1>5. Claimed' /\ HonestEnd' /\ ClosingBounded'
  BY DEF Begin, env, Claimed, HonestEnd, ClosingBounded, Claims, Looping, Resumable, document,
         Missing
<1> QED
  BY <1>3, <1>4, <1>5

LEMMA SettleInv == IInv /\ Settle => IInv'
<1> SUFFICES ASSUME IInv, Settle PROVE IInv'
  OBVIOUS
<1> USE DEF IInv
<1>1. Types'
  BY FirstTyped, TypesFold DEF Settle, Types, Statuses
<1> TypeOK'
  BY <1>1, TypesFoldNext
<1>2. Limits' /\ Counts' /\ Paced' /\ ClosingBounded'
  BY Numbers DEF Settle, TypeOK, Limits, Counts, Paced, ClosingBounded, Looping, NoRetry, document
<1>3. Claimed' /\ HonestEnd'
  BY DEF Settle, TypeOK, Claimed, HonestEnd, Claims, Looping, document, Missing
<1> QED
  BY <1>1, <1>2, <1>3

LEMMA BoundaryInv == IInv /\ Boundary => IInv'
<1> SUFFICES ASSUME IInv, Boundary PROVE IInv'
  OBVIOUS
<1> USE DEF IInv, Looping
<1>1. Types'
  BY TypesFold DEF Boundary, Types, Statuses, Fail, ForceFinish, Accept, Continue, env
<1>2. Limits' /\ Counts' /\ Paced' /\ ClosingBounded'
  BY DEF Boundary, Limits, Counts, Paced, ClosingBounded, document, env,
         Fail, ForceFinish, Accept, Continue
<1>3. Claimed' /\ HonestEnd'
  BY DEF Boundary, Claimed, HonestEnd, Claims, Missing, CanForce, Saved, document, env,
         Fail, ForceFinish, Accept, Continue
<1> QED
  BY <1>1, <1>2, <1>3, TypesFoldNext

LEMMA CancelInv == IInv /\ Cancel => IInv'
<1> SUFFICES ASSUME IInv, Cancel PROVE IInv'
  OBVIOUS
<1> USE DEF IInv, Looping
<1>1. Types'
  BY TypesFold DEF Cancel, Types, env
<1>2. Limits' /\ Counts' /\ Paced' /\ ClosingBounded'
  BY DEF Cancel, Limits, Counts, Paced, ClosingBounded, document
<1>3. Claimed' /\ HonestEnd'
  BY DEF Cancel, Claimed, HonestEnd, Claims, Missing, document
<1> QED
  BY <1>1, <1>2, <1>3, TypesFoldNext

LEMMA TimeUpInv == IInv /\ TimeUp => IInv'
<1> SUFFICES ASSUME IInv, TimeUp PROVE IInv'
  OBVIOUS
<1> USE DEF IInv, Looping
<1>1. Types'
  BY TypesFold DEF TimeUp, Types, env
<1>2. Limits' /\ Counts' /\ Paced' /\ ClosingBounded'
  BY DEF TimeUp, Limits, Counts, Paced, ClosingBounded, document
<1>3. Claimed' /\ HonestEnd'
  BY DEF TimeUp, Claimed, HonestEnd, Claims, Missing, document
<1> QED
  BY <1>1, <1>2, <1>3, TypesFoldNext

LEMMA ExternalEditInv == IInv /\ ExternalEdit => IInv'
<1> SUFFICES ASSUME IInv, ExternalEdit PROVE IInv'
  OBVIOUS
<1> USE DEF IInv, Looping
<1>1. Types'
  BY TypesFold DEF ExternalEdit, Types, Docs, env
<1>2. Limits' /\ Counts' /\ Paced' /\ ClosingBounded'
  BY DEF ExternalEdit, Limits, Counts, Paced, ClosingBounded, document, env
<1>3. Claimed' /\ HonestEnd'
  BY DEF ExternalEdit, Claimed, HonestEnd, Claims, Missing, document, env
<1> QED
  BY <1>1, <1>2, <1>3, TypesFoldNext

LEMMA InterruptedInv == IInv /\ Interrupted => IInv'
<1> SUFFICES ASSUME IInv, Interrupted PROVE IInv'
  OBVIOUS
<1> USE DEF IInv, Looping
<1>1. Types'
  BY TypesFold DEF Interrupted, Types, Statuses, Fail, ForceFinish, Accept, env
<1>2. Limits' /\ Counts' /\ Paced' /\ ClosingBounded'
  BY DEF Interrupted, Limits, Counts, Paced, ClosingBounded, document, env,
         Fail, ForceFinish, Accept
<1>3. Claimed' /\ HonestEnd'
  BY DEF Interrupted, Claimed, HonestEnd, Claims, Missing, CanForce, Saved, document, env,
         Fail, ForceFinish, Accept
<1> QED
  BY <1>1, <1>2, <1>3, TypesFoldNext

LEMMA ErrorInv == IInv /\ Error => IInv'
<1> SUFFICES ASSUME IInv, Error PROVE IInv'
  OBVIOUS
<1> USE DEF IInv, Looping
<1>1. Types'
  BY TypesFold DEF Error, Types, Answered, Fail, env
<1>2. Limits' /\ Counts' /\ Paced' /\ ClosingBounded'
  BY Numbers, TypesFold DEF Error, Types, Answered, Closings, Limits, Counts, Paced,
                            ClosingBounded, Fail, document, env
<1>3. Claimed' /\ HonestEnd'
  BY DEF Error, Claimed, HonestEnd, Fail
<1> QED
  BY <1>1, <1>2, <1>3, TypesFoldNext

LEMMA OutageInv == IInv /\ Outage => IInv'
<1> SUFFICES ASSUME IInv, Outage PROVE IInv'
  OBVIOUS
<1> USE DEF IInv, Looping
<1> DEFINE c == IF cp.on THEN [cp EXCEPT !.attempts = @ - 1] ELSE cp
           n == [retry EXCEPT !.outages = @ + 1, !.fresh = TRUE]
<1>1. CASE retry.outages < Outages /\ ~out /\ Continue("boundary") /\ retry' = n /\ cp' = c
  <2>1. retry \in Retries /\ cp \in Checkpoints /\ closing \in Closings
    BY TypesFold DEF Types
  <2>2. n \in Retries /\ n.lengths = retry.lengths /\ n.counted = retry.counted
    BY <1>1, <2>1, RetryOutage
  <2>3. c \in Checkpoints /\ c.on = cp.on
    BY <2>1, CheckpointTyped DEF Outage, Limits
  <2> HIDE DEF n, c
  <2>4. pc = "reply" /\ UNCHANGED <<workflow, doc, plan, closing, stall, finals, env, asked>>
    BY DEF Outage
  <2>5. pc' = "boundary" /\ UNCHANGED <<failure, status, gaps>> /\ retry' = n /\ cp' = c
    BY <1>1 DEF Continue
  <2> HIDE <1>1
  <2>6. Types'
    BY <2>2, <2>3, <2>4, <2>5, TypesFold DEF Types, env
  <2>7. Limits' /\ Counts' /\ Paced' /\ ClosingBounded'
    BY <2>1, <2>2, <2>3, <2>4, <2>5, Numbers
    DEF Limits, Counts, Paced, ClosingBounded, document, env
  <2>8. Claimed' /\ HonestEnd'
    BY <2>4, <2>5 DEF Claimed, HonestEnd, env
  <2> QED
    BY <2>6, <2>7, <2>8, TypesFoldNext
<1>2. CASE (ForceFinish(cp) \/ Fail) /\ UNCHANGED <<retry, cp>>
  <2>1. Types'
    BY <1>2, TypesFold
    DEF Outage, Types, Statuses, env, Fail, ForceFinish, Accept, Continue, Partial
  <2>2. Limits' /\ Counts' /\ Paced' /\ ClosingBounded'
    BY <1>2, TypesFold, Numbers
    DEF Outage, Types, Limits, Counts, Paced, ClosingBounded, document, env, Fail, ForceFinish,
        Accept, Continue, Partial
  <2>3. Claimed' /\ HonestEnd'
    BY <1>2, TypesFold
    DEF Outage, Types, Claimed, HonestEnd, Claims, CanForce, Saved, Missing, document, env,
        Fail, ForceFinish, Accept, Continue, Partial
  <2> QED
    BY <2>1, <2>2, <2>3, TypesFoldNext
<1> QED
  BY <1>1, <1>2, Zenon DEF Outage

\* The types of what the ends of a pass assign.
EndTyped == status' \in Statuses /\ gaps' \in BOOLEAN /\ failure' \in BOOLEAN

LEMMA EndsTyped ==
  ASSUME IInv
  PROVE  /\ Fail => EndTyped /\ pc' = "settle" /\ failure'
         /\ Accept \/ Partial => EndTyped /\ pc' = "settle"
         /\ \A where \in {"boundary", "settle"} :
              Continue(where) => EndTyped /\ pc' = where /\ status' = status
BY DEF IInv, TypeOK, EndTyped, Fail, Accept, Partial, Continue, Statuses

\* A reply may end the run or send it back to the boundary.  It opens no
\* checkpoint, does not leave closing, and takes no round of it back.
LEMMA Replied ==
  ASSUME IInv, pc = "reply", Answered, UNCHANGED <<workflow, out, cancelled>>,
         doc' \in Docs, plan' \in Plans, stall' \in Stalls, finals' \in 0 .. FinalRetries,
         uncertain' \in BOOLEAN, EndTyped,
         cp' \in Checkpoints, cp'.on => cp.on,
         SamePass(retry', retry),
         closing' \in Closings, closing'.on => document, closing'.rounds <= ClosingRounds,
         closing.on => closing'.on /\ closing'.rounds = closing.rounds,
         \/ pc' = "settle" /\ (failure' \/ cancelled' \/ uncertain' \/ Claims')
         \/ pc' = "boundary" /\ status' = status /\ ~uncertain' /\ retry'.lengths < Lengths
  PROVE  IInv'
<1> USE DEF IInv, Looping
<1>1. Types'
  BY TypesFold DEF Types, Answered, EndTyped, SamePass
<1>2. /\ closing.rounds \in Nat /\ closing'.rounds \in Nat /\ asked \in Nat
      /\ ~closing.on => asked = 0
      /\ asked <= closing.rounds + 1 /\ (~cp.on => asked <= closing.rounds)
      /\ closing.rounds <= ClosingRounds
      /\ ~retry'.fresh /\ ~retry'.counted
  BY TypesFold, ClosingTyped DEF Types, Limits, Counts, Paced, SamePass
<1>3. /\ asked' <= closing'.rounds + 1 /\ asked' <= ClosingRounds + 1
      /\ ~closing'.on => asked' = 0
  <2>1. CASE closing.on /\ ~cp.on
    BY <1>2, <2>1, Numbers DEF Answered
  <2>2. CASE ~(closing.on /\ ~cp.on)
    BY <1>2, <2>2, Numbers DEF Answered, ClosingBounded
  <2> QED
    BY <2>1, <2>2
<1>4. Limits'
  BY DEF Limits, document
<1>5. Counts' /\ Paced' /\ ClosingBounded'
  BY <1>2, <1>3 DEF Counts, Paced, ClosingBounded
<1>6. Claimed' /\ HonestEnd'
  BY DEF Claimed, HonestEnd
<1> QED
  BY <1>1, <1>4, <1>5, <1>6, TypesFoldNext

\* What Replied needs of a reply whose outcome is all there is to it.
LEMMA Unchanged ==
  ASSUME IInv, pc = "reply", UNCHANGED <<doc, plan, cp, finals, env>>
  PROVE  /\ UNCHANGED <<out, cancelled>> /\ doc' \in Docs /\ plan' \in Plans
         /\ finals' \in 0 .. FinalRetries /\ uncertain' \in BOOLEAN /\ ~uncertain'
         /\ cp' \in Checkpoints /\ cp'.on = cp.on
         /\ stall \in Stalls /\ closing \in Closings /\ (closing.on => document)
         /\ closing.rounds <= ClosingRounds
         /\ retry \in Retries /\ retry.lengths < Lengths
BY TypesFold DEF IInv, Types, Limits, Claimed, Looping, env

LEMMA RejectedInv == IInv /\ Rejected => IInv'
<1> SUFFICES ASSUME IInv, Rejected PROVE IInv'
  OBVIOUS
<1> DEFINE r1 == [retry EXCEPT !.rejected = ~document]
           r2 == [retry EXCEPT !.rejected = ~document, !.outages = 0, !.empties = 0, !.lengths = 0]
<1>1. /\ pc = "reply" /\ Answered
      /\ UNCHANGED <<workflow, doc, plan, closing, cp, stall, finals, env>>
      /\ \/ Continue("boundary") /\ retry' \in {r1, r2}
         \/ Fail /\ retry' = retry
  BY DEF Rejected
<1>2. (~document) \in BOOLEAN
  BY DEF document
<1>3. retry \in Retries /\ retry.lengths < Lengths /\ Lengths > 0
  BY <1>1, Unchanged, Numbers
<1>4. /\ SamePass(r1, retry) /\ r1.lengths < Lengths
      /\ SamePass(r2, retry) /\ r2.lengths < Lengths
  <2>1. /\ SamePass(r1, retry) /\ r1.lengths = retry.lengths
        /\ SamePass(r2, retry) /\ r2.lengths = 0
    BY <1>2, <1>3, RetryRejected, Zenon
  <2> HIDE DEF r1, r2
  <2> QED
    BY <1>3, <2>1, Numbers
<1> HIDE DEF r1, r2
<1>5. SamePass(retry', retry) /\ retry'.lengths < Lengths
  BY <1>1, <1>3, <1>4 DEF SamePass
<1> QED
  BY <1>1, <1>5, Unchanged, EndsTyped, Replied

LEMMA CutInv == IInv /\ Cut => IInv'
<1> SUFFICES ASSUME IInv, Cut PROVE IInv'
  OBVIOUS
<1> DEFINE n == IF document THEN 0 ELSE retry.lengths + 1
           r == [retry EXCEPT !.outages = 0, !.empties = 0, !.lengths = n]
<1>1. /\ pc = "reply" /\ Answered
      /\ UNCHANGED <<workflow, doc, plan, closing, cp, stall, finals, env>>
  BY DEF Cut
<1>2. retry \in Retries /\ retry.lengths < Lengths
  BY <1>1, Unchanged
<1>3. n \in 0 .. Lengths
  BY <1>2, Numbers DEF Retries
<1>4. retry' = r /\ (Fail \/ (n < Lengths /\ Continue("boundary")))
  BY <1>3, Numbers DEF Cut
<1> HIDE DEF n
<1>5. SamePass(r, retry) /\ r.lengths = n
  BY <1>2, <1>3, RetryAnswered
<1> HIDE DEF r
<1> QED
  BY <1>1, <1>4, <1>5, Unchanged, EndsTyped, Replied

LEMMA EmptyInv == IInv /\ Empty => IInv'
<1> SUFFICES ASSUME IInv, Empty PROVE IInv'
  OBVIOUS
<1> DEFINE n == retry.empties + 1
           e == Capped(n, IF document THEN EmptyToClose ELSE EmptyRetries + 1)
           r == [retry EXCEPT !.outages = 0, !.empties = e]
<1>1. /\ pc = "reply" /\ Answered /\ retry' = r
      /\ UNCHANGED <<workflow, doc, plan, cp, stall, finals, env>>
      /\ closing' = IF document /\ n >= EmptyToClose /\ ~closing.on
                    THEN [NoClosing EXCEPT !.on = TRUE] ELSE closing
      /\ Continue("boundary") \/ Fail
  BY DEF Empty
<1>2. retry \in Retries /\ retry.lengths < Lengths /\ closing \in Closings
  BY <1>1, Unchanged
<1>3. e \in Nat
  BY <1>2, Numbers DEF Retries, Capped
<1> HIDE DEF e
<1>4. SamePass(retry', retry) /\ retry'.lengths < Lengths
  BY <1>1, <1>2, <1>3, RetryEmpty
<1> HIDE DEF n, r
<1>5. /\ closing' \in Closings /\ (closing'.on => document) /\ closing'.rounds <= ClosingRounds
      /\ closing.on => closing'.on /\ closing'.rounds = closing.rounds
  <2>1. CASE closing' = closing
    BY <1>1, <2>1, Unchanged
  <2>2. CASE closing' = [NoClosing EXCEPT !.on = TRUE] /\ document /\ ~closing.on
    <3>1. closing'.rounds = 0
      BY <2>2 DEF NoClosing
    <3> QED
      BY <2>2, <3>1, FirstTyped, Numbers
  <2> QED
    BY <1>1, <2>1, <2>2
<1> QED
  BY <1>1, <1>4, <1>5, Unchanged, EndsTyped, Replied

LEMMA LadderInv == IInv /\ Ladder => IInv'
<1> SUFFICES ASSUME IInv, Ladder PROVE IInv'
  OBVIOUS
<1> USE DEF IInv, Looping
<1>1. /\ retry \in Retries /\ closing \in Closings /\ stall \in Stalls /\ asked \in Nat
      /\ cp.on \in BOOLEAN /\ retry.fresh \in BOOLEAN /\ stall.best \in 0 .. StallRounds
  BY TypesFold DEF Types, Retries, Checkpoints, Stalls
<1>2. pc = "ladder" /\ UNCHANGED <<workflow, doc, plan, cp, finals, env, asked>>
  BY DEF Ladder
<1>3. CASE cp.on
  <2> DEFINE n == [retry EXCEPT !.fresh = FALSE, !.counted = FALSE]
  <2>1. n \in Retries /\ ~n.fresh /\ ~n.counted /\ n.lengths = retry.lengths
    BY <1>1, RetryTyped
  <2>2. retry' = n /\ Continue("prepare") /\ UNCHANGED <<closing, stall>>
    BY <1>3 DEF Ladder
  <2> HIDE DEF n
  <2>3. Types'
    BY <1>1, <1>2, <2>1, <2>2, TypesFold DEF Types, Continue, env
  <2>4. Limits' /\ Counts' /\ Paced' /\ ClosingBounded'
    BY <1>1, <1>2, <1>3, <2>1, <2>2, ClosingTyped
    DEF Limits, Counts, Paced, ClosingBounded, Continue, document, env
  <2>5. Claimed' /\ HonestEnd'
    BY <1>2, <2>2 DEF Claimed, HonestEnd, Continue, env
  <2> QED
    BY <2>3, <2>4, <2>5, TypesFoldNext
<1>4. CASE ~cp.on
  <2>1. PICK progress \in BOOLEAN, short \in BOOLEAN :
          LET best == IF progress \/ ~document THEN 0
                      ELSE IF retry.fresh THEN stall.best
                      ELSE Capped(stall.best + 1, StallRounds)
              on == closing.on \/ (document /\ (short \/ best >= StallRounds))
              counted == on /\ ~retry.fresh
              rounds == closing.rounds + (IF counted THEN 1 ELSE 0)
          IN /\ stall' = [stall EXCEPT !.best = best]
             /\ closing' = [closing EXCEPT !.on = on, !.rounds = rounds]
             /\ retry' = [retry EXCEPT !.fresh = FALSE, !.counted = counted]
             /\ IF rounds > ClosingRounds THEN ForceFinish(cp) ELSE Continue("prepare")
    BY <1>4 DEF Ladder
  <2> DEFINE best == IF progress \/ ~document THEN 0
                     ELSE IF retry.fresh THEN stall.best
                     ELSE Capped(stall.best + 1, StallRounds)
             on == closing.on \/ (document /\ (short \/ best >= StallRounds))
             counted == on /\ ~retry.fresh
             rounds == closing.rounds + (IF counted THEN 1 ELSE 0)
  <2>2. /\ stall' = [stall EXCEPT !.best = best]
        /\ closing' = [closing EXCEPT !.on = on, !.rounds = rounds]
        /\ retry' = [retry EXCEPT !.fresh = FALSE, !.counted = counted]
        /\ IF rounds > ClosingRounds THEN ForceFinish(cp) ELSE Continue("prepare")
    BY <2>1
  <2>3. best \in 0 .. StallRounds
    BY <1>1, Numbers, CappedBounds
  <2>4. /\ on \in BOOLEAN /\ counted \in BOOLEAN
        /\ closing.on => on
        /\ on => document
        /\ counted <=> on /\ ~retry.fresh
    BY <1>1, ClosingTyped DEF Limits, document
  <2>5. closing.rounds \in 0 .. ClosingRounds
    BY <1>1, <1>2, ClosingTyped, Numbers DEF Limits
  <2> HIDE DEF best, on, counted
  <2>6. /\ rounds \in 0 .. ClosingRounds + 1
        /\ rounds = IF counted THEN closing.rounds + 1 ELSE closing.rounds
    BY <2>5, Numbers
  <2> HIDE DEF rounds
  <2>7. stall' \in Stalls
    BY <1>1, <2>2, <2>3 DEF Stalls
  <2>8. closing' \in Closings /\ closing'.on = on /\ closing'.rounds = rounds
    <3> DEFINE d == [closing EXCEPT !.on = on, !.rounds = rounds]
    <3>1. closing \in Closings /\ on \in BOOLEAN /\ rounds \in 0 .. ClosingRounds + 1
      BY <1>1, <2>4, <2>6
    <3>2. closing' = d
      BY <2>2
    <3>3. d \in Closings /\ d.on = on /\ d.rounds = rounds
      BY <3>1 DEF Closings
    <3> HIDE DEF d
    <3> QED
      BY <3>2, <3>3
  <2>9. retry' \in Retries /\ ~retry'.fresh /\ retry'.counted = counted
        /\ retry'.lengths = retry.lengths
    BY <1>1, <2>2, <2>4, RetryTyped
  <2>10. Types'
    BY <1>2, <2>2, <2>7, <2>8, <2>9, TypesFold
    DEF Types, Statuses, ForceFinish, Accept, Fail, Continue, env
  <2>11. Limits' /\ Counts' /\ Paced' /\ ClosingBounded'
    <3>1. \/ pc' = "settle"
          \/ pc' = "prepare" /\ rounds <= ClosingRounds
      BY <2>2, <2>6, Numbers DEF ForceFinish, Accept, Fail, Continue
    <3>2. UNCHANGED <<workflow, cp, asked>>
      BY <1>2
    <3>3. /\ asked <= closing.rounds + 1 /\ (~closing.on => asked = 0)
          /\ retry.fresh => asked <= closing.rounds
          /\ retry.lengths < Lengths
      BY <1>2, <1>4 DEF Limits, Paced
    <3>4. asked <= rounds /\ (~on => asked = 0)
      BY <1>1, <2>4, <2>5, <2>6, <3>3
    <3>5. Limits'
      BY <2>4, <2>8, <2>9, <3>1, <3>2, <3>3 DEF Limits, document
    <3>6. Counts'
      BY <2>4, <2>5, <2>6, <2>8, <2>9, <3>1 DEF Counts
    <3>7. Paced'
      BY <1>1, <2>6, <2>8, <3>1, <3>2, <3>4 DEF Paced
    <3>8. ClosingBounded'
      BY <3>2 DEF ClosingBounded
    <3> QED
      BY <3>5, <3>6, <3>7, <3>8
  <2>12. Claimed' /\ HonestEnd'
    BY <1>2, <2>2 DEF Claimed, Claims, HonestEnd, ForceFinish, CanForce, Saved, Accept, Fail,
                      Continue, Missing, document, env
  <2> QED
    BY <2>10, <2>11, <2>12, TypesFoldNext
<1> QED
  BY <1>1, <1>3, <1>4

LEMMA PrepareInv == IInv /\ Prepare => IInv'
<1> SUFFICES ASSUME IInv, Prepare PROVE IInv'
  OBVIOUS
<1> USE DEF IInv, Looping
<1> DEFINE First == [NoCheckpoint EXCEPT !.on = TRUE]
<1>1. /\ retry \in Retries /\ closing \in Closings /\ cp \in Checkpoints /\ asked \in Nat
      /\ retry.counted \in BOOLEAN
  BY TypesFold DEF Types, Retries
<1>2. /\ pc = "prepare" /\ UNCHANGED <<workflow, doc, plan, stall, finals, env, asked>>
      /\ retry' = [retry EXCEPT !.counted = FALSE]
  BY DEF Prepare
<1>3. PICK opened \in IF cp.on THEN {FALSE} ELSE BOOLEAN :
        LET c == IF opened THEN First ELSE cp
        IN /\ closing' = IF GiveBack(opened) THEN [closing EXCEPT !.rounds = @ - 1] ELSE closing
           /\ \/ Fail /\ cp' \in {cp, c}
              \/ ~Exhausted(c) /\ ForceFinish(c) /\ cp' = c
              \/ /\ ~Exhausted(c) /\ ~out
                 /\ Continue("reply")
                 /\ cp' = IF c.on THEN [c EXCEPT !.attempts = @ + 1] ELSE c
  BY DEF Prepare
<1> DEFINE c == IF opened THEN First ELSE cp
<1>4. First \in Checkpoints /\ First.on
  BY FirstTyped DEF NoCheckpoint
<1>5. c \in Checkpoints /\ (c.on <=> cp.on \/ opened) /\ (opened => ~cp.on)
  BY <1>1, <1>3, <1>4
<1>6. retry' \in Retries /\ ~retry'.counted /\ retry'.fresh = retry.fresh
      /\ retry'.lengths = retry.lengths
  BY <1>1, <1>2, RetryCounted
<1>7. /\ closing' \in Closings /\ closing'.on = closing.on
      /\ closing'.rounds = closing.rounds
         \/ (opened /\ closing'.rounds = closing.rounds - 1 /\ closing.rounds >= 1)
  BY <1>1, <1>2, <1>3, ClosingGivesBack DEF GiveBack, Counts
<1>8. \/ Fail /\ cp' \in {cp, c}
      \/ ForceFinish(c) /\ cp' = c
      \/ /\ ~Exhausted(c) /\ Continue("reply")
         /\ cp' = IF c.on THEN [c EXCEPT !.attempts = @ + 1] ELSE c
  BY <1>3
<1> HIDE DEF c, First
<1>9. /\ cp' \in Checkpoints
      /\ pc' = "reply" => /\ cp'.on = c.on
                          /\ cp'.on => cp'.attempts >= 1 /\ cp'.failures < CheckpointFailures
  <2>1. CASE pc' = "settle"
    BY <1>1, <1>5, <1>8, <2>1 DEF Continue
  <2>2. CASE pc' = "reply"
    <3>1. ~Exhausted(c) /\ cp' = IF c.on THEN [c EXCEPT !.attempts = @ + 1] ELSE c
      BY <1>8, <2>2 DEF Fail, ForceFinish, Accept
    <3>2. CASE c.on
      <4> c.attempts \in Nat /\ c.failures \in Nat
        BY <1>5, CheckpointTyped
      <4>1. c.attempts < CheckpointRequests /\ c.failures < CheckpointFailures
        BY <3>1, <3>2, Numbers DEF Exhausted
      <4> QED
        BY <1>5, <3>1, <3>2, <4>1, CheckpointTyped
    <3>3. CASE ~c.on
      BY <1>5, <3>1, <3>3
    <3> QED
      BY <3>2, <3>3
  <2> QED
    BY <1>8, <2>1, <2>2 DEF Fail, ForceFinish, Accept, Continue
<1>10. Types'
  BY <1>2, <1>6, <1>7, <1>8, <1>9, TypesFold
  DEF Types, Statuses, ForceFinish, Accept, Fail, Continue, env
<1>11. Limits' /\ Counts' /\ Paced' /\ ClosingBounded'
  <2>1. /\ pc' \in {"settle", "reply"} /\ UNCHANGED <<workflow, asked>>
        /\ asked <= closing.rounds + 1 /\ (~closing.on => asked = 0)
        /\ ~cp.on => asked <= closing.rounds
        /\ closing.rounds \in Nat /\ closing'.rounds \in Nat /\ closing.rounds <= ClosingRounds
        /\ closing'.rounds <= closing.rounds
    BY <1>1, <1>2, <1>7, <1>8, ClosingTyped
    DEF Paced, Limits, ForceFinish, Accept, Fail, Continue
  <2>2. /\ asked <= closing'.rounds + 1
        /\ ~opened /\ ~cp.on => asked <= closing'.rounds
    BY <1>1, <1>5, <1>7, <2>1
  <2>3. Limits'
    BY <1>2, <1>6, <1>7, <1>9, <2>1, Numbers DEF Limits, document
  <2>4. Counts'
    BY <1>2, <1>6, <2>1 DEF Counts
  <2>5. Paced'
    BY <1>5, <1>7, <1>9, <2>1, <2>2 DEF Paced
  <2>6. ClosingBounded'
    BY <2>1 DEF ClosingBounded
  <2> QED
    BY <2>3, <2>4, <2>5, <2>6
<1>12. Claimed' /\ HonestEnd'
  BY <1>2, <1>8 DEF Claimed, Claims, HonestEnd, ForceFinish, CanForce, Saved, Accept, Fail,
                    Continue, Missing, document, env
<1> QED
  BY <1>10, <1>11, <1>12, TypesFoldNext

-----------------------------------------------------------------------------
(* The two replies that do something.                                      *)

LEMMA PartialClaims == Partial => Claims'
BY DEF Partial, Claims

LEMMA CompleteSame ==
  ASSUME NEW r \in Retries
  PROVE  LET n == [r EXCEPT !.outages = 0, !.empties = 0, !.lengths = 0]
             m == [n EXCEPT !.rejected = FALSE]
         IN SamePass(n, r) /\ n.lengths = 0 /\ SamePass(m, r) /\ m.lengths = 0
<1> DEFINE n == [r EXCEPT !.outages = 0, !.empties = 0, !.lengths = 0]
           m == [n EXCEPT !.rejected = FALSE]
<1>1. 0 \in 0 .. Lengths
  BY Numbers
<1>2. SamePass(n, r) /\ n.lengths = 0
  BY <1>1, RetryAnswered
<1> HIDE DEF n
<1>3. n \in Retries
  BY <1>2 DEF SamePass
<1>4. SamePass(m, n) /\ m.lengths = n.lengths
  BY <1>3, RetryRejected
<1> HIDE DEF m
<1>5. SamePass(m, r) /\ m.lengths = 0
  BY <1>2, <1>4 DEF SamePass
<1> QED
  BY <1>2, <1>5 DEF n, m

\* Where a final answer leaves the run: back at the boundary, or ended with
\* claims that hold.
Judged ==
  /\ plan' \in Plans /\ stall' \in Stalls /\ finals' \in 0 .. FinalRetries /\ EndTyped
  /\ \/ pc' = "settle" /\ (failure' \/ Claims')
     \/ pc' = "boundary" /\ status' = status

LEMMA OpenTodoJudged == ASSUME IInv, OpenTodo PROVE Judged
<1>1. plan \in Plans /\ stall \in Stalls /\ finals \in 0 .. FinalRetries
  BY TypesFold DEF IInv, Types
<1> DEFINE n == Capped(stall.outcome + 1, OutcomeRounds)
<1>2. n \in 0 .. OutcomeRounds
  <2>1. stall.outcome \in 0 .. OutcomeRounds
    BY <1>1 DEF Stalls
  <2> QED
    BY <2>1, Numbers DEF Capped
<1>3. /\ stall' = IF document THEN stall ELSE [stall EXCEPT !.outcome = n]
      /\ (Partial \/ Continue("boundary")) /\ UNCHANGED <<plan, finals>>
  BY DEF OpenTodo
<1>4. UNCHANGED <<plan, finals>>
  BY DEF OpenTodo
<1> HIDE DEF n
<1>5. stall' \in Stalls
  BY <1>1, <1>2, <1>3 DEF Stalls
<1> QED
  BY <1>1, <1>3, <1>4, <1>5, PartialClaims, EndsTyped DEF Judged

LEMMA AcceptClaims ==
  ASSUME IInv, pc = "reply", ~cp.on, Accept, UNCHANGED <<workflow, doc, plan, cp>>,
         Passes \/ (document /\ Saved), document \/ ~plan.todo
  PROVE  Claims'
BY DEF Accept, Claims, Passes, Saved, Missing, document

LEMMA JudgeJudged ==
  ASSUME IInv, pc = "reply", ~cp.on, UNCHANGED <<workflow, doc, cp>>, document \/ ~plan.todo,
         NEW accept \in BOOLEAN, accept => document /\ Saved, Judge(accept)
  PROVE  Judged
<1>1. plan \in Plans /\ stall \in Stalls /\ finals \in 0 .. FinalRetries
  BY TypesFold DEF IInv, Types
<1>2. CASE Refused
  <2>1. finals' \in 0 .. FinalRetries /\ UNCHANGED <<plan, stall>>
    BY <1>1, <1>2, Numbers DEF Refused
  <2>2. Partial \/ Continue("boundary")
    BY <1>2 DEF Refused
  <2> QED
    BY <1>1, <2>1, <2>2, PartialClaims, EndsTyped DEF Judged
<1>3. CASE /\ Continue("boundary") /\ UNCHANGED <<stall, finals>>
           /\ plan' = [plan EXCEPT !.covered = TRUE] \/ plan' = [plan EXCEPT !.unresolved = "shown"]
  <2>1. plan' \in Plans
    BY <1>1, <1>3 DEF Plans
  <2> QED
    BY <1>1, <1>3, <2>1, EndsTyped DEF Judged
<1>4. CASE Accept /\ UNCHANGED <<plan, stall, finals>> /\ (Passes \/ accept)
  BY <1>1, <1>4, AcceptClaims, EndsTyped DEF Judged
<1> QED
  BY <1>2, <1>3, <1>4 DEF Judge

LEMMA FinalInv == IInv /\ Final => IInv'
<1> SUFFICES ASSUME IInv, Final PROVE IInv'
  OBVIOUS
<1>1. pc = "reply" /\ Answered /\ retry' = Complete /\ UNCHANGED <<workflow, doc, cp, env>>
  BY DEF Final
<1>2. /\ retry \in Retries /\ plan \in Plans /\ stall \in Stalls /\ closing \in Closings
      /\ finals \in 0 .. FinalRetries /\ closing.rounds <= ClosingRounds
      /\ closing.on => document
  BY <1>1, TypesFold DEF IInv, Types, Limits, Looping
<1>3. SamePass(retry', retry) /\ retry'.lengths < Lengths
  BY <1>1, <1>2, CompleteSame, Numbers DEF Complete
<1>4. closing' \in Closings /\ closing'.on = closing.on /\ closing'.rounds = closing.rounds
  <2> DEFINE n == Capped(closing.finals + 1, 2)
  <2>1. n \in 0 .. 2
    <3>1. closing.finals \in 0 .. 2
      BY <1>2, ClosingTyped
    <3> QED
      BY <3>1 DEF Capped
  <2>2. closing' = IF closing.on /\ ~cp.on THEN [closing EXCEPT !.finals = n] ELSE closing
    BY DEF Final
  <2> HIDE DEF n
  <2> QED
    BY <1>2, <2>1, <2>2, ClosingFinals
<1>5. Judged
  <2> DEFINE accept == document /\ closing.on /\ closing'.finals >= 2 /\ Saved
  <2>1. CASE Continue("boundary") /\ UNCHANGED <<plan, stall, finals>>
    BY <1>2, <2>1, EndsTyped DEF Judged
  <2>2. CASE Fail /\ UNCHANGED <<plan, stall, finals>>
    BY <1>2, <2>2, EndsTyped DEF Judged
  <2>3. CASE OpenTodo
    BY <2>3, OpenTodoJudged
  <2>4. CASE /\ ~cp.on /\ Judge(accept)
             /\ ~(plan.todo /\ ~accept /\ ~(closing.on /\ doc.state # "none"))
    <3>1. accept \in BOOLEAN /\ (accept => document /\ Saved)
      BY DEF document, Saved
    <3>2. document \/ ~plan.todo
      BY <1>2, <2>4
    <3> HIDE DEF accept
    <3> QED
      BY <1>1, <2>4, <3>1, <3>2, JudgeJudged
  <2> HIDE DEF accept
  <2>5. \/ Continue("boundary") /\ UNCHANGED <<plan, stall, finals>>
        \/ Fail /\ UNCHANGED <<plan, stall, finals>>
        \/ OpenTodo
        \/ /\ ~cp.on /\ Judge(accept)
           /\ ~(plan.todo /\ ~accept /\ ~(closing.on /\ doc.state # "none"))
    BY DEF Final, accept
  <2> QED
    BY <2>1, <2>2, <2>3, <2>4, <2>5
<1>6. /\ UNCHANGED <<out, cancelled>> /\ uncertain' \in BOOLEAN /\ ~uncertain'
      /\ doc' \in Docs /\ cp' \in Checkpoints /\ cp'.on = cp.on
      /\ closing'.on => document
  BY <1>1, <1>2, <1>4, TypesFold DEF IInv, Types, Claimed, Looping, env
<1> QED
  BY <1>1, <1>2, <1>3, <1>4, <1>5, <1>6, Replied DEF Judged

LEMMA StalledTyped ==
  ASSUME stall \in Stalls, NEW gain PROVE Stalled(gain) \in Stalls
<1>1. /\ stall.outcome \in 0 .. OutcomeRounds /\ stall.substantive \in 0 .. SubstantiveRounds
      /\ stall.churn \in 0 .. ChurnRounds
  BY DEF Stalls
<1>2. /\ Counted(stall.outcome, OutcomeRounds) \in 0 .. OutcomeRounds
      /\ Counted(stall.substantive, SubstantiveRounds) \in 0 .. SubstantiveRounds
      /\ Counted(stall.churn, ChurnRounds) \in 0 .. ChurnRounds
  BY <1>1, Numbers DEF Counted, Capped
<1> DEFINE o == IF gain # {} THEN 0 ELSE Counted(stall.outcome, OutcomeRounds)
           u == IF Brings(gain, {"artifact", "evidence"}) THEN 0
                ELSE Counted(stall.substantive, SubstantiveRounds)
           h == IF Brings(gain, {"plan", "milestone", "evidence"}) THEN 0
                ELSE IF "artifact" \in gain THEN Counted(stall.churn, ChurnRounds)
                ELSE stall.churn
<1>3. o \in 0 .. OutcomeRounds /\ u \in 0 .. SubstantiveRounds /\ h \in 0 .. ChurnRounds
  BY <1>1, <1>2, Numbers
<1>4. Stalled(gain) = [stall EXCEPT !.outcome = o, !.substantive = u, !.churn = h]
  BY DEF Stalled
<1> HIDE DEF o, u, h
<1> QED
  BY <1>3, <1>4 DEF Stalls

LEMMA EffectsTyped ==
  ASSUME IInv, Effects
  PROVE  doc' \in Docs /\ plan' \in Plans /\ stall' \in Stalls /\ finals' \in 0 .. FinalRetries
<1>1. doc \in Docs /\ plan \in Plans /\ stall \in Stalls /\ finals \in 0 .. FinalRetries
  BY TypesFold DEF IInv, Types
<1>2. doc' \in Docs
  <2>1. [state |-> "saved", body |-> TRUE, audit |-> "sound"] \in Written
    BY DEF Written, Audits
  <2> QED
    BY <1>1, <2>1 DEF Effects, Docs
<1>3. plan' \in Plans
  <2>1. PICK todo \in BOOLEAN, open \in {"none", "unseen", plan.unresolved} :
          plan' = [plan EXCEPT !.todo = todo, !.unresolved = open]
    BY DEF Effects
  <2>2. plan.unresolved \in {"none", "unseen", "shown"}
    BY <1>1 DEF Plans
  <2>3. open \in {"none", "unseen", "shown"}
    BY <2>2
  <2> QED
    BY <1>1, <2>1, <2>3 DEF Plans
<1>4. PICK gain : /\ stall' = IF document THEN stall ELSE Stalled(gain)
                  /\ finals' = IF "artifact" \in gain THEN 0 ELSE finals
  BY DEF Effects
<1> QED
  BY <1>1, <1>2, <1>3, <1>4, StalledTyped, Numbers

LEMMA BatchInv == IInv /\ Batch => IInv'
<1> SUFFICES ASSUME IInv, Batch PROVE IInv'
  OBVIOUS
<1>1. /\ pc = "reply" /\ Answered /\ Effects /\ UNCHANGED <<workflow, closing, out, cancelled>>
      /\ retry' = [Complete EXCEPT !.rejected = FALSE] /\ uncertain' \in BOOLEAN
  BY DEF Batch
<1>2. /\ retry \in Retries /\ cp \in Checkpoints /\ closing \in Closings
      /\ closing.rounds <= ClosingRounds /\ (closing.on => document)
      /\ cp.on => cp.failures < CheckpointFailures
  BY <1>1, TypesFold DEF IInv, Types, Limits, Looping
<1>3. SamePass(retry', retry) /\ retry'.lengths < Lengths
  BY <1>1, <1>2, CompleteSame, Numbers DEF Complete
<1>4. cp' \in Checkpoints /\ (cp'.on => cp.on)
  <2>1. \/ cp' = cp
        \/ cp' = NoCheckpoint
        \/ cp.on /\ cp' = [cp EXCEPT !.failures = @ + 1]
    BY DEF Batch, CheckpointAfter
  <2>2. NoCheckpoint \in Checkpoints /\ ~NoCheckpoint.on
    BY FirstTyped DEF NoCheckpoint
  <2> QED
    BY <1>2, <2>1, <2>2, CheckpointTyped
<1>5. \/ Fail
      \/ ~uncertain' /\ (\/ cancelled /\ Continue("settle")
                         \/ Partial
                         \/ Continue("boundary"))
  BY DEF Batch
<1>6. /\ EndTyped
      /\ \/ pc' = "settle" /\ (failure' \/ cancelled' \/ uncertain' \/ Claims')
         \/ pc' = "boundary" /\ status' = status /\ ~uncertain'
  BY <1>1, <1>5, PartialClaims, EndsTyped
<1> QED
  BY <1>1, <1>2, <1>3, <1>4, <1>6, EffectsTyped, Replied

-----------------------------------------------------------------------------
(* The theorems.                                                           *)

LEMMA StutterInv == IInv /\ UNCHANGED vars => IInv'
BY DEF IInv, vars, env, TypeOK, Limits, Counts, Paced, Claimed, Claims, Missing, HonestEnd,
       ClosingBounded, document

LEMMA StepInv == IInv /\ [Next]_vars => IInv'
BY BeginInv, BoundaryInv, LadderInv, PrepareInv, InterruptedInv, SettleInv, OutageInv, ErrorInv,
   RejectedInv, EmptyInv, CutInv, FinalInv, BatchInv, CancelInv, TimeUpInv, ExternalEditInv,
   StutterInv
DEF Next, Loop

LEMMA Invariance == Spec => []IInv
BY InitInv, StepInv, PTL DEF Spec

\* The loop's counters keep their types: a checkpoint never uses more requests
\* or failures than it has (agent.rs, CHECKPOINT_MAX_REQUESTS).
THEOREM LoopTyped == Spec => []TypeOK
<1>1. IInv => TypeOK
  BY DEF IInv
<1> QED
  BY <1>1, Invariance, PTL

\* Closing is short (agent.rs, CLOSING_ROUND_LIMIT), whatever checkpoints,
\* outages, refused answers and empty replies come between its requests.
THEOREM ClosingIsShort == Spec => []ClosingBounded
<1>1. IInv => ClosingBounded
  BY DEF IInv
<1> QED
  BY <1>1, Invariance, PTL

\* An ended run says what it leaves (agent.rs, force_finish and the final
\* checks): nothing is complete with an unresolved write, a changed file, a
\* pending checkpoint or an open to-do.
THEOREM EndsHonestly == Spec => []HonestEnd
<1>1. IInv => HonestEnd
  BY DEF IInv
<1> QED
  BY <1>1, Invariance, PTL
=============================================================================

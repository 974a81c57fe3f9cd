-------------------------- MODULE WriteGateProofs --------------------------
(***************************************************************************)
(* Proofs about WriteGate for any number of runs, tool threads and gates:  *)
(* type correctness, one writer per gate, no write behind a gate whose     *)
(* last writer left in doubt, and that the gates implement WriteQuarantine.*)
(*                                                                         *)
(* The invariants the runs check are not inductive.  What makes them so is *)
(* that a thread past TryLock is the holder of its gate and the only one   *)
(* (Holders), and that doubt is public before the lock is given back       *)
(* (Doubt).                                                                *)
(*                                                                         *)
(* A second inductive invariant (AInv) relates runs and threads: a run     *)
(* expects a thread only while that thread runs its call (Expected), a     *)
(* writing thread nobody expects is in quarantine (Orphans), and an        *)
(* outcome that claims to know the effect is right (Told).  From it        *)
(* follows that reports are truthful.                                      *)
(***************************************************************************)
EXTENDS WriteGate, TLAPS

Holding == {"recheck", "work", "publish", "release"}

\* The mutex and the threads agree on who holds it; a read holds none.
Holders ==
  /\ \A g \in Gates : gate[g] # None => pc[gate[g]] \in Holding /\ kind[gate[g]] = g
  /\ \A t \in Threads : kind[t] # "read" /\ pc[t] \in Holding => gate[kind[t]] = t
  /\ \A t \in Threads : kind[t] = "read" => pc[t] \in {"free", "work", "send"}

\* An unknown effect has an uncertain error, the error quarantines the process
\* before the release, and a doubtful gate stays behind the quarantine.
Doubt ==
  /\ \A t \in Threads :
       pc[t] \in {"publish", "release"} /\ result[t].effect = "unknown"
         => result[t].outcome \in UncertainErrors
  /\ \A t \in Threads :
       pc[t] = "release" /\ result[t].outcome \in UncertainErrors => uncertain
  /\ \A g \in Gates : doubtful[g] => uncertain

IInv == TypeOK /\ Holders /\ Doubt /\ NoWriteAfterDoubt

-----------------------------------------------------------------------------
(* Type correctness.                                                       *)

LEMMA ReceiptTyped ==
  /\ Empty \in Receipts
  /\ \A o \in Outcomes, e \in Effects : Receipt(o, e) \in Receipts
BY DEF Empty, Receipt, Receipts, Effects

LEMMA TypeInit == Init => TypeOK
<1> SUFFICES ASSUME Init PROVE TypeOK
  OBVIOUS
<1>1. mail \in [Runs -> Receipts] /\ report \in [Runs -> Receipts] /\ result \in [Threads -> Receipts]
  BY ReceiptTyped DEF Init
<1>2. kind \in [Threads -> Kinds] /\ call \in [Runs -> Kinds]
  BY DEF Init, Kinds
<1>3. gate \in [Gates -> Threads \union {None}] /\ thread \in [Runs -> Threads \union {None}]
  BY DEF Init
<1> QED
  BY <1>1, <1>2, <1>3 DEF Init, TypeOK

LEMMA TypeNext == TypeOK /\ [Next]_vars => TypeOK'
<1> SUFFICES ASSUME TypeOK, [Next]_vars PROVE TypeOK'
  OBVIOUS
<1> USE ReceiptTyped DEF TypeOK, runVars, threadVars, Kinds, Outcomes, Effects
<1>1. ASSUME NEW r \in Runs, BeginRun(r) PROVE TypeOK'
  BY <1>1 DEF BeginRun
<1>2. ASSUME NEW r \in Runs, EndRun(r) PROVE TypeOK'
  BY <1>2 DEF EndRun
<1>3. ASSUME NEW r \in Runs, Cancel(r) PROVE TypeOK'
  BY <1>3 DEF Cancel
<1>4. ASSUME NEW r \in Runs, NEW k \in Calls[r], Refuse(r, k) PROVE TypeOK'
  <2>1. PICK o \in {"unresolved", "cancelled", "timeout", "error"} : NotStarted(r, k, o)
    BY <1>4 DEF Refuse
  <2>2. report' \in [Runs -> Receipts]
    BY <2>1 DEF NotStarted, Record
  <2> QED
    BY <2>1, <2>2 DEF NotStarted
<1>5. ASSUME NEW r \in Runs, NEW k \in Calls[r], NEW t \in Threads, Spawn(r, k, t) PROVE TypeOK'
  BY <1>5, CallsAssumption DEF Spawn
<1>6. ASSUME NEW r \in Runs, Receive(r) PROVE TypeOK'
  <2>1. mail[r].effect \in Effects /\ (stage[r] = "settle" /\ stopped[r] # "cancelled" => stopped[r] \in Outcomes \union {"none"})
    BY DEF Receipts
  <2>2. Recorded(r) \in Receipts
    BY <2>1 DEF Recorded, Receipt, Receipts
  <2>3. report' \in [Runs -> Receipts]
    BY <1>6, <2>2 DEF Receive, Record
  <2>4. mail' \in [Runs -> Receipts] /\ uncertain' \in BOOLEAN
    BY <1>6 DEF Receive
  <2> QED
    BY <1>6, <2>3, <2>4 DEF Receive, Return
<1>7. ASSUME NEW r \in Runs, NEW why \in {"cancelled", "timeout"}, Stop(r, why) PROVE TypeOK'
  BY <1>7 DEF Stop, Return
<1>8. ASSUME NEW r \in Runs, GiveUp(r) PROVE TypeOK'
  BY <1>8 DEF GiveUp, Return
<1>9. ASSUME NEW t \in Threads, Poll(t) PROVE TypeOK'
  BY <1>9 DEF Poll, Finish
<1>10. ASSUME NEW t \in Threads, TryLock(t) PROVE TypeOK'
  <2>1. pc' \in [Threads -> {"free", "poll", "try", "recheck", "work", "publish", "release", "send"}]
    BY <1>10 DEF TryLock, Finish
  <2>2. result' \in [Threads -> Receipts]
    <3>1. Receipt("unresolved", "none") \in Receipts
      OBVIOUS
    <3>2. result' = result \/ result' = [result EXCEPT ![t] = Receipt("unresolved", "none")]
      BY <1>10 DEF TryLock, Finish
    <3> QED
      BY <3>1, <3>2
  <2>3. gate' \in [Gates -> Threads \union {None}]
    BY <1>10 DEF TryLock, Finish
  <2> QED
    BY <1>10, <2>1, <2>2, <2>3 DEF TryLock, Finish
<1>11. ASSUME NEW t \in Threads, Recheck(t) PROVE TypeOK'
  BY <1>11 DEF Recheck, Finish
<1>12. ASSUME NEW t \in Threads, Write(t) PROVE TypeOK'
  <2>1. PICK o \in Outcomes, e \in Effects : result' = [result EXCEPT ![t] = Receipt(o, e)]
    BY <1>12 DEF Write
  <2>2. result' \in [Threads -> Receipts]
    BY <2>1
  <2> QED
    BY <1>12, <2>2 DEF Write
<1>13. ASSUME NEW t \in Threads, Read(t) PROVE TypeOK'
  BY <1>13 DEF Read, Finish
<1>14. ASSUME NEW t \in Threads, Publish(t) PROVE TypeOK'
  BY <1>14 DEF Publish
<1>15. ASSUME NEW t \in Threads, Release(t) PROVE TypeOK'
  BY <1>15 DEF Release
<1>16. ASSUME NEW t \in Threads, Send(t) \/ Die(t) PROVE TypeOK'
  <2>1. result[t].effect \in Effects
    BY DEF Receipts
  <2>2. PICK receipt \in Receipts : Leave(t, receipt)
    BY <1>16, <2>1 DEF Send, Die
  <2>3. mail' \in [Runs -> Receipts] /\ thread' \in [Runs -> Threads \union {None}]
    BY <2>2 DEF Leave
  <2> QED
    BY <2>2, <2>3 DEF Leave
<1>17. CASE UNCHANGED vars
  BY <1>17 DEF vars
<1> QED
  BY <1>1, <1>2, <1>3, <1>4, <1>5, <1>6, <1>7, <1>8, <1>9, <1>10, <1>11, <1>12, <1>13,
     <1>14, <1>15, <1>16, <1>17 DEF Next, AwaitStep, ThreadStep

\* Every variable of WriteGate keeps its type, for any runs, threads and gates.
THEOREM TypeCorrect == Spec => []TypeOK
BY TypeInit, TypeNext, PTL DEF Spec

-----------------------------------------------------------------------------
(* Who holds a gate.                                                       *)

\* What an agent does leaves the gates and the threads' progress alone, except
\* that it starts threads, and quarantines but never lifts a quarantine.
AgentStep ==
  /\ UNCHANGED <<pc, kind, result, gate, poisoned, doubtful>>
  /\ uncertain => uncertain'

LEMMA NextCases ==
  ASSUME [Next]_vars
  PROVE  \/ AgentStep
         \/ \E r \in Runs : \E k \in Calls[r], t \in Threads : Spawn(r, k, t)
         \/ \E t \in Threads : ThreadStep(t) \/ Write(t) \/ Read(t)
<1>1. CASE UNCHANGED vars
  BY <1>1 DEF vars, AgentStep
<1>2. ASSUME NEW r \in Runs, BeginRun(r) \/ EndRun(r) \/ Cancel(r) PROVE AgentStep
  BY <1>2 DEF BeginRun, EndRun, Cancel, AgentStep, threadVars
<1>3. ASSUME NEW r \in Runs, NEW k \in Calls[r], Refuse(r, k) PROVE AgentStep
  BY <1>3 DEF Refuse, NotStarted, AgentStep, threadVars
<1>4. ASSUME NEW r \in Runs, AwaitStep(r) PROVE AgentStep
  <2>1. CASE Receive(r)
    <3>1. uncertain => uncertain'
      BY <2>1, Zenon DEF Receive
    <3> QED
      BY <2>1, <3>1 DEF Receive, AgentStep, threadVars
  <2>2. ASSUME NEW why \in {"cancelled", "timeout"}, Stop(r, why) PROVE AgentStep
    BY <2>2 DEF Stop, AgentStep
  <2>3. CASE GiveUp(r)
    BY <2>3 DEF GiveUp, AgentStep, threadVars
  <2> QED
    BY <1>4, <2>1, <2>2, <2>3 DEF AwaitStep
<1> QED
  BY <1>1, <1>2, <1>3, <1>4 DEF Next

LEMMA HoldersNext == TypeOK /\ Holders /\ [Next]_vars => Holders'
<1> SUFFICES ASSUME TypeOK, Holders, [Next]_vars PROVE Holders'
  OBVIOUS
<1> USE NoneAssumption, GatesAssumption
<1>1. CASE AgentStep
  BY <1>1 DEF AgentStep, Holders
<1>2. ASSUME NEW r \in Runs, NEW k \in Calls[r], NEW t \in Threads, Spawn(r, k, t) PROVE Holders'
  BY <1>2, CallsAssumption DEF Spawn, Holders, Holding, TypeOK, Kinds
<1>3. ASSUME NEW t \in Threads, Poll(t) PROVE Holders'
  BY <1>3 DEF Poll, Finish, Holders, Holding, TypeOK, Kinds
<1>4. ASSUME NEW t \in Threads, TryLock(t) PROVE Holders'
  BY <1>4 DEF TryLock, Finish, Holders, Holding, TypeOK, Kinds
<1>5. ASSUME NEW t \in Threads, Recheck(t) PROVE Holders'
  BY <1>5 DEF Recheck, Finish, Holders, Holding, TypeOK, Kinds
<1>6. ASSUME NEW t \in Threads, Write(t) PROVE Holders'
  BY <1>6 DEF Write, Holders, Holding, TypeOK, Kinds
<1>7. ASSUME NEW t \in Threads, Read(t) PROVE Holders'
  BY <1>7 DEF Read, Finish, Holders, Holding, TypeOK, Kinds
<1>8. ASSUME NEW t \in Threads, Publish(t) PROVE Holders'
  BY <1>8 DEF Publish, Holders, Holding, TypeOK, Kinds
<1>9. ASSUME NEW t \in Threads, Release(t) PROVE Holders'
  BY <1>9 DEF Release, Holders, Holding, TypeOK, Kinds
<1>10. ASSUME NEW t \in Threads, Send(t) \/ Die(t) PROVE Holders'
  BY <1>10 DEF Send, Die, Leave, Holders, Holding, TypeOK, Kinds
<1> QED
  BY <1>1, <1>2, <1>3, <1>4, <1>5, <1>6, <1>7, <1>8, <1>9, <1>10, NextCases DEF ThreadStep

-----------------------------------------------------------------------------
(* What a writer that left in doubt leaves behind.                         *)

LEMMA DoubtNext == TypeOK /\ Holders /\ Doubt /\ [Next]_vars => Doubt'
<1> SUFFICES ASSUME TypeOK, Holders, Doubt, [Next]_vars PROVE Doubt'
  OBVIOUS
<1>1. CASE AgentStep
  BY <1>1 DEF AgentStep, Doubt
<1>2. ASSUME NEW r \in Runs, NEW k \in Calls[r], NEW t \in Threads, Spawn(r, k, t) PROVE Doubt'
  BY <1>2 DEF Spawn, Doubt, TypeOK
<1>3. ASSUME NEW t \in Threads, Poll(t) PROVE Doubt'
  BY <1>3 DEF Poll, Finish, Doubt, TypeOK
<1>4. ASSUME NEW t \in Threads, TryLock(t) PROVE Doubt'
  BY <1>4 DEF TryLock, Finish, Doubt, TypeOK
<1>5. ASSUME NEW t \in Threads, Recheck(t) PROVE Doubt'
  BY <1>5 DEF Recheck, Finish, Doubt, TypeOK
<1>6. ASSUME NEW t \in Threads, Write(t) PROVE Doubt'
  BY <1>6 DEF Write, Doubt, TypeOK, Receipt, UncertainErrors
<1>7. ASSUME NEW t \in Threads, Read(t) PROVE Doubt'
  BY <1>7 DEF Read, Finish, Doubt, TypeOK
<1>8. ASSUME NEW t \in Threads, Publish(t) PROVE Doubt'
  BY <1>8 DEF Publish, Doubt, TypeOK
<1>9. ASSUME NEW t \in Threads, Release(t) PROVE Doubt'
  BY <1>9 DEF Release, Doubt, TypeOK
<1>10. ASSUME NEW t \in Threads, Send(t) \/ Die(t) PROVE Doubt'
  BY <1>10 DEF Send, Die, Leave, Doubt, TypeOK
<1> QED
  BY <1>1, <1>2, <1>3, <1>4, <1>5, <1>6, <1>7, <1>8, <1>9, <1>10, NextCases DEF ThreadStep

LEMMA NoWriteNext == IInv /\ [Next]_vars => NoWriteAfterDoubt'
<1> SUFFICES ASSUME IInv, [Next]_vars PROVE NoWriteAfterDoubt'
  OBVIOUS
<1> USE DEF IInv, NoWriteAfterDoubt, Writing
<1>1. CASE AgentStep
  BY <1>1 DEF AgentStep
<1>2. ASSUME NEW r \in Runs, NEW k \in Calls[r], NEW t \in Threads, Spawn(r, k, t) PROVE NoWriteAfterDoubt'
  BY <1>2 DEF Spawn, TypeOK
<1>3. ASSUME NEW t \in Threads, Poll(t) PROVE NoWriteAfterDoubt'
  BY <1>3 DEF Poll, Finish, TypeOK
<1>4. ASSUME NEW t \in Threads, TryLock(t) PROVE NoWriteAfterDoubt'
  BY <1>4 DEF TryLock, Finish, TypeOK
\* Only a thread that saw no quarantine starts to write, and doubt comes with
\* one.
<1>5. ASSUME NEW t \in Threads, Recheck(t) PROVE NoWriteAfterDoubt'
  BY <1>5 DEF Recheck, Finish, TypeOK, Doubt
<1>6. ASSUME NEW t \in Threads, Write(t) PROVE NoWriteAfterDoubt'
  BY <1>6 DEF Write, TypeOK
<1>7. ASSUME NEW t \in Threads, Read(t) PROVE NoWriteAfterDoubt'
  BY <1>7 DEF Read, Finish, TypeOK
<1>8. ASSUME NEW t \in Threads, Publish(t) PROVE NoWriteAfterDoubt'
  BY <1>8 DEF Publish, TypeOK
\* The writer that leaves was the only one behind its gate.
<1>9. ASSUME NEW t \in Threads, Release(t) PROVE NoWriteAfterDoubt'
  <2>1. kind[t] \in Gates /\ gate[kind[t]] = t
    BY <1>9 DEF Release, Holders, Holding, TypeOK, Kinds
  <2>2. \A u \in Threads : Writing(u) /\ kind[u] = kind[t] => u = t
    BY <2>1 DEF Holders, Holding, TypeOK
  <2> QED
    BY <1>9, <2>1, <2>2 DEF Release, TypeOK
<1>10. ASSUME NEW t \in Threads, Send(t) \/ Die(t) PROVE NoWriteAfterDoubt'
  BY <1>10 DEF Send, Die, Leave, TypeOK
<1> QED
  BY <1>1, <1>2, <1>3, <1>4, <1>5, <1>6, <1>7, <1>8, <1>9, <1>10, NextCases DEF ThreadStep

LEMMA InvInit == Init => IInv
<1> SUFFICES ASSUME Init PROVE IInv
  OBVIOUS
<1>1. Holders /\ Doubt /\ NoWriteAfterDoubt
  BY NoneAssumption DEF Init, Holders, Holding, Doubt, NoWriteAfterDoubt, Writing
<1> QED
  BY <1>1, TypeInit DEF IInv

LEMMA InvNext == IInv /\ [Next]_vars => IInv'
BY TypeNext, HoldersNext, DoubtNext, NoWriteNext DEF IInv

LEMMA Invariance == Spec => []IInv
BY InvInit, InvNext, PTL DEF Spec

\* Whatever threads queue at a gate, time out or panic, nobody writes behind
\* one whose last writer left with an unknown outcome.
THEOREM NoWriteBehindDoubt == Spec => []NoWriteAfterDoubt
<1>1. IInv => NoWriteAfterDoubt
  BY DEF IInv
<1> QED
  BY Invariance, <1>1, PTL

\* File writes exclude each other across all sessions, and database writes do.
THEOREM GatesExclude == Spec => []OneWriterPerGate
<1>1. IInv => OneWriterPerGate
  BY DEF IInv, TypeOK, Holders, Holding, OneWriterPerGate, Writing
<1> QED
  BY Invariance, <1>1, PTL

-----------------------------------------------------------------------------
(* The gates implement WriteQuarantine.                                    *)

LEMMA RefineInit == Init => Quarantine!Init
BY DEF Init, Writer, Quarantine!Init

\* A step that moves no thread into or out of its work is a stutter of the
\* abstract specification, or at most the quarantine.
LEMMA QuietStep ==
  ASSUME Writer' = Writer, doubtful' = doubtful, uncertain => uncertain',
         uncertain \in BOOLEAN, uncertain' \in BOOLEAN
  PROVE  [Quarantine!Next]_(Quarantine!vars)
<1>1. CASE uncertain' = uncertain
  BY <1>1 DEF Quarantine!vars
<1>2. CASE uncertain' = TRUE
  BY <1>2 DEF Quarantine!Next, Quarantine!Quarantine
<1> QED
  BY <1>1, <1>2

LEMMA RefineNext == IInv /\ IInv' /\ [Next]_vars => [Quarantine!Next]_(Quarantine!vars)
<1> SUFFICES ASSUME IInv, IInv', [Next]_vars PROVE [Quarantine!Next]_(Quarantine!vars)
  OBVIOUS
<1> DEFINE Abstract == [Quarantine!Next]_(Quarantine!vars)
<1>0. TypeOK /\ Holders /\ Doubt /\ uncertain \in BOOLEAN /\ uncertain' \in BOOLEAN
  BY DEF IInv, TypeOK
<1> HIDE DEF Abstract
<1>q. ASSUME Writer' = Writer, doubtful' = doubtful, uncertain => uncertain' PROVE Abstract
  BY <1>0, <1>q, QuietStep DEF Abstract
<1> USE NoneAssumption, GatesAssumption
<1>1. ASSUME AgentStep PROVE Abstract
  <2>1. Writer' = Writer
    BY <1>1 DEF AgentStep, Writer
  <2> QED
    BY <1>1, <1>q, <2>1 DEF AgentStep
<1>2. ASSUME NEW r \in Runs, NEW k \in Calls[r], NEW t \in Threads, Spawn(r, k, t) PROVE Abstract
  <2>1. Writer' = Writer
    BY <1>0, <1>2 DEF Spawn, Writer, Holders, Holding, TypeOK
  <2> QED
    BY <1>2, <1>q, <2>1 DEF Spawn
<1>3. ASSUME NEW t \in Threads, Poll(t) PROVE Abstract
  <2>1. Writer' = Writer
    BY <1>0, <1>3 DEF Poll, Finish, Writer, Holders, Holding, TypeOK
  <2> QED
    BY <1>3, <1>q, <2>1 DEF Poll
<1>4. ASSUME NEW t \in Threads, TryLock(t) PROVE Abstract
  <2>1. Writer' = Writer
    BY <1>0, <1>4 DEF TryLock, Finish, Writer, Holders, Holding, TypeOK
  <2>2. doubtful' = doubtful /\ (uncertain => uncertain')
    BY <1>4 DEF TryLock
  <2> QED
    BY <1>q, <2>1, <2>2
<1>5. ASSUME NEW t \in Threads, Recheck(t) PROVE Abstract
  <2> DEFINE g == kind[t]
  <2>1. g \in Gates /\ gate[g] = t
    BY <1>0, <1>5 DEF Recheck, Holders, Holding, TypeOK, Kinds
  <2>a. pc[t] = "recheck" /\ doubtful' = doubtful /\ uncertain' = uncertain
    BY <1>5 DEF Recheck
  <2>b. \/ gate' = [gate EXCEPT ![g] = None] /\ pc' = [pc EXCEPT ![t] = "send"]
        \/ ~uncertain /\ pc' = [pc EXCEPT ![t] = "work"] /\ gate' = gate
    BY <1>5 DEF Recheck, Finish
  <2>c. \A h \in Gates : gate[h] = t => h = g
    BY <1>0 DEF Holders
  <2>2. CASE gate' = [gate EXCEPT ![g] = None] /\ pc' = [pc EXCEPT ![t] = "send"]
    <3>1. Writer' = Writer
      BY <1>0, <2>1, <2>2, <2>a, <2>c DEF Writer, Holders, Holding, TypeOK
    <3> QED
      BY <1>q, <2>a, <3>1
  <2>3. CASE ~uncertain /\ pc' = [pc EXCEPT ![t] = "work"] /\ gate' = gate
    <3>1. Writer[g] = None
      BY <2>1, <2>a DEF Writer
    <3>2. pc'[t] = "work" /\ \A u \in Threads \ {t} : pc'[u] = pc[u]
      BY <1>0, <2>3 DEF TypeOK
    <3>3. Writer'[g] = t
      BY <2>1, <2>3, <3>2 DEF Writer
    <3>4. \A h \in Gates \ {g} : Writer'[h] = Writer[h]
      BY <1>0, <2>3, <2>c, <3>2 DEF Writer, TypeOK
    <3>5. Writer' = [Writer EXCEPT ![g] = t]
      BY <2>1, <3>3, <3>4 DEF Writer
    <3>6. Quarantine!Enter(g, t)
      BY <2>3, <2>a, <3>1, <3>5 DEF Quarantine!Enter
    <3> QED
      BY <2>1, <3>6 DEF Abstract, Quarantine!Next
  <2> QED
    BY <2>2, <2>3, <2>b
<1>6. ASSUME NEW t \in Threads, Write(t) PROVE Abstract
  <2>1. Writer' = Writer
    BY <1>0, <1>6 DEF Write, Writer, Holders, Holding, TypeOK
  <2> QED
    BY <1>6, <1>q, <2>1 DEF Write
<1>7. ASSUME NEW t \in Threads, Read(t) PROVE Abstract
  <2>1. Writer' = Writer
    BY <1>0, <1>7 DEF Read, Finish, Writer, Holders, Holding, TypeOK
  <2> QED
    BY <1>7, <1>q, <2>1 DEF Read
<1>8. ASSUME NEW t \in Threads, Publish(t) PROVE Abstract
  <2>1. Writer' = Writer
    BY <1>0, <1>8 DEF Publish, Writer, Holders, Holding, TypeOK
  <2>2. doubtful' = doubtful /\ (uncertain => uncertain')
    BY <1>8, Zenon DEF Publish
  <2> QED
    BY <1>q, <2>1, <2>2
<1>9. ASSUME NEW t \in Threads, Release(t) PROVE Abstract
  <2> DEFINE g == kind[t]
  <2>1. g \in Gates /\ gate[g] = t
    BY <1>0, <1>9 DEF Release, Holders, Holding, TypeOK, Kinds
  <2>a. Writer[g] # None
    BY <1>9, <2>1 DEF Release, Writer
  <2>b. \A h \in Gates : gate[h] = t => h = g
    BY <1>0 DEF Holders
  <2>c. Writer'[g] = None
    BY <1>0, <1>9, <2>1 DEF Release, Writer, TypeOK
  <2>d. \A h \in Gates \ {g} : Writer'[h] = Writer[h]
    BY <1>0, <1>9, <2>b DEF Release, Writer, TypeOK
  <2>2. Writer[g] # None /\ Writer' = [Writer EXCEPT ![g] = None]
    BY <2>1, <2>a, <2>c, <2>d DEF Writer
  <2>3. CASE result[t].effect = "unknown"
    <3>1. uncertain
      BY <1>0, <1>9, <2>3 DEF Release, Doubt
    <3>2. doubtful' = [doubtful EXCEPT ![g] = TRUE]
      BY <1>0, <1>9, <2>1, <2>3 DEF Release, TypeOK
    <3>3. Quarantine!LeaveDoubtful(g)
      BY <1>9, <2>2, <3>1, <3>2 DEF Release, Quarantine!LeaveDoubtful
    <3> QED
      BY <2>1, <3>3 DEF Abstract, Quarantine!Next
  <2>4. CASE result[t].effect # "unknown"
    <3>1. doubtful' = doubtful
      BY <1>0, <1>9, <2>1, <2>4 DEF Release, TypeOK
    <3>2. Quarantine!LeaveClean(g)
      BY <1>9, <2>2, <3>1 DEF Release, Quarantine!LeaveClean
    <3> QED
      BY <2>1, <3>2 DEF Abstract, Quarantine!Next
  <2> QED
    BY <2>3, <2>4
<1>10. ASSUME NEW t \in Threads, Send(t) \/ Die(t) PROVE Abstract
  <2>1. Writer' = Writer
    BY <1>0, <1>10 DEF Send, Die, Leave, Writer, Holders, Holding, TypeOK
  <2> QED
    BY <1>10, <1>q, <2>1 DEF Send, Die, Leave
<1>11. Abstract
  BY <1>1, <1>2, <1>3, <1>4, <1>5, <1>6, <1>7, <1>8, <1>9, <1>10, NextCases DEF ThreadStep
<1> QED
  BY <1>11 DEF Abstract

\* The gates, with their polling, tokens, panics and abandoned receivers,
\* implement the quarantine they promise.
THEOREM Refinement == Spec => ImplementsQuarantine
BY InvInit, InvNext, RefineInit, RefineNext, Invariance, PTL
   DEF Spec, ImplementsQuarantine, Quarantine!Spec

-----------------------------------------------------------------------------
(* What a run expects and what it is told.                                 *)

\* A run expects a thread only inside a call, and that thread runs its call;
\* a result that waits ends the expectation.
Expected ==
  \A r \in Runs :
    /\ thread[r] # None => /\ stage[r] \in {"await", "settle"}
                           /\ kind[thread[r]] = call[r]
                           /\ pc[thread[r]] # "free"
                           /\ mail[r] = Empty
    /\ mail[r] # Empty => stage[r] \in {"await", "settle"}

\* A writing thread is expected by a run, or the process is quarantined.
Orphans ==
  \A t \in Threads :
    kind[t] # "read" /\ pc[t] # "free" => uncertain \/ \E r \in Runs : thread[r] = t

\* An outcome that claims to know what happened is right.
Plain(x) ==
  /\ x.outcome = "ok" => x.effect = "done"
  /\ x.outcome \in {"error", "cancelled", "timeout"} => x.effect = "none"

Told ==
  /\ \A t \in Threads :
       kind[t] # "read" /\ pc[t] \in {"publish", "release", "send"} => Plain(result[t])
  /\ \A r \in Runs : call[r] # "read" => Plain(mail[r])

AInv == TypeOK /\ Expected /\ Orphans /\ Told /\ TruthfulReport

LEMMA ExpectedNext == TypeOK /\ Expected /\ [Next]_vars => Expected'
<1> SUFFICES ASSUME TypeOK, Expected, [Next]_vars PROVE Expected'
  OBVIOUS
<1> USE NoneAssumption DEF TypeOK, Expected
<1>1. ASSUME NEW r \in Runs, BeginRun(r) PROVE Expected'
  BY <1>1 DEF BeginRun, threadVars
<1>2. ASSUME NEW r \in Runs, EndRun(r) PROVE Expected'
  BY <1>2 DEF EndRun, threadVars
<1>3. ASSUME NEW r \in Runs, Cancel(r) PROVE Expected'
  BY <1>3 DEF Cancel
<1>4. ASSUME NEW r \in Runs, NEW k \in Calls[r], Refuse(r, k) PROVE Expected'
  BY <1>4 DEF Refuse, NotStarted, Record, Receipt, threadVars
<1>5. ASSUME NEW r \in Runs, NEW k \in Calls[r], NEW t \in Threads, Spawn(r, k, t) PROVE Expected'
  BY <1>5 DEF Spawn
<1>6. ASSUME NEW r \in Runs, Receive(r) PROVE Expected'
  BY <1>6 DEF Receive, Return, Record, Recorded, Receipt, threadVars
<1>7. ASSUME NEW r \in Runs, NEW why \in {"cancelled", "timeout"}, Stop(r, why) PROVE Expected'
  BY <1>7 DEF Stop, Return
<1>8. ASSUME NEW r \in Runs, GiveUp(r) PROVE Expected'
  BY <1>8 DEF GiveUp, Return, Receipt, threadVars
<1>9. ASSUME NEW t \in Threads, Poll(t) PROVE Expected'
  BY <1>9 DEF Poll, Finish, Receipt, runVars
<1>10. ASSUME NEW t \in Threads, TryLock(t) PROVE Expected'
  BY <1>10 DEF TryLock, Finish, Receipt, runVars
<1>11. ASSUME NEW t \in Threads, Recheck(t) PROVE Expected'
  BY <1>11 DEF Recheck, Finish, Receipt, runVars
<1>12. ASSUME NEW t \in Threads, Write(t) PROVE Expected'
  BY <1>12 DEF Write, Receipt, runVars
<1>13. ASSUME NEW t \in Threads, Read(t) PROVE Expected'
  BY <1>13 DEF Read, Finish, runVars
<1>14. ASSUME NEW t \in Threads, Publish(t) PROVE Expected'
  BY <1>14 DEF Publish, runVars
<1>15. ASSUME NEW t \in Threads, Release(t) PROVE Expected'
  BY <1>15 DEF Release, runVars
<1>16. ASSUME NEW t \in Threads, Send(t) \/ Die(t) PROVE Expected'
  BY <1>16 DEF Send, Die, Leave, Receipt
<1>17. CASE UNCHANGED vars
  BY <1>17 DEF vars
<1> QED
  BY <1>1, <1>2, <1>3, <1>4, <1>5, <1>6, <1>7, <1>8, <1>9, <1>10, <1>11, <1>12, <1>13, <1>14, <1>15, <1>16, <1>17
     DEF Next, AwaitStep, ThreadStep

LEMMA OrphansNext == TypeOK /\ Expected /\ Orphans /\ [Next]_vars => Orphans'
<1> SUFFICES ASSUME TypeOK, Expected, Orphans, [Next]_vars PROVE Orphans'
  OBVIOUS
<1> USE NoneAssumption DEF TypeOK, Expected, Orphans
<1>1. ASSUME NEW r \in Runs, BeginRun(r) PROVE Orphans'
  BY <1>1 DEF BeginRun, threadVars
<1>2. ASSUME NEW r \in Runs, EndRun(r) PROVE Orphans'
  BY <1>2 DEF EndRun, threadVars
<1>3. ASSUME NEW r \in Runs, Cancel(r) PROVE Orphans'
  BY <1>3 DEF Cancel
<1>4. ASSUME NEW r \in Runs, NEW k \in Calls[r], Refuse(r, k) PROVE Orphans'
  BY <1>4 DEF Refuse, NotStarted, Record, Receipt, threadVars
<1>5. ASSUME NEW r \in Runs, NEW k \in Calls[r], NEW t \in Threads, Spawn(r, k, t) PROVE Orphans'
  BY <1>5 DEF Spawn
<1>6. ASSUME NEW r \in Runs, Receive(r) PROVE Orphans'
  BY <1>6 DEF Receive, Return, Record, Recorded, Receipt, threadVars
<1>7. ASSUME NEW r \in Runs, NEW why \in {"cancelled", "timeout"}, Stop(r, why) PROVE Orphans'
  BY <1>7 DEF Stop, Return
<1>8. ASSUME NEW r \in Runs, GiveUp(r) PROVE Orphans'
  BY <1>8 DEF GiveUp, Return, Receipt, threadVars
<1>9. ASSUME NEW t \in Threads, Poll(t) PROVE Orphans'
  BY <1>9 DEF Poll, Finish, Receipt, runVars
<1>10. ASSUME NEW t \in Threads, TryLock(t) PROVE Orphans'
  BY <1>10 DEF TryLock, Finish, Receipt, runVars
<1>11. ASSUME NEW t \in Threads, Recheck(t) PROVE Orphans'
  BY <1>11 DEF Recheck, Finish, Receipt, runVars
<1>12. ASSUME NEW t \in Threads, Write(t) PROVE Orphans'
  BY <1>12 DEF Write, Receipt, runVars
<1>13. ASSUME NEW t \in Threads, Read(t) PROVE Orphans'
  BY <1>13 DEF Read, Finish, runVars
<1>14. ASSUME NEW t \in Threads, Publish(t) PROVE Orphans'
  BY <1>14 DEF Publish, runVars
<1>15. ASSUME NEW t \in Threads, Release(t) PROVE Orphans'
  BY <1>15 DEF Release, runVars
<1>16. ASSUME NEW t \in Threads, Send(t) \/ Die(t) PROVE Orphans'
  BY <1>16 DEF Send, Die, Leave, Receipt
<1>17. CASE UNCHANGED vars
  BY <1>17 DEF vars
<1> QED
  BY <1>1, <1>2, <1>3, <1>4, <1>5, <1>6, <1>7, <1>8, <1>9, <1>10, <1>11, <1>12, <1>13, <1>14, <1>15, <1>16, <1>17
     DEF Next, AwaitStep, ThreadStep

LEMMA ToldNext == TypeOK /\ Expected /\ Told /\ [Next]_vars => Told'
<1> SUFFICES ASSUME TypeOK, Expected, Told, [Next]_vars PROVE Told'
  OBVIOUS
<1> USE NoneAssumption DEF TypeOK, Expected, Told, Plain
<1>1. ASSUME NEW r \in Runs, BeginRun(r) PROVE Told'
  BY <1>1 DEF BeginRun, threadVars
<1>2. ASSUME NEW r \in Runs, EndRun(r) PROVE Told'
  BY <1>2 DEF EndRun, threadVars
<1>3. ASSUME NEW r \in Runs, Cancel(r) PROVE Told'
  BY <1>3 DEF Cancel
<1>4. ASSUME NEW r \in Runs, NEW k \in Calls[r], Refuse(r, k) PROVE Told'
  BY <1>4 DEF Refuse, NotStarted, Record, Receipt, threadVars
<1>5. ASSUME NEW r \in Runs, NEW k \in Calls[r], NEW t \in Threads, Spawn(r, k, t) PROVE Told'
  <2>1. mail[r] = Empty /\ Plain(Empty)
    BY <1>5 DEF Spawn, Empty
  <2> QED
    BY <1>5, <2>1 DEF Spawn
<1>6. ASSUME NEW r \in Runs, Receive(r) PROVE Told'
  BY <1>6 DEF Receive, Return, Record, Recorded, Receipt, threadVars
<1>7. ASSUME NEW r \in Runs, NEW why \in {"cancelled", "timeout"}, Stop(r, why) PROVE Told'
  BY <1>7 DEF Stop, Return
<1>8. ASSUME NEW r \in Runs, GiveUp(r) PROVE Told'
  BY <1>8 DEF GiveUp, Return, Receipt, threadVars
<1>9. ASSUME NEW t \in Threads, Poll(t) PROVE Told'
  BY <1>9 DEF Poll, Finish, Receipt, runVars
<1>10. ASSUME NEW t \in Threads, TryLock(t) PROVE Told'
  BY <1>10 DEF TryLock, Finish, Receipt, runVars
<1>11. ASSUME NEW t \in Threads, Recheck(t) PROVE Told'
  BY <1>11 DEF Recheck, Finish, Receipt, runVars
<1>12. ASSUME NEW t \in Threads, Write(t) PROVE Told'
  BY <1>12 DEF Write, Receipt, runVars
<1>13. ASSUME NEW t \in Threads, Read(t) PROVE Told'
  BY <1>13 DEF Read, Finish, runVars
<1>14. ASSUME NEW t \in Threads, Publish(t) PROVE Told'
  BY <1>14 DEF Publish, runVars
<1>15. ASSUME NEW t \in Threads, Release(t) PROVE Told'
  BY <1>15 DEF Release, runVars
<1>16. ASSUME NEW t \in Threads, Send(t) \/ Die(t) PROVE Told'
  BY <1>16 DEF Send, Die, Leave, Receipt
<1>17. CASE UNCHANGED vars
  BY <1>17 DEF vars
<1> QED
  BY <1>1, <1>2, <1>3, <1>4, <1>5, <1>6, <1>7, <1>8, <1>9, <1>10, <1>11, <1>12, <1>13, <1>14, <1>15, <1>16, <1>17
     DEF Next, AwaitStep, ThreadStep

LEMMA ReportNext == TypeOK /\ Told /\ TruthfulReport /\ [Next]_vars => TruthfulReport'
<1> SUFFICES ASSUME TypeOK, Told, TruthfulReport, [Next]_vars PROVE TruthfulReport'
  OBVIOUS
<1> USE NoneAssumption DEF TypeOK, Told, Plain, TruthfulReport
<1>1. ASSUME NEW r \in Runs, BeginRun(r) PROVE TruthfulReport'
  BY <1>1 DEF BeginRun, threadVars
<1>2. ASSUME NEW r \in Runs, EndRun(r) PROVE TruthfulReport'
  BY <1>2 DEF EndRun, Empty, threadVars
<1>3. ASSUME NEW r \in Runs, Cancel(r) PROVE TruthfulReport'
  BY <1>3 DEF Cancel
<1>4. ASSUME NEW r \in Runs, NEW k \in Calls[r], Refuse(r, k) PROVE TruthfulReport'
  <2>1. PICK o \in {"unresolved", "cancelled", "timeout", "error"} :
          NotStarted(r, k, o) /\ (o = "unresolved" => uncertain)
    BY <1>4 DEF Refuse
  <2>2. report'[r] = Empty \/ report'[r] = Receipt(o, "none")
    BY <2>1 DEF NotStarted, Record
  <2>3. \A q \in Runs \ {r} : report'[q] = report[q]
    BY <2>1 DEF NotStarted, Record
  <2>4. uncertain' = uncertain
    BY <2>1 DEF NotStarted
  <2> QED
    BY <2>1, <2>2, <2>3, <2>4 DEF Receipt, Empty
<1>5. ASSUME NEW r \in Runs, NEW k \in Calls[r], NEW t \in Threads, Spawn(r, k, t) PROVE TruthfulReport'
  BY <1>5 DEF Spawn, Empty
<1>6. ASSUME NEW r \in Runs, Receive(r) PROVE TruthfulReport'
  <2>1. uncertain => uncertain'
    BY <1>6, Zenon DEF Receive
  <2>2. \A q \in Runs \ {r} : report'[q] = report[q]
    BY <1>6 DEF Receive, Record
  <2>3. CASE call[r] = "read"
    <3>1. report'[r] = Empty
      BY <1>6, <2>3 DEF Receive, Record
    <3> QED
      BY <2>1, <2>2, <3>1 DEF Empty
  <2>4. CASE call[r] # "read"
    <3>1. report'[r] = Recorded(r)
      BY <1>6, <2>4 DEF Receive, Record
    <3>2. mail[r].outcome \in UncertainErrors \union {"lost"} => uncertain'
      BY <1>6, <2>4, Zenon DEF Receive
    <3>3. mail[r].outcome \in Outcomes \union {"none"}
      BY DEF Receipts
    <3>4. CASE Recorded(r) = mail[r]
      BY <2>1, <2>2, <2>4, <3>1, <3>2, <3>3, <3>4 DEF UncertainErrors, Outcomes
    <3>5. CASE Recorded(r) = Receipt(stopped[r], mail[r].effect) /\ mail[r].outcome = "cancelled"
      <4>1. Recorded(r).outcome = stopped[r] /\ Recorded(r).effect = "none"
        BY <2>4, <3>5 DEF Receipt
      <4> QED
        BY <2>1, <2>2, <3>1, <4>1
    <3> QED
      BY <3>4, <3>5 DEF Recorded
  <2> QED
    BY <2>3, <2>4
<1>7. ASSUME NEW r \in Runs, NEW why \in {"cancelled", "timeout"}, Stop(r, why) PROVE TruthfulReport'
  BY <1>7 DEF Stop, Return
<1>8. ASSUME NEW r \in Runs, GiveUp(r) PROVE TruthfulReport'
  BY <1>8 DEF GiveUp, Return, Receipt, threadVars
<1>9. ASSUME NEW t \in Threads, Poll(t) PROVE TruthfulReport'
  BY <1>9 DEF Poll, Finish, Receipt, runVars
<1>10. ASSUME NEW t \in Threads, TryLock(t) PROVE TruthfulReport'
  BY <1>10 DEF TryLock, Finish, Receipt, runVars
<1>11. ASSUME NEW t \in Threads, Recheck(t) PROVE TruthfulReport'
  BY <1>11 DEF Recheck, Finish, Receipt, runVars
<1>12. ASSUME NEW t \in Threads, Write(t) PROVE TruthfulReport'
  BY <1>12 DEF Write, Receipt, runVars
<1>13. ASSUME NEW t \in Threads, Read(t) PROVE TruthfulReport'
  BY <1>13 DEF Read, Finish, runVars
<1>14. ASSUME NEW t \in Threads, Publish(t) PROVE TruthfulReport'
  BY <1>14 DEF Publish, runVars
<1>15. ASSUME NEW t \in Threads, Release(t) PROVE TruthfulReport'
  BY <1>15 DEF Release, runVars
<1>16. ASSUME NEW t \in Threads, Send(t) \/ Die(t) PROVE TruthfulReport'
  BY <1>16 DEF Send, Die, Leave, Receipt
<1>17. CASE UNCHANGED vars
  BY <1>17 DEF vars
<1> QED
  BY <1>1, <1>2, <1>3, <1>4, <1>5, <1>6, <1>7, <1>8, <1>9, <1>10, <1>11, <1>12, <1>13, <1>14, <1>15, <1>16, <1>17
     DEF Next, AwaitStep, ThreadStep

LEMMA AccountInit == Init => AInv
<1> SUFFICES ASSUME Init PROVE AInv
  OBVIOUS
<1>1. Expected /\ Orphans
  BY NoneAssumption DEF Init, Expected, Orphans
<1>2. Told /\ TruthfulReport
  BY DEF Init, Told, Plain, TruthfulReport, Empty
<1> QED
  BY <1>1, <1>2, TypeInit DEF AInv

LEMMA AccountNext == AInv /\ [Next]_vars => AInv'
BY TypeNext, ExpectedNext, OrphansNext, ToldNext, ReportNext DEF AInv

LEMMA Account == Spec => []AInv
BY AccountInit, AccountNext, PTL DEF Spec

\* No run walks away from a write that still goes on without quarantining the
\* process, whatever its token, deadline and settle wait do.
THEOREM NoSilentOrphan == Spec => []OrphanWriterQuarantined
<1>1. AInv => OrphanWriterQuarantined
  BY DEF AInv, TypeOK, Orphans, OrphanWriterQuarantined, Writing
<1> QED
  BY Account, <1>1, PTL

\* A recorded outcome is what happened, or the process is quarantined.
THEOREM ReportsAreTruthful == Spec => []TruthfulReport
<1>1. AInv => TruthfulReport
  BY DEF AInv
<1> QED
  BY Account, <1>1, PTL
=============================================================================

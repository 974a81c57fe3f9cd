-------------------------- MODULE WriteQuarantine --------------------------
(***************************************************************************)
(* What the write gates of src/tools/writes.rs promise, without the        *)
(* threads, the polling, the cancellation tokens and the receivers that    *)
(* WriteGate models: each gate admits one writer at a time, nobody starts  *)
(* to write once the process is quarantined, and a writer that leaves a    *)
(* gate with an outcome nobody can vouch for leaves the process            *)
(* quarantined.                                                            *)
(***************************************************************************)
CONSTANTS Gates, Threads, None

VARIABLES
  writer,       \* the thread changing files (or the database) behind each gate
  quarantined,  \* external writes are refused until the process restarts
  doubtful      \* a writer left this gate with an unknown outcome

vars == <<writer, quarantined, doubtful>>

Init ==
  /\ writer = [g \in Gates |-> None]
  /\ quarantined = FALSE
  /\ doubtful = [g \in Gates |-> FALSE]

Enter(g, t) ==
  /\ writer[g] = None
  /\ ~quarantined
  /\ writer' = [writer EXCEPT ![g] = t]
  /\ UNCHANGED <<quarantined, doubtful>>

LeaveClean(g) ==
  /\ writer[g] # None
  /\ writer' = [writer EXCEPT ![g] = None]
  /\ UNCHANGED <<quarantined, doubtful>>

LeaveDoubtful(g) ==
  /\ writer[g] # None
  /\ quarantined
  /\ writer' = [writer EXCEPT ![g] = None]
  /\ doubtful' = [doubtful EXCEPT ![g] = TRUE]
  /\ UNCHANGED quarantined

Quarantine ==
  /\ quarantined' = TRUE
  /\ UNCHANGED <<writer, doubtful>>

Next ==
  \/ \E g \in Gates, t \in Threads : Enter(g, t)
  \/ \E g \in Gates : LeaveClean(g) \/ LeaveDoubtful(g)
  \/ Quarantine

Spec == Init /\ [][Next]_vars
=============================================================================

---------------------------- MODULE ActivityMark ----------------------------
(***************************************************************************)
(* The mark of latest work (src/web/automation.rs, mark_activity): every   *)
(* process sharing the settings keeps the modification time of the lease   *)
(* file at the latest run start, run end or heartbeat, so that none of     *)
(* them starts an automatic run beside another one's work.  In a process   *)
(* one detached thread at a time moves the mark; the times asked for while *)
(* it works are folded into an atomic maximum it looks at again.           *)
(***************************************************************************)
EXTENDS Naturals

CONSTANTS
  Windows,  \* processes sharing the settings
  LastTime  \* bound: the times of the work to mark are 1 .. LastTime

Marks == Windows \X (1 .. LastTime)
Window(m) == m[1]
Time(m) == m[2]

VARIABLES
  at,       \* where each call of mark_activity stands
  wanted,   \* each process's latest time asked for
  marking,  \* each process's Busy flag
  th,       \* where the thread started for a call stands
  target,   \* the time that thread read last
  failed,   \* history: a thread could not start, or the file not be opened
  mtime     \* the lease file's modification time; 0 when it was made

vars == <<at, wanted, marking, th, target, failed, mtime>>

Init ==
  /\ at = [m \in Marks |-> "due"]
  /\ wanted = [w \in Windows |-> 0]
  /\ marking = [w \in Windows |-> FALSE]
  /\ th = [m \in Marks |-> "none"]
  /\ target = [m \in Marks |-> 0]
  /\ failed = [w \in Windows |-> FALSE]
  /\ mtime = 0

Latest(s, t) == IF s < t THEN t ELSE s

\* fetch_max.
Want(m) ==
  /\ at[m] = "due"
  /\ at' = [at EXCEPT ![m] = "wanted"]
  /\ wanted' = [wanted EXCEPT ![Window(m)] = Latest(@, Time(m))]
  /\ UNCHANGED <<marking, th, target, failed, mtime>>

\* A thread already writing a mark applies this one after it.
Follow(m) ==
  /\ at[m] = "wanted"
  /\ marking[Window(m)]
  /\ at' = [at EXCEPT ![m] = "returned"]
  /\ UNCHANGED <<wanted, marking, th, target, failed, mtime>>

\* Busy::begin and the thread; without one the flag is dropped with the work.
Start(m) ==
  /\ at[m] = "wanted"
  /\ ~marking[Window(m)]
  /\ marking' = [marking EXCEPT ![Window(m)] = TRUE]
  /\ at' = [at EXCEPT ![m] = "begun"]
  /\ UNCHANGED <<wanted, th, target, failed, mtime>>

Spawn(m) ==
  /\ at[m] = "begun"
  /\ at' = [at EXCEPT ![m] = "returned"]
  /\ \/ /\ th' = [th EXCEPT ![m] = "load"]
        /\ UNCHANGED <<marking, failed>>
     \/ /\ marking' = [marking EXCEPT ![Window(m)] = FALSE]
        /\ failed' = [failed EXCEPT ![Window(m)] = TRUE]
        /\ UNCHANGED th
  /\ UNCHANGED <<wanted, target, mtime>>

Load(m) ==
  /\ th[m] = "load"
  /\ th' = [th EXCEPT ![m] = "check"]
  /\ target' = [target EXCEPT ![m] = wanted[Window(m)]]
  /\ failed' = [failed EXCEPT ![Window(m)] = FALSE]
  /\ UNCHANGED <<at, wanted, marking, mtime>>

\* activity(): the file is older than the target, or nothing is to be done.
Check(m) ==
  /\ th[m] = "check"
  /\ th' = [th EXCEPT ![m] = IF mtime < target[m] THEN "set" ELSE "release"]
  /\ UNCHANGED <<at, wanted, marking, target, failed, mtime>>

SetModified(m) ==
  /\ th[m] = "set"
  /\ th' = [th EXCEPT ![m] = "release"]
  /\ \/ mtime' = target[m] /\ UNCHANGED failed
     \/ failed' = [failed EXCEPT ![Window(m)] = TRUE] /\ UNCHANGED mtime
  /\ UNCHANGED <<at, wanted, marking, target>>

\* Mutant: the thread ends without looking for later marks.
ReleaseAndEnd(m) ==
  /\ th[m] = "release"
  /\ th' = [th EXCEPT ![m] = "ended"]
  /\ marking' = [marking EXCEPT ![Window(m)] = FALSE]
  /\ UNCHANGED <<at, wanted, target, failed, mtime>>

Release(m) ==
  /\ th[m] = "release"
  /\ th' = [th EXCEPT ![m] = "look"]
  /\ marking' = [marking EXCEPT ![Window(m)] = FALSE]
  /\ UNCHANGED <<at, wanted, target, failed, mtime>>

\* A mark asked for while this one was written follows it ...
Look(m) ==
  /\ th[m] = "look"
  /\ th' = [th EXCEPT ![m] = IF wanted[Window(m)] <= target[m] THEN "ended" ELSE "again"]
  /\ UNCHANGED <<at, wanted, marking, target, failed, mtime>>

\* ... unless another thread has taken over.
Again(m) ==
  /\ th[m] = "again"
  /\ th' = [th EXCEPT ![m] = IF marking[Window(m)] THEN "ended" ELSE "load"]
  /\ marking' = [marking EXCEPT ![Window(m)] = TRUE]
  /\ UNCHANGED <<at, wanted, target, failed, mtime>>

Next ==
  \E m \in Marks :
    \/ Want(m) \/ Follow(m) \/ Start(m) \/ Spawn(m)
    \/ Load(m) \/ Check(m) \/ SetModified(m) \/ Release(m) \/ Look(m) \/ Again(m)

Spec == Init /\ [][Next]_vars

-----------------------------------------------------------------------------
(* Properties.                                                             *)

TypeOK ==
  /\ at \in [Marks -> {"due", "wanted", "begun", "returned"}]
  /\ wanted \in [Windows -> 0 .. LastTime]
  /\ marking \in [Windows -> BOOLEAN]
  /\ th \in [Marks -> {"none", "load", "check", "set", "release", "look", "again", "ended"}]
  /\ target \in [Marks -> 0 .. LastTime]
  /\ failed \in [Windows -> BOOLEAN]
  /\ mtime \in 0 .. LastTime

\* Once a process is done marking, the file shows its latest work, however its
\* calls and its threads interleaved, unless the system refused the last try.
NoMarkLost ==
  \A w \in Windows :
    /\ \A m \in Marks : Window(m) = w => /\ at[m] \in {"due", "returned"}
                                         /\ th[m] \in {"none", "ended"}
    /\ ~failed[w]
    => mtime >= wanted[w]

\* "It never moves back" (src/web/automation.rs, mark_activity).
NeverMovesBack == [][mtime' >= mtime]_vars
=============================================================================

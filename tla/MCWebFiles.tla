---------------------------- MODULE MCWebFiles -----------------------------
(***************************************************************************)
(* The file work of the web side: the scheduler's record and mark          *)
(* (SchedulePersist, ActivityMark), the workers (FileIo) and the digests   *)
(* their reads share (FileChecks).  The parts share no state, so a         *)
(* behaviour runs one of them while the others have not been asked         *)
(* anything, or have all their work done.                                  *)
(***************************************************************************)
EXTENDS SchedulePersist, Naturals, Sequences

CONSTANTS Queued, Direct, Downloads, Workers, Size,
          Readers, Paths, Capacity, Tries, Changes, Nobody,
          Windows, LastTime

ASSUME KindsAssumption ==
  Queued \cap Direct = {} /\ Downloads \cap (Queued \union Direct) = {}

ASSUME IoAssumption == Workers \in Nat /\ Size \in Nat

ASSUME ChecksAssumption ==
  /\ Capacity \in Nat \ {0} /\ Tries \in Nat /\ Changes \in Nat
  /\ Nobody \notin Readers \X (1 .. Tries)

ASSUME MarkAssumption == LastTime \in Nat

VARIABLES
  part,
  req, answer, ioTh, mail, permits, chunk, read, got, stopping,
  file, cached, recent, check, evicted, pc, path, version, digest, mine, round, stopped, since,
  markAt, wanted, marking, markTh, target, failed, mtime

Io == INSTANCE FileIo WITH th <- ioTh
Checks == INSTANCE FileChecks
Mark == INSTANCE ActivityMark WITH at <- markAt, th <- markTh

ioVars == <<req, answer, ioTh, mail, permits, chunk, read, got, stopping>>
checksVars == <<file, cached, recent, check, evicted, pc, path, version, digest, mine, round,
                stopped, since>>
markVars == <<markAt, wanted, marking, markTh, target, failed, mtime>>

RecordDone ==
  /\ at = [r \in Requests |-> "returned"]
  /\ waiting = {} /\ persisting = FALSE
  /\ th = [t \in Requests |-> "ended"]
  /\ batch = [t \in Requests |-> {}] /\ text = [t \in Requests |-> {}]
  /\ mem = Requests /\ disk = Requests
  /\ told = [r \in Requests |-> "written"]
  /\ exit = "down"

\* One reader's path is fixed: paths differ in nothing but their names.
MCInit ==
  /\ part \in {"record", "io", "checks", "mark"}
  /\ IF part = "record" THEN Init ELSE RecordDone
  /\ Io!Init /\ Checks!Init /\ Mark!Init
  /\ path[CHOOSE r \in Readers : TRUE] = CHOOSE p \in Paths : TRUE
  /\ part # "checks" => path = [r \in Readers |-> CHOOSE p \in Paths : TRUE]

MCNext ==
  \/ part = "record" /\ Next /\ UNCHANGED <<part, ioVars, checksVars, markVars>>
  \/ part = "io" /\ Io!Next /\ UNCHANGED <<part, vars, checksVars, markVars>>
  \/ part = "checks" /\ Checks!Next /\ UNCHANGED <<part, vars, ioVars, markVars>>
  \/ part = "mark" /\ Mark!Next /\ UNCHANGED <<part, vars, ioVars, checksVars>>

\* Nothing that fairness speaks of is enabled in a part that was not asked.
MCSpec ==
  /\ MCInit /\ [][MCNext]_<<part, vars, ioVars, checksVars, markVars>>
  /\ Fairness /\ Io!Fairness /\ Checks!Fairness

-----------------------------------------------------------------------------
\* The type invariants of the parts.
TypesOK == TypeOK /\ Io!TypeOK /\ Checks!TypeOK /\ Mark!TypeOK

\* FileIo: a thread counts until it ends, also once nobody waits for it.
LiveThreadsCounted == Io!LiveThreadsCounted

\* FileIo: a part of a file is never taken for the file.
CompleteDownload == Io!CompleteDownload

\* FileChecks: a digest returned is that of one content the file had during
\* the call, and readers of one version make it once.
DigestsShared == Checks!DigestOfTheCall /\ Checks!SharedOnce

\* ActivityMark: once a process is done marking, the lease file shows its
\* latest work.
NoMarkLost == Mark!NoMarkLost

\* What waits ends: shutdown, even beside a hung write of the record
\* (SchedulePersist), a download's thread (FileIo), and a reader whose digest
\* another one makes unless that one hangs (FileChecks).
WaitsEnd == ShutdownEnds /\ Io!DownloadThreadEnds /\ Checks!WaiterEnds
=============================================================================

---------------------------- MODULE WebFilesProofs ----------------------------
(***************************************************************************)
(* Proofs about the file work of the web side for any requests, readers,   *)
(* paths, run ends and limits, each part with an inductive invariant.      *)
(*                                                                         *)
(* FileIo: the permits out are those of the live threads (Counted), and    *)
(* what a download's worker read is received, in the channel or in its     *)
(* hands (Streamed).                                                       *)
(*                                                                         *)
(* ActivityMark, for one process: the flag has one leader (Led), which     *)
(* moves the mark forward to a time asked for (Aimed), and while the mark  *)
(* is older than the latest such time somebody has yet to look (Pursued).  *)
(*                                                                         *)
(* FileChecks: a check is made once (Rounds), is in the cache under its    *)
(* own path (Held, with the cache's keys in Keyed), and its owner keeps it *)
(* there or knows it evicted (Owned).  A digest is of one content because  *)
(* contents only grow between the first look and the second (Seen), so a   *)
(* ready check's digest is its version (Ready), which its waiters share    *)
(* (Joined).                                                               *)
(*                                                                         *)
(* SchedulePersist: at most one caller or thread has taken the flag        *)
(* (OneHolder), so nobody renames an older record over the text a writer   *)
(* carries (Carried); every caller that pushed waits, is in the batch of   *)
(* the flag's holder, or was told (Followed).                              *)
(***************************************************************************)
EXTENDS MCWebFiles, FiniteSetTheorems, TLAPS

-----------------------------------------------------------------------------
(* The file workers (FileIo).                                              *)

LiveThreads == {r \in Io!Requests : ioTh[r] \in Io!Live}

\* The permits out are those of the live threads.
Counted == IsFiniteSet(LiveThreads) /\ Cardinality(LiveThreads) = Workers - permits

\* A request has no thread before it starts one, and a thread at work sent nothing.
Placed ==
  \A r \in Io!Requests :
    /\ req[r] \in {"new", "queue"} => ioTh[r] = "none"
    /\ ioTh[r] \in {"none", "begin", "work", "room"} => mail[r] = "none"
    /\ req[r] # "over" => answer[r] = "none"

Received(d) == got[d] + (IF chunk[d] THEN 1 ELSE 0)

\* Every chunk read is received, in the channel or in the worker's hands; a worker
\* that sent the end of a file the client still awaits had sent all of it.
Streamed ==
  \A d \in Downloads :
    /\ Received(d) <= read[d]
    /\ ioTh[d] \in {"none", "begin", "work"} => read[d] = Received(d)
    /\ ioTh[d] = "room" => read[d] = Received(d) + 1
    /\ mail[d] = "ok" /\ req[d] # "over" => Received(d) = Size

IoInv == Io!TypeOK /\ Counted /\ Placed /\ Streamed /\ Io!CompleteDownload

LEMMA IoCardinality == \A S : Io!Cardinality(S) = Cardinality(S)
BY DEF Io!Cardinality, Cardinality

LEMMA ThreadStarts ==
  ASSUME IoInv, NEW r \in Io!Requests, ioTh[r] = "none", permits > 0,
         permits' = permits - 1, ioTh' = [ioTh EXCEPT ![r] = "begin"]
  PROVE  Counted' /\ permits' \in 0 .. Workers
<1>1. r \notin LiveThreads /\ LiveThreads' = LiveThreads \union {r}
  BY DEF IoInv, Io!TypeOK, LiveThreads, Io!Live
<1>2. permits \in 0 .. Workers
  BY DEF IoInv, Io!TypeOK
<1> QED
  BY <1>1, <1>2, FS_AddElement, IoAssumption DEF IoInv, Counted

LEMMA ThreadLeaves ==
  ASSUME IoInv, NEW r \in Io!Requests, ioTh[r] = "leave",
         permits' = permits + 1, ioTh' = [ioTh EXCEPT ![r] = "over"]
  PROVE  Counted' /\ permits' \in 0 .. Workers
<1>1. r \in LiveThreads /\ LiveThreads' = LiveThreads \ {r}
  BY DEF IoInv, Io!TypeOK, LiveThreads, Io!Live
<1>2. permits \in 0 .. Workers /\ Cardinality(LiveThreads) \in Nat
  BY FS_CardinalityType DEF IoInv, Io!TypeOK, Counted
<1>3. IsFiniteSet(LiveThreads') /\ Cardinality(LiveThreads') = Cardinality(LiveThreads) - 1
  BY <1>1, FS_RemoveElement DEF IoInv, Counted
<1>4. Cardinality(LiveThreads') \in Nat
  BY <1>3, FS_CardinalityType
<1> QED
  BY <1>2, <1>3, <1>4, IoAssumption DEF IoInv, Counted

LEMMA ThreadStays ==
  ASSUME IoInv, UNCHANGED permits,
         \A q \in Io!Requests : ioTh'[q] \in Io!Live <=> ioTh[q] \in Io!Live
  PROVE  Counted' /\ permits' \in 0 .. Workers
<1>1. LiveThreads' = LiveThreads
  BY DEF LiveThreads
<1> QED
  BY <1>1 DEF IoInv, Io!TypeOK, Counted

LEMMA IoInit == Io!Init => IoInv
<1> SUFFICES ASSUME Io!Init PROVE IoInv
  OBVIOUS
<1>1. LiveThreads = {}
  BY DEF Io!Init, LiveThreads, Io!Live
<1>2. Counted
  BY <1>1, FS_EmptySet, IoAssumption DEF Counted, Io!Init
<1>3. Io!TypeOK
  <2>1. permits \in 0 .. Workers /\ 0 \in 0 .. Size
    BY IoAssumption DEF Io!Init
  <2> QED
    BY <2>1 DEF Io!TypeOK, Io!Init, Io!Live
<1>4. Placed /\ Streamed /\ Io!CompleteDownload
  BY DEF Placed, Streamed, Received, Io!CompleteDownload, Io!Init, Io!Requests
<1> QED
  BY <1>2, <1>3, <1>4 DEF IoInv

LEMMA IoStart ==
  ASSUME IoInv, NEW r \in Io!Requests, req[r] \in {"new", "queue"}, Io!Start(r),
         UNCHANGED <<mail, chunk, read, got, stopping>>
  PROVE  IoInv'
<1>1. ioTh[r] = "none"
  BY DEF IoInv, Placed
<1>2. Counted' /\ permits' \in 0 .. Workers
  BY <1>1, ThreadStarts DEF Io!Start, Io!Go
<1>3. Io!TypeOK'
  BY <1>2 DEF IoInv, Io!TypeOK, Io!Start, Io!Go, Io!Live
<1>4. Placed' /\ Streamed' /\ Io!CompleteDownload'
  BY <1>1 DEF IoInv, Io!TypeOK, Placed, Streamed, Received, Io!CompleteDownload, Io!Start, Io!Go, Io!Requests
<1> QED
  BY <1>2, <1>3, <1>4 DEF IoInv

\* A request that is over, however it ends, leaves the thread as it is.
LEMMA IoEnd ==
  ASSUME IoInv, NEW r \in Io!Requests, NEW how, Io!End(r, how), 
         how \in {"ok", "error", "panic", "timeout", "stopping", "busy", "gone"},
         r \in Downloads /\ how = "ok" => got[r] = Size,
         UNCHANGED <<ioTh, mail, permits, chunk, read, got, stopping>>
  PROVE  IoInv'
<1>1. Counted' /\ permits' \in 0 .. Workers
  BY ThreadStays
<1>2. Io!TypeOK'
  BY <1>1 DEF IoInv, Io!TypeOK, Io!End
<1>3. Placed' /\ Streamed' /\ Io!CompleteDownload'
  BY DEF IoInv, Io!TypeOK, Placed, Streamed, Received, Io!CompleteDownload, Io!End, Io!Requests
<1> QED
  BY <1>1, <1>2, <1>3 DEF IoInv

LEMMA IoRequest ==
  ASSUME IoInv, NEW r \in Io!Requests, Io!Arrive(r) \/ Io!Waiting(r) \/ Io!Drop(r)
  PROVE  IoInv'
<1> USE DEF Io!streamVars
<1>1. CASE Io!Arrive(r)
  <2>1. CASE r \in Queued /\ req' = [req EXCEPT ![r] = "queue"] /\ UNCHANGED <<answer, ioTh, permits>>
    <3>1. Counted' /\ permits' \in 0 .. Workers
      BY <2>1, ThreadStays
    <3>2. Io!TypeOK'
      BY <1>1, <2>1, <3>1 DEF IoInv, Io!TypeOK, Io!Arrive
    <3>3. Placed' /\ Streamed' /\ Io!CompleteDownload'
      BY <1>1, <2>1 DEF IoInv, Io!TypeOK, Placed, Streamed, Received, Io!CompleteDownload, Io!Arrive, Io!Requests
    <3> QED
      BY <3>1, <3>2, <3>3 DEF IoInv
  <2>2. CASE Io!Start(r)
    BY <1>1, <2>2, IoStart DEF Io!Arrive
  <2>3. CASE UNCHANGED <<ioTh, permits>> /\ (Io!End(r, "stopping") \/ Io!End(r, "busy"))
    BY <1>1, <2>3, IoEnd DEF Io!Arrive
  <2> QED
    BY <1>1, <2>1, <2>2, <2>3 DEF Io!Arrive
<1>2. CASE Io!LeaveQueue(r)
  <2>1. CASE Io!Start(r)
    BY <1>2, <2>1, IoStart DEF Io!LeaveQueue
  <2>2. CASE ~ Io!Start(r)
    BY <1>2, <2>2, IoEnd DEF Io!LeaveQueue
  <2> QED
    BY <2>1, <2>2
<1>3. CASE Io!Finish(r)
  <2>1. mail[r] # "none" => Io!Answers[mail[r]] \in {"ok", "error", "panic"}
    BY DEF IoInv, Io!TypeOK, Io!Answers
  <2> QED
    BY <1>3, <2>1, IoEnd DEF Io!Finish
<1>4. CASE Io!Drop(r)
  BY <1>4, IoEnd DEF Io!Drop
<1> QED
  BY <1>1, <1>2, <1>3, <1>4 DEF Io!Waiting

LEMMA IoClient == ASSUME IoInv, NEW d \in Downloads, Io!Client(d) PROVE IoInv'
<1> USE DEF Io!streamVars
<1>0. d \in Io!Requests
  BY DEF Io!Requests
<1>1. CASE Io!Receive(d)
  <2>1. Counted' /\ permits' \in 0 .. Workers
    BY <1>1, ThreadStays DEF Io!Receive
  <2>2. got[d] + 1 = Received(d) /\ Received(d) <= read[d]
    BY <1>1 DEF IoInv, Io!TypeOK, Streamed, Received, Io!Receive
  <2>3. Io!TypeOK'
    BY <1>1, <2>1, <2>2, IoAssumption DEF IoInv, Io!TypeOK, Io!Receive
  <2>4. \A e \in Downloads : Received(e)' = Received(e)
    BY <1>1 DEF IoInv, Io!TypeOK, Received, Io!Receive
  <2>5. Placed' /\ Streamed'
    BY <1>1, <2>4 DEF IoInv, Placed, Streamed, Io!Receive
  <2>6. Io!CompleteDownload'
    BY <1>0, <1>1 DEF IoInv, Io!TypeOK, Placed, Io!CompleteDownload, Io!Receive
  <2> QED
    BY <2>1, <2>3, <2>5, <2>6 DEF IoInv
<1>2. CASE Io!EndDownload(d)
  <2>1. mail[d] # "none" => Io!Answers[mail[d]] \in {"ok", "error", "panic"}
    BY <1>0 DEF IoInv, Io!TypeOK, Io!Answers
  <2>2. mail[d] = "ok" /\ ~chunk[d] => got[d] = Size
    BY <1>2 DEF IoInv, Io!TypeOK, Streamed, Received, Io!EndDownload
  <2>3. mail[d] # "none" /\ Io!Answers[mail[d]] = "ok" => mail[d] = "ok"
    BY <1>0 DEF IoInv, Io!TypeOK, Io!Answers
  <2> QED
    BY <1>0, <1>2, <2>1, <2>2, <2>3, IoEnd DEF Io!EndDownload
<1> QED
  BY <1>1, <1>2 DEF Io!Client

LEMMA IoThread ==
  ASSUME IoInv, NEW r \in Io!Requests, Io!Thread(r) \/ Io!Hang(r)
  PROVE  IoInv'
<1> USE DEF Io!streamVars, Io!Go, Io!Send
<1>1. CASE Io!Leave(r)
  <2>1. Counted' /\ permits' \in 0 .. Workers
    BY <1>1, ThreadLeaves DEF Io!Leave
  <2>2. Io!TypeOK'
    BY <1>1, <2>1 DEF IoInv, Io!TypeOK, Io!Leave
  <2>3. Placed' /\ Streamed' /\ Io!CompleteDownload'
    BY <1>1 DEF IoInv, Io!TypeOK, Placed, Streamed, Received, Io!CompleteDownload, Io!Leave, Io!Requests
  <2> QED
    BY <2>1, <2>2, <2>3 DEF IoInv
<1>2. CASE Io!Begin(r) \/ Io!Work(r) \/ Io!Hang(r)
  <2>1. Counted' /\ permits' \in 0 .. Workers
    BY <1>2, ThreadStays DEF IoInv, Io!TypeOK, Io!Live, Io!Begin, Io!Work, Io!Hang
  <2>2. Io!TypeOK'
    BY <1>2, <2>1 DEF IoInv, Io!TypeOK, Io!Live, Io!Begin, Io!Work, Io!Hang
  <2>3. Placed'
    BY <1>2 DEF IoInv, Io!TypeOK, Placed, Io!Begin, Io!Work, Io!Hang
  <2>4. Streamed' /\ Io!CompleteDownload'
    BY <1>2 DEF IoInv, Io!TypeOK, Placed, Streamed, Received, Io!CompleteDownload, Io!Requests,
                Io!Begin, Io!Work, Io!Hang
  <2> QED
    BY <2>1, <2>2, <2>3, <2>4 DEF IoInv
<1> QED
  BY <1>1, <1>2 DEF Io!Thread

LEMMA IoDownload == ASSUME IoInv, NEW d \in Downloads, Io!Download(d) PROVE IoInv'
<1> USE DEF Io!streamVars, Io!Go, Io!Send
<1>1. d \in Io!Requests
  BY DEF Io!Requests
<1>2. Counted' /\ permits' \in 0 .. Workers
  BY <1>1, ThreadStays DEF IoInv, Io!TypeOK, Io!Live, Io!Download, Io!ReadChunk, Io!WaitForRoom
<1>3. Io!TypeOK'
  <2>1. /\ ioTh' \in [Io!Requests -> Io!Live \union {"none", "over"}]
        /\ mail' \in [Io!Requests -> {"none", "ok", "error", "lost"}]
    BY <1>1 DEF IoInv, Io!TypeOK, Io!Live, Io!Download, Io!ReadChunk, Io!WaitForRoom
  <2>2. chunk' \in [Downloads -> BOOLEAN] /\ read' \in [Downloads -> 0 .. Size]
    <3>1. CASE Io!ReadChunk(d)
      <4>1. read[d] \in 0 .. Size /\ (read[d] < Size => read[d] + 1 \in 0 .. Size)
        BY IoAssumption DEF IoInv, Io!TypeOK
      <4> QED
        BY <3>1, <4>1 DEF IoInv, Io!TypeOK, Io!ReadChunk
    <3>2. CASE Io!WaitForRoom(d)
      BY <3>2 DEF IoInv, Io!TypeOK, Io!WaitForRoom
    <3> QED
      BY <3>1, <3>2 DEF Io!Download
  <2>3. UNCHANGED <<req, answer, got, stopping>>
    BY DEF Io!Download, Io!ReadChunk, Io!WaitForRoom
  <2> QED
    BY <1>2, <2>1, <2>2, <2>3 DEF IoInv, Io!TypeOK
<1>4. Placed'
  <2>1. CASE Io!ReadChunk(d)
    BY <1>1, <2>1 DEF IoInv, Io!TypeOK, Placed, Io!ReadChunk
  <2>2. CASE Io!WaitForRoom(d)
    BY <1>1, <2>2 DEF IoInv, Io!TypeOK, Placed, Io!WaitForRoom
  <2> QED
    BY <2>1, <2>2 DEF Io!Download
<1>5. Streamed'
  <2>1. \A e \in Downloads : got[e] \in Nat /\ read[e] \in Nat /\ chunk[e] \in BOOLEAN
    BY IoAssumption DEF IoInv, Io!TypeOK
  <2>2. CASE Io!ReadChunk(d)
    <3>1. /\ mail[d] = "none" /\ read[d] = Received(d) /\ Received(d) \in Nat
          /\ \A e \in Downloads : Received(e)' = Received(e)
      BY <1>1, <2>1, <2>2 DEF IoInv, Placed, Streamed, Received, Io!ReadChunk
    <3>2. CASE Io!Send(d, "error") /\ UNCHANGED read
      BY <1>1, <2>2, <3>1, <3>2 DEF IoInv, Io!TypeOK, Streamed, Io!ReadChunk
    <3>3. CASE read[d] = Size /\ Io!Send(d, "ok") /\ UNCHANGED read
      BY <1>1, <2>2, <3>1, <3>3 DEF IoInv, Io!TypeOK, Streamed, Io!ReadChunk
    <3>4. CASE Io!Go(d, "room") /\ read' = [read EXCEPT ![d] = @ + 1] /\ UNCHANGED mail
      BY <1>1, <2>1, <2>2, <3>1, <3>4 DEF IoInv, Io!TypeOK, Streamed, Io!ReadChunk
    <3> QED
      BY <2>2, <3>2, <3>3, <3>4 DEF Io!ReadChunk
  <2>3. CASE Io!WaitForRoom(d)
    <3>1. /\ mail[d] = "none" /\ read[d] = Received(d) + 1 /\ Received(d) \in Nat
          /\ \A e \in Downloads : e # d => Received(e)' = Received(e)
      BY <1>1, <2>1, <2>3 DEF IoInv, Io!TypeOK, Placed, Streamed, Received, Io!WaitForRoom
    <3>2. CASE ~chunk[d] /\ Io!Go(d, "work") /\ chunk' = [chunk EXCEPT ![d] = TRUE] /\ UNCHANGED mail
      <4>1. Received(d)' = Received(d) + 1
        BY <2>1, <2>3, <3>2 DEF IoInv, Io!TypeOK, Received, Io!WaitForRoom
      <4> QED
        BY <1>1, <2>3, <3>1, <3>2, <4>1 DEF IoInv, Io!TypeOK, Streamed, Io!WaitForRoom
    <3>3. CASE (Io!Send(d, "error") \/ (req[d] = "over" /\ Io!Send(d, "ok"))) /\ UNCHANGED chunk
      <4>1. Received(d)' = Received(d)
        BY <2>3, <3>3 DEF Received, Io!WaitForRoom
      <4>2. /\ UNCHANGED <<read, req>> /\ ioTh'[d] = "leave"
            /\ mail'[d] = "ok" => req[d] = "over"
            /\ \A e \in Downloads : e # d => ioTh'[e] = ioTh[e] /\ mail'[e] = mail[e]
        BY <1>1, <2>3, <3>3 DEF IoInv, Io!TypeOK, Io!Requests, Io!WaitForRoom
      <4> QED
        BY <3>1, <4>1, <4>2 DEF IoInv, Streamed
    <3> QED
      BY <2>3, <3>2, <3>3 DEF Io!WaitForRoom
  <2> QED
    BY <2>2, <2>3 DEF Io!Download
<1>6. Io!CompleteDownload'
  BY DEF IoInv, Io!CompleteDownload, Io!Download, Io!ReadChunk, Io!WaitForRoom
<1> QED
  BY <1>2, <1>3, <1>4, <1>5, <1>6 DEF IoInv

LEMMA IoStays == IoInv /\ UNCHANGED ioVars => IoInv'
BY DEF IoInv, Io!TypeOK, Counted, LiveThreads, Placed, Streamed, Received, Io!CompleteDownload, ioVars

LEMMA IoNext == IoInv /\ Io!Next => IoInv'
<1> SUFFICES ASSUME IoInv, Io!Next PROVE IoInv'
  OBVIOUS
<1>1. CASE Io!Stop
  BY <1>1, ThreadStays
     DEF IoInv, Io!TypeOK, Placed, Streamed, Received, Io!CompleteDownload, Io!Stop, Io!streamVars
<1> QED
  BY <1>1, IoRequest, IoClient, IoThread, IoDownload DEF Io!Next

\* The pool never runs more threads than it has permits, and a download that ends
\* without an error has all of the file.
LEMMA IoHolds == IoInv => Io!LiveThreadsCounted /\ Io!CompleteDownload
BY IoCardinality DEF IoInv, Counted, LiveThreads, Io!LiveThreadsCounted

-----------------------------------------------------------------------------
(* The mark of latest work (ActivityMark), of a process that shares its    *)
(* settings with no other one.                                             *)

OneProcess == \A v, w \in Windows : v = w

\* The call or thread that has taken the process's flag.
Leads(m) == markAt[m] = "begun" \/ markTh[m] \in {"load", "check", "set", "release"}

Led ==
  /\ \A m \in Mark!Marks : markTh[m] # "none" => markAt[m] = "returned"
  /\ \A m \in Mark!Marks : Leads(m) => marking[Mark!Window(m)]
  /\ \A w \in Windows : marking[w] => \E m \in Mark!Marks : Mark!Window(m) = w /\ Leads(m)
  /\ \A m, n \in Mark!Marks :
       Leads(m) /\ Leads(n) /\ Mark!Window(m) = Mark!Window(n) => m = n

\* A thread moves the mark forward, to a time that was asked for, and has
\* moved it when it gives the flag back, unless the system refused.
Aimed ==
  \A m \in Mark!Marks :
    /\ target[m] <= wanted[Mark!Window(m)]
    /\ markTh[m] = "set" => mtime < target[m]
    /\ markTh[m] = "release" => mtime >= target[m] \/ failed[Mark!Window(m)]

\* Somebody has yet to look at the latest time asked for.
Pursues(m) ==
  \/ markAt[m] \in {"wanted", "begun"}
  \/ markTh[m] \in {"load", "check", "set", "again"}
  \/ markTh[m] \in {"release", "look"} /\ target[m] < wanted[Mark!Window(m)]

Pursued ==
  \A w \in Windows :
    mtime < wanted[w] /\ ~failed[w] => \E m \in Mark!Marks : Mark!Window(m) = w /\ Pursues(m)

MarkInv == Mark!TypeOK /\ Led /\ Aimed /\ Pursued

LEMMA MarkParts ==
  /\ \A m \in Mark!Marks : Mark!Window(m) \in Windows /\ Mark!Time(m) \in 0 .. LastTime
  /\ 0 \in 0 .. LastTime
  /\ 0 .. LastTime \subseteq Nat
BY MarkAssumption DEF Mark!Marks, Mark!Window, Mark!Time

LEMMA MarkInit == Mark!Init => MarkInv
BY MarkParts DEF Mark!Init, MarkInv, Mark!TypeOK, Led, Leads, Aimed, Pursued

LEMMA MarkTyped == Mark!TypeOK /\ Mark!Next => Mark!TypeOK'
<1> SUFFICES ASSUME Mark!TypeOK, NEW m \in Mark!Marks,
                    \/ Mark!Want(m) \/ Mark!Follow(m) \/ Mark!Start(m) \/ Mark!Spawn(m)
                    \/ Mark!Load(m) \/ Mark!Check(m) \/ Mark!SetModified(m) \/ Mark!Release(m)
                    \/ Mark!Look(m) \/ Mark!Again(m)
             PROVE  Mark!TypeOK'
  BY DEF Mark!Next
<1> USE MarkParts DEF Mark!TypeOK
<1>1. CASE Mark!Want(m)
  BY <1>1 DEF Mark!Want, Mark!Latest
<1>2. CASE Mark!Follow(m) \/ Mark!Start(m) \/ Mark!Spawn(m)
  BY <1>2 DEF Mark!Follow, Mark!Start, Mark!Spawn
<1>3. CASE Mark!Load(m)
  BY <1>3 DEF Mark!Load
<1>4. CASE Mark!Check(m)
  BY <1>4 DEF Mark!Check
<1>6. CASE Mark!Release(m) \/ Mark!Look(m) \/ Mark!Again(m)
  BY <1>6 DEF Mark!Release, Mark!Look, Mark!Again
<1>5. CASE Mark!SetModified(m)
  <2>1. target[m] \in 0 .. LastTime
    OBVIOUS
  <2> QED
    BY <1>5, <2>1 DEF Mark!SetModified
<1> QED
  BY <1>1, <1>2, <1>3, <1>4, <1>5, <1>6

LEMMA MarkLed == MarkInv /\ Mark!Next => Led'
<1> SUFFICES ASSUME MarkInv, NEW m \in Mark!Marks,
                    \/ Mark!Want(m) \/ Mark!Follow(m) \/ Mark!Start(m) \/ Mark!Spawn(m)
                    \/ Mark!Load(m) \/ Mark!Check(m) \/ Mark!SetModified(m) \/ Mark!Release(m)
                    \/ Mark!Look(m) \/ Mark!Again(m)
             PROVE  Led'
  BY DEF Mark!Next
<1> USE MarkParts DEF MarkInv, Mark!TypeOK, Led, Leads
<1>1. CASE Mark!Want(m) \/ Mark!Follow(m)
  BY <1>1 DEF Mark!Want, Mark!Follow
<1>2. CASE Mark!Start(m)
  BY <1>2 DEF Mark!Start
<1>3. CASE Mark!Spawn(m)
  BY <1>3 DEF Mark!Spawn
<1>4. CASE Mark!Load(m) \/ Mark!Check(m) \/ Mark!SetModified(m) \/ Mark!Look(m)
  BY <1>4 DEF Mark!Load, Mark!Check, Mark!SetModified, Mark!Look
<1>5. CASE Mark!Release(m)
  BY <1>5 DEF Mark!Release
<1>6. CASE Mark!Again(m)
  BY <1>6 DEF Mark!Again
<1> QED
  BY <1>1, <1>2, <1>3, <1>4, <1>5, <1>6

LEMMA MarkAimed == OneProcess /\ MarkInv /\ Mark!Next => Aimed'
<1> SUFFICES ASSUME OneProcess, MarkInv, NEW m \in Mark!Marks,
                    \/ Mark!Want(m) \/ Mark!Follow(m) \/ Mark!Start(m) \/ Mark!Spawn(m)
                    \/ Mark!Load(m) \/ Mark!Check(m) \/ Mark!SetModified(m) \/ Mark!Release(m)
                    \/ Mark!Look(m) \/ Mark!Again(m)
             PROVE  Aimed'
  BY DEF Mark!Next
<1> USE MarkParts DEF MarkInv, Mark!TypeOK, Aimed
<1>1. CASE Mark!Want(m)
  BY <1>1 DEF Mark!Want, Mark!Latest
<1>2. CASE Mark!Follow(m) \/ Mark!Start(m) \/ Mark!Spawn(m)
  BY <1>2 DEF Mark!Follow, Mark!Start, Mark!Spawn, Led
<1>3. ASSUME NEW n \in Mark!Marks, Leads(m), Leads(n) PROVE n = m
  BY <1>3 DEF OneProcess, Led
<1>4. CASE Mark!Load(m)
  BY <1>3, <1>4 DEF Mark!Load, Leads
<1>5. CASE Mark!Check(m)
  BY <1>5 DEF Mark!Check
<1>6. CASE Mark!SetModified(m)
  BY <1>3, <1>6 DEF Mark!SetModified, Leads
<1>7. CASE Mark!Release(m) \/ Mark!Look(m) \/ Mark!Again(m)
  BY <1>7 DEF Mark!Release, Mark!Look, Mark!Again
<1> QED
  BY <1>1, <1>2, <1>4, <1>5, <1>6, <1>7

\* Whoever has the flag will look at the latest time, or has written it.
LEMMA LeaderFollows ==
  ASSUME MarkInv, NEW w \in Windows, marking[w], mtime < wanted[w], ~failed[w]
  PROVE  \E m \in Mark!Marks : Mark!Window(m) = w /\ Leads(m) /\ Pursues(m)
<1>1. PICK m \in Mark!Marks : Mark!Window(m) = w /\ Leads(m)
  BY DEF MarkInv, Led
<1>2. markTh[m] = "release" => target[m] < wanted[w]
  BY <1>1, MarkParts DEF MarkInv, Aimed, Mark!TypeOK
<1> QED
  BY <1>1, <1>2 DEF Leads, Pursues

LEMMA MarkPursued == OneProcess /\ MarkInv /\ Mark!Next => Pursued'
<1> SUFFICES ASSUME OneProcess, MarkInv, NEW m \in Mark!Marks,
                    \/ Mark!Want(m) \/ Mark!Follow(m) \/ Mark!Start(m) \/ Mark!Spawn(m)
                    \/ Mark!Load(m) \/ Mark!Check(m) \/ Mark!SetModified(m) \/ Mark!Release(m)
                    \/ Mark!Look(m) \/ Mark!Again(m),
                    NEW w \in Windows, mtime' < wanted'[w], ~failed'[w]
             PROVE  \E n \in Mark!Marks : Mark!Window(n) = w /\ Pursues(n)'
  BY DEF Mark!Next, Pursued
<1> USE MarkParts DEF MarkInv, Mark!TypeOK
<1>0. Mark!Window(m) = w
  BY DEF OneProcess
<1>1. CASE Mark!Want(m)
  BY <1>0, <1>1 DEF Mark!Want, Pursues
<1>2. CASE Mark!Follow(m)
  <2>1. PICK n \in Mark!Marks : Mark!Window(n) = w /\ Leads(n) /\ Pursues(n)
    BY <1>0, <1>2, LeaderFollows DEF Mark!Follow
  <2>2. n # m
    BY <1>2, <2>1 DEF Mark!Follow, Leads, Led
  <2> QED
    BY <1>2, <2>1, <2>2 DEF Mark!Follow, Pursues
<1>3. CASE Mark!Start(m) \/ Mark!Spawn(m)
  BY <1>0, <1>3 DEF Mark!Start, Mark!Spawn, Pursues
<1>4. CASE Mark!Load(m)
  BY <1>0, <1>4 DEF Mark!Load, Pursues
<1>5. CASE Mark!Check(m)
  BY <1>0, <1>5 DEF Mark!Check, Pursues
<1>6. CASE Mark!SetModified(m)
  BY <1>0, <1>6 DEF Mark!SetModified, Pursues, Aimed
<1>7. CASE Mark!Release(m)
  <2>1. PICK n \in Mark!Marks : Mark!Window(n) = w /\ Pursues(n)
    BY <1>7 DEF Mark!Release, Pursued
  <2> QED
    BY <1>7, <2>1 DEF Mark!Release, Pursues
<1>8. CASE Mark!Look(m)
  <2>1. PICK n \in Mark!Marks : Mark!Window(n) = w /\ Pursues(n)
    BY <1>8 DEF Mark!Look, Pursued
  <2> QED
    BY <1>8, <2>1 DEF Mark!Look, Pursues
<1>9. CASE Mark!Again(m)
  <2>1. CASE marking[w]
    <3>1. PICK n \in Mark!Marks : Mark!Window(n) = w /\ Leads(n) /\ Pursues(n)
      BY <1>9, <2>1, LeaderFollows DEF Mark!Again
    <3>2. n # m
      BY <1>9, <3>1 DEF Mark!Again, Leads, Led
    <3> QED
      BY <1>9, <3>1, <3>2 DEF Mark!Again, Pursues
  <2>2. CASE ~marking[w]
    BY <1>0, <1>9, <2>2 DEF Mark!Again, Pursues
  <2> QED
    BY <2>1, <2>2
<1> QED
  BY <1>1, <1>2, <1>3, <1>4, <1>5, <1>6, <1>7, <1>8, <1>9

LEMMA MarkNext == OneProcess /\ MarkInv /\ Mark!Next => MarkInv'
BY MarkTyped, MarkLed, MarkAimed, MarkPursued DEF MarkInv

LEMMA MarkStays == MarkInv /\ UNCHANGED markVars => MarkInv'
BY DEF MarkInv, Mark!TypeOK, Led, Leads, Aimed, Pursued, Pursues, markVars

LEMMA MarkHolds == MarkInv => Mark!NoMarkLost
<1> SUFFICES ASSUME MarkInv, NEW w \in Windows, ~failed[w],
                    \A m \in Mark!Marks : Mark!Window(m) = w => /\ markAt[m] \in {"due", "returned"}
                                                                /\ markTh[m] \in {"none", "ended"}
             PROVE  mtime >= wanted[w]
  BY DEF Mark!NoMarkLost
<1> QED
  BY MarkParts DEF MarkInv, Mark!TypeOK, Pursued, Pursues

-----------------------------------------------------------------------------
(* The digests that readers share (FileChecks).                            *)

Distinct == \A m, n \in 1 .. Len(recent) : recent[m] = recent[n] => m = n

\* A reader makes at most one check a round, and none before it looked.
Looking == Checks!Owning \union {"lookup", "wait", "confirm"}
Claimed(r, n) ==
  n < round[r] \/ (n = round[r] /\ pc[r] \in Checks!Owning \union {"done", "failed"})
Rounds ==
  /\ \A r \in Readers : pc[r] \in Looking => round[r] <= Tries
  /\ \A r \in Readers, n \in 1 .. Tries : check[<<r, n>>].outcome # "unused" => Claimed(r, n)

Held ==
  \A p \in Paths : cached[p] # Nobody => /\ check[cached[p]].outcome # "unused"
                                         /\ path[cached[p][1]] = p

\* An owner's check is its own; it leaves the cache before the owner is done
\* only for another file or another version.
Owned ==
  \A r \in Readers : pc[r] \in Checks!Owning =>
    /\ mine[r] = <<r, round[r]>>
    /\ check[mine[r]].outcome = "pending"
    /\ check[mine[r]].version = version[r]
    /\ cached[path[r]] = mine[r] \/ mine[r] \in evicted

\* A reader waits for a check of its own file and version.
Joined ==
  \A r \in Readers : pc[r] \in {"wait", "confirm"} =>
    /\ mine[r] \in Checks!Ids
    /\ check[mine[r]].outcome # "unused"
    /\ check[mine[r]].version = version[r]
    /\ path[mine[r][1]] = path[r]
    /\ pc[r] = "confirm" => digest[r] = <<version[r], version[r]>>

\* Hashing sees contents not older than the version, and the second look at the
\* file that there were no others.
Seen ==
  \A r \in Readers :
    /\ since[r] <= file[path[r]]
    /\ pc[r] \in Looking => since[r] <= version[r] /\ version[r] <= file[path[r]]
    /\ pc[r] \in {"hashing", "hung", "recheck"} =>
         version[r] <= digest[r][1] /\ digest[r][1] <= digest[r][2] /\ digest[r][2] <= file[path[r]]
    /\ pc[r] = "publish" => digest[r] = <<version[r], version[r]>>

Ready ==
  \A i \in Checks!Ids : check[i].outcome \in {"ready", "aged"} =>
                          check[i].digest = <<check[i].version, check[i].version>>

ChecksInv ==
  /\ Checks!TypeOK /\ Distinct /\ Rounds /\ Held /\ Owned /\ Joined /\ Seen /\ Ready
  /\ Checks!DigestOfTheCall

\* The paths of a sequence.
Among(q, s) == \E k \in 1 .. Len(s) : s[k] = q
Once(s) == \A m, n \in 1 .. Len(s) : s[m] = s[n] => m = n

LEMMA CutTyped ==
  ASSUME NEW s \in Seq(Paths), NEW k \in 1 .. Len(s)
  PROVE  LET t == SubSeq(s, 1, k - 1) \o SubSeq(s, k + 1, Len(s))
         IN  /\ t \in Seq(Paths) /\ Len(t) = Len(s) - 1
             /\ \A n \in 1 .. Len(t) : t[n] = IF n < k THEN s[n] ELSE s[n + 1]
<1> DEFINE u == SubSeq(s, 1, k - 1)
           v == SubSeq(s, k + 1, Len(s))
<1>1. u \in Seq(Paths) /\ Len(u) = k - 1 /\ \A n \in 1 .. k - 1 : u[n] = s[n]
  OBVIOUS
<1>2. v \in Seq(Paths) /\ Len(v) = Len(s) - k /\ \A n \in 1 .. Len(s) - k : v[n] = s[n + k]
  OBVIOUS
<1> HIDE DEF u, v
<1>3. u \o v \in Seq(Paths) /\ Len(u \o v) = Len(s) - 1
  BY <1>1, <1>2
<1>4. \A n \in 1 .. Len(u \o v) : (u \o v)[n] = IF n < k THEN s[n] ELSE s[n + 1]
  BY <1>1, <1>2, <1>3
<1> QED
  BY <1>3, <1>4 DEF u, v

\* A sequence without its k-th element.
LEMMA CutOnce ==
  ASSUME NEW s \in Seq(Paths), NEW k \in 1 .. Len(s),
         \A m, n \in 1 .. Len(s) : s[m] = s[n] => m = n
  PROVE  LET t == SubSeq(s, 1, k - 1) \o SubSeq(s, k + 1, Len(s))
         IN  /\ t \in Seq(Paths) /\ Len(t) = Len(s) - 1
             /\ \A m, n \in 1 .. Len(t) : t[m] = t[n] => m = n
             /\ \A q : (\E n \in 1 .. Len(t) : t[n] = q) <=> q # s[k] /\ \E j \in 1 .. Len(s) : s[j] = q
<1> DEFINE t == SubSeq(s, 1, k - 1) \o SubSeq(s, k + 1, Len(s))
<1>0. /\ t \in Seq(Paths) /\ Len(t) = Len(s) - 1
      /\ \A n \in 1 .. Len(t) : t[n] = IF n < k THEN s[n] ELSE s[n + 1]
  BY CutTyped
<1> HIDE DEF t
<1> DEFINE from(n) == IF n < k THEN n ELSE n + 1
<1>1. \A n \in 1 .. Len(t) : from(n) \in 1 .. Len(s) /\ from(n) # k /\ t[n] = s[from(n)]
  BY <1>0
<1>2. \A m, n \in 1 .. Len(t) : from(m) = from(n) => m = n
  BY <1>0
<1>3. \A j \in 1 .. Len(s) : j # k => \E n \in 1 .. Len(t) : from(n) = j
  <2> TAKE j \in 1 .. Len(s)
  <2> HAVE j # k
  <2> DEFINE n == IF j < k THEN j ELSE j - 1
  <2>1. n \in 1 .. Len(t) /\ from(n) = j
    BY <1>0
  <2> QED
    BY <2>1
<1> HIDE DEF from
<1>4. \A m, n \in 1 .. Len(t) : t[m] = t[n] => m = n
  BY <1>1, <1>2
<1>5. \A q : (\E n \in 1 .. Len(t) : t[n] = q) => q # s[k] /\ \E j \in 1 .. Len(s) : s[j] = q
  BY <1>1
<1>6. \A q : q # s[k] /\ (\E j \in 1 .. Len(s) : s[j] = q) => \E n \in 1 .. Len(t) : t[n] = q
  <2> TAKE q
  <2> HAVE q # s[k] /\ \E j \in 1 .. Len(s) : s[j] = q
  <2>1. PICK j \in 1 .. Len(s) : s[j] = q /\ j # k
    OBVIOUS
  <2>2. PICK n \in 1 .. Len(t) : from(n) = j
    BY <1>3, <2>1
  <2> QED
    BY <1>1, <2>1, <2>2
<1> QED
  BY <1>0, <1>4, <1>5, <1>6 DEF t

LEMMA WithoutIs ==
  ASSUME NEW s \in Seq(Paths), NEW p, Once(s)
  PROVE  LET t == Checks!Without(s, p)
         IN  /\ t \in Seq(Paths) /\ Once(t)
             /\ Len(t) <= Len(s) /\ (Among(p, s) => Len(t) = Len(s) - 1)
             /\ \A q : Among(q, t) <=> q # p /\ Among(q, s)
<1> USE DEF Once, Among
<1> DEFINE t == Checks!Without(s, p)
<1>1. CASE \E k \in 1 .. Len(s) : s[k] = p
  <2>1. PICK k \in 1 .. Len(s) : s[k] = p /\ t = SubSeq(s, 1, k - 1) \o SubSeq(s, k + 1, Len(s))
    BY <1>1 DEF Checks!Without
  <2>2. /\ t \in Seq(Paths) /\ Len(t) = Len(s) - 1
        /\ \A m, n \in 1 .. Len(t) : t[m] = t[n] => m = n
        /\ \A q : (\E n \in 1 .. Len(t) : t[n] = q) <=> q # s[k] /\ \E j \in 1 .. Len(s) : s[j] = q
    <3>1. k \in 1 .. Len(s) /\ \A m, n \in 1 .. Len(s) : s[m] = s[n] => m = n
      OBVIOUS
    <3> DEFINE u == SubSeq(s, 1, k - 1) \o SubSeq(s, k + 1, Len(s))
    <3>2. /\ u \in Seq(Paths) /\ Len(u) = Len(s) - 1
          /\ \A m, n \in 1 .. Len(u) : u[m] = u[n] => m = n
          /\ \A q : (\E n \in 1 .. Len(u) : u[n] = q) <=> q # s[k] /\ \E j \in 1 .. Len(s) : s[j] = q
      BY <3>1, CutOnce, Zenon
    <3>3. t = u
      BY <2>1
    <3> HIDE DEF u, t
    <3> QED
      BY <3>2, <3>3
  <2> HIDE DEF t
  <2>3. Len(t) <= Len(s)
    BY <2>2
  <2> QED
    BY <2>1, <2>2, <2>3 DEF t
<1>2. CASE ~ \E k \in 1 .. Len(s) : s[k] = p
  <2>1. t = s
    BY <1>2 DEF Checks!Without
  <2> HIDE DEF t
  <2> QED
    BY <1>2, <2>1 DEF t
<1> QED
  BY <1>1, <1>2

CheckRecords == [version : Checks!Contents, outcome : Checks!Outcomes, digest : Checks!Digests]

\* What one check becomes, beside all others.
LEMMA CheckSet ==
  ASSUME check \in [Checks!Ids -> CheckRecords], NEW i \in Checks!Ids, NEW c \in CheckRecords,
         check' = [check EXCEPT ![i] = c]
  PROVE  /\ check' \in [Checks!Ids -> CheckRecords]
         /\ check'[i] = c /\ \A j \in Checks!Ids : j # i => check'[j] = check[j]
OBVIOUS


LEMMA ChecksTypes ==
  ASSUME Checks!TypeOK
  PROVE  /\ check \in [Checks!Ids -> CheckRecords]
         /\ \A r \in Readers : /\ path[r] \in Paths /\ version[r] \in Checks!Contents
                               /\ digest[r] \in Checks!Digests
                               /\ file[path[r]] \in Checks!Contents
                               /\ round[r] \in 1 .. Tries + 1
                               /\ pc[r] \in Checks!Owning \union {"idle", "top", "lookup", "wait", "confirm", "done", "failed"}
                               /\ since[r] \in Checks!Contents
         /\ Checks!Contents \subseteq Nat
BY ChecksAssumption DEF Checks!TypeOK, CheckRecords, Checks!Contents

\* A claim is of a check nobody has seen.
LEMMA ClaimMakes ==
  ASSUME ChecksInv, NEW r \in Readers, Checks!Claim(r)
  PROVE  /\ <<r, round[r]>> \in Checks!Ids
         /\ check[<<r, round[r]>>].outcome = "unused"
         /\ check' \in [Checks!Ids -> CheckRecords]
         /\ check'[<<r, round[r]>>].outcome = "pending"
         /\ check'[<<r, round[r]>>].version = version[r]
         /\ \A j \in Checks!Ids : j # <<r, round[r]>> => check'[j] = check[j]
<1> DEFINE i == <<r, round[r]>>
           c == [check[i] EXCEPT !.version = version[r], !.outcome = "pending"]
<1>1. round[r] \in 1 .. Tries /\ pc[r] = "lookup"
  BY ChecksTypes, ChecksAssumption DEF ChecksInv, Rounds, Looking, Checks!Claim
<1>2. i \in Checks!Ids
  BY <1>1 DEF Checks!Ids
<1>3. check[i].outcome = "unused"
  BY <1>1 DEF ChecksInv, Rounds, Claimed, Checks!Owning
<1>4. check[i] \in CheckRecords /\ version[r] \in Checks!Contents /\ "pending" \in Checks!Outcomes
  BY <1>2, ChecksTypes DEF ChecksInv, Checks!Outcomes
<1>5. c \in CheckRecords /\ c.version = version[r] /\ c.outcome = "pending"
  BY <1>4 DEF CheckRecords
<1>6. check' = [check EXCEPT ![i] = c]
  BY <1>2, ChecksTypes DEF ChecksInv, Checks!Claim
<1> HIDE DEF i, c
<1>7. /\ check' \in [Checks!Ids -> CheckRecords]
      /\ check'[i] = c /\ \A j \in Checks!Ids : j # i => check'[j] = check[j]
  BY <1>2, <1>5, <1>6, ChecksTypes, CheckSet DEF ChecksInv
<1> QED
  BY <1>2, <1>3, <1>5, <1>7 DEF i

LEMMA OwnedTyped ==
  ASSUME ChecksInv, NEW r \in Readers, pc[r] \in Checks!Owning
  PROVE  /\ mine[r] = <<r, round[r]>> /\ mine[r] \in Checks!Ids
         /\ check[mine[r]] \in CheckRecords
         /\ check[mine[r]].outcome = "pending" /\ check[mine[r]].version = version[r]
<1>1. round[r] \in 1 .. Tries
  BY ChecksTypes, ChecksAssumption DEF ChecksInv, Rounds, Looking
<1>2. mine[r] = <<r, round[r]>> /\ mine[r] \in Checks!Ids
  BY <1>1 DEF ChecksInv, Owned, Checks!Ids
<1> QED
  BY <1>2, ChecksTypes DEF ChecksInv, Owned

LEMMA DropMakes ==
  ASSUME ChecksInv, NEW r \in Readers, pc[r] \in Checks!Owning, Checks!DropClaim(r)
  PROVE  /\ check' \in [Checks!Ids -> CheckRecords]
         /\ check'[mine[r]].outcome = "abandoned" /\ check'[mine[r]].version = version[r]
         /\ \A j \in Checks!Ids : j # mine[r] => check'[j] = check[j]
<1> DEFINE i == mine[r]
           c == [check[i] EXCEPT !.outcome = "abandoned"]
<1>1. i \in Checks!Ids /\ check[i] \in CheckRecords /\ check[i].version = version[r]
  BY OwnedTyped
<1>2. c \in CheckRecords /\ c.outcome = "abandoned" /\ c.version = version[r]
  BY <1>1 DEF CheckRecords, Checks!Outcomes
<1>3. check' = [check EXCEPT ![i] = c]
  BY <1>1, ChecksTypes DEF ChecksInv, Checks!DropClaim
<1> HIDE DEF i, c
<1>4. /\ check' \in [Checks!Ids -> CheckRecords]
      /\ check'[i] = c /\ \A j \in Checks!Ids : j # i => check'[j] = check[j]
  BY <1>1, <1>2, <1>3, ChecksTypes, CheckSet DEF ChecksInv
<1> QED
  BY <1>2, <1>4 DEF i

LEMMA PublishMakes ==
  ASSUME ChecksInv, NEW r \in Readers, Checks!Publish(r)
  PROVE  /\ check' \in [Checks!Ids -> CheckRecords]
         /\ check'[mine[r]].outcome = "ready" /\ check'[mine[r]].version = version[r]
         /\ check'[mine[r]].digest = digest[r]
         /\ \A j \in Checks!Ids : j # mine[r] => check'[j] = check[j]
<1> DEFINE i == mine[r]
           c == [check[i] EXCEPT !.outcome = "ready", !.digest = digest[r]]
<1>1. pc[r] \in Checks!Owning
  BY DEF Checks!Publish, Checks!Owning
<1>2. /\ i \in Checks!Ids /\ check[i] \in CheckRecords /\ check[i].version = version[r]
      /\ digest[r] \in Checks!Digests
  BY <1>1, OwnedTyped, ChecksTypes DEF ChecksInv
<1>3. c \in CheckRecords /\ c.outcome = "ready" /\ c.version = version[r] /\ c.digest = digest[r]
  BY <1>2 DEF CheckRecords, Checks!Outcomes
<1>4. check' = [check EXCEPT ![i] = c]
  BY <1>2, ChecksTypes DEF ChecksInv, Checks!Publish
<1> HIDE DEF i, c
<1>5. /\ check' \in [Checks!Ids -> CheckRecords]
      /\ check'[i] = c /\ \A j \in Checks!Ids : j # i => check'[j] = check[j]
  BY <1>2, <1>3, <1>4, ChecksTypes, CheckSet DEF ChecksInv
<1> QED
  BY <1>3, <1>5 DEF i

LEMMA AgeMakes ==
  ASSUME ChecksInv, NEW i \in Checks!Ids, Checks!Age(i)
  PROVE  /\ check' \in [Checks!Ids -> CheckRecords]
         /\ check[i].outcome = "ready" /\ check'[i].outcome = "aged"
         /\ check'[i].version = check[i].version /\ check'[i].digest = check[i].digest
         /\ \A j \in Checks!Ids : j # i => check'[j] = check[j]
<1> DEFINE c == [check[i] EXCEPT !.outcome = "aged"]
<1>1. check[i] \in CheckRecords
  BY ChecksTypes DEF ChecksInv
<1>2. c \in CheckRecords /\ c.outcome = "aged" /\ c.version = check[i].version /\ c.digest = check[i].digest
  BY <1>1 DEF CheckRecords, Checks!Outcomes
<1>3. check' = [check EXCEPT ![i] = c]
  BY ChecksTypes DEF ChecksInv, Checks!Age
<1> HIDE DEF c
<1>4. /\ check' \in [Checks!Ids -> CheckRecords]
      /\ check'[i] = c /\ \A j \in Checks!Ids : j # i => check'[j] = check[j]
  BY <1>2, <1>3, ChecksTypes, CheckSet DEF ChecksInv
<1> QED
  BY <1>2, <1>4 DEF Checks!Age

LEMMA AppendIs ==
  ASSUME NEW t \in Seq(Paths), NEW p \in Paths, Once(t), ~Among(p, t)
  PROVE  LET u == Append(t, p)
         IN  /\ u \in Seq(Paths) /\ Once(u) /\ Len(u) = Len(t) + 1
             /\ \A q : Among(q, u) <=> q = p \/ Among(q, t)
<1> DEFINE u == Append(t, p)
<1>1. /\ u \in Seq(Paths) /\ Len(u) = Len(t) + 1
      /\ \A n \in 1 .. Len(t) : u[n] = t[n]
      /\ u[Len(t) + 1] = p
  OBVIOUS
<1> HIDE DEF u
<1>2. Once(u)
  BY <1>1 DEF Once, Among
<1>3. \A q : Among(q, u) => q = p \/ Among(q, t)
  BY <1>1 DEF Among
<1>4. \A q : q = p \/ Among(q, t) => Among(q, u)
  BY <1>1 DEF Among
<1> QED
  BY <1>1, <1>2, <1>3, <1>4 DEF u

LEMMA TailIs ==
  ASSUME NEW s \in Seq(Paths), Once(s), Len(s) > 0
  PROVE  /\ Head(s) \in Paths /\ Among(Head(s), s)
         /\ Tail(s) \in Seq(Paths) /\ Once(Tail(s)) /\ Len(Tail(s)) = Len(s) - 1
         /\ \A q : Among(q, Tail(s)) <=> q # Head(s) /\ Among(q, s)
<1> DEFINE t == Tail(s)
<1>1. /\ Head(s) = s[1] /\ s[1] \in Paths
      /\ t \in Seq(Paths) /\ Len(t) = Len(s) - 1
      /\ \A n \in 1 .. Len(t) : t[n] = s[n + 1]
  OBVIOUS
<1> HIDE DEF t
<1>2. Once(t)
  <2> SUFFICES ASSUME NEW m \in 1 .. Len(t), NEW n \in 1 .. Len(t), t[m] = t[n] PROVE m = n
    BY DEF Once
  <2>1. m + 1 \in 1 .. Len(s) /\ n + 1 \in 1 .. Len(s) /\ s[m + 1] = s[n + 1]
    BY <1>1
  <2>2. m + 1 = n + 1
    BY <2>1 DEF Once
  <2> QED
    BY <2>2
<1>3. ASSUME NEW q, Among(q, t) PROVE q # s[1] /\ Among(q, s)
  BY <1>1, <1>3 DEF Once, Among
<1>4. ASSUME NEW q, q # s[1], Among(q, s) PROVE Among(q, t)
  <2>1. PICK k \in 1 .. Len(s) : s[k] = q /\ k # 1
    BY <1>4 DEF Among
  <2>2. k - 1 \in 1 .. Len(t) /\ t[k - 1] = q
    BY <1>1, <2>1
  <2> QED
    BY <2>2 DEF Among
<1>5. Among(s[1], s)
  BY <1>1 DEF Among
<1> QED
  BY <1>1, <1>2, <1>3, <1>4, <1>5 DEF t

\* The cache's keys are the paths in use order.
Keyed ==
  /\ recent \in Seq(Paths) /\ Once(recent) /\ Len(recent) <= Capacity
  /\ \A p \in Paths : Among(p, recent) <=> cached[p] # Nobody

LEMMA KeyedIs ==
  ASSUME ChecksInv
  PROVE  Keyed /\ cached \in [Paths -> Checks!Ids \union {Nobody}]
BY DEF ChecksInv, Checks!TypeOK, Distinct, Keyed, Once, Among

LEMMA JoinKeyed == ASSUME ChecksInv, NEW r \in Readers, Checks!Join(r) PROVE Keyed'
<1> DEFINE p == path[r]
           t == Checks!Without(recent, p)
<1>1. p \in Paths /\ Among(p, recent) /\ recent' = Append(t, p) /\ UNCHANGED cached
  BY KeyedIs, ChecksTypes DEF ChecksInv, Keyed, Checks!Join, Checks!Reusable
<1>2. /\ t \in Seq(Paths) /\ Once(t) /\ Len(t) = Len(recent) - 1 /\ ~Among(p, t)
      /\ \A q : Among(q, t) <=> q # p /\ Among(q, recent)
  BY <1>1, KeyedIs, WithoutIs DEF Keyed
<1> HIDE DEF t, p
<1>3. /\ recent' \in Seq(Paths) /\ Once(recent') /\ Len(recent') = Len(t) + 1
      /\ \A q : Among(q, recent') <=> q = p \/ Among(q, t)
  BY <1>1, <1>2, AppendIs
<1>4. Len(recent') <= Capacity
  BY <1>2, <1>3, KeyedIs DEF Keyed
<1>5. \A q : Among(q, recent') <=> Among(q, recent)
  BY <1>1, <1>2, <1>3
<1> QED
  BY <1>1, <1>3, <1>4, <1>5, KeyedIs DEF Keyed, Once, Among

LEMMA ClaimKeyed ==
  ASSUME ChecksInv, NEW r \in Readers, Checks!Claim(r)
  PROVE  Keyed' /\ cached' \in [Paths -> Checks!Ids \union {Nobody}]
<1> DEFINE p == path[r]
           i == <<r, round[r]>>
           full == Len(recent) >= Capacity
           kept == IF full THEN Tail(recent) ELSE recent
           t == Checks!Without(kept, p)
<1>1. p \in Paths /\ i \in Checks!Ids /\ i # Nobody
  BY ChecksTypes, ClaimMakes, ChecksAssumption DEF ChecksInv, Checks!Ids
<1>2. /\ recent' = Append(t, p)
      /\ cached' = [q \in Paths |->
                      IF q = p THEN i ELSE IF full /\ q = Head(recent) THEN Nobody ELSE cached[q]]
  BY DEF Checks!Claim
<1>3. /\ kept \in Seq(Paths) /\ Once(kept) /\ Len(kept) + 1 <= Capacity
      /\ \A q : Among(q, kept) <=> Among(q, recent) /\ ~(full /\ q = Head(recent))
  <2>1. /\ recent \in Seq(Paths) /\ Len(recent) \in Nat /\ Len(recent) <= Capacity
        /\ Once(recent) /\ Capacity \in Nat \ {0}
    BY KeyedIs, ChecksAssumption DEF Keyed
  <2>2. CASE full
    <3>1. Len(recent) > 0 /\ kept = Tail(recent)
      BY <2>1, <2>2
    <3> QED
      BY <2>1, <2>2, <3>1, TailIs
  <2>3. CASE ~full
    BY <2>1, <2>3
  <2> QED
    BY <2>2, <2>3
<1> HIDE DEF kept
<1>4. /\ t \in Seq(Paths) /\ Once(t) /\ Len(t) <= Len(kept) /\ ~Among(p, t)
      /\ \A q : Among(q, t) <=> q # p /\ Among(q, kept)
  BY <1>3, WithoutIs
<1> HIDE DEF t, p, i, full
<1>5. /\ recent' \in Seq(Paths) /\ Once(recent') /\ Len(recent') = Len(t) + 1
      /\ \A q : Among(q, recent') <=> q = p \/ Among(q, t)
  BY <1>1, <1>2, <1>4, AppendIs
<1>6. Len(recent') <= Capacity
  BY <1>3, <1>4, <1>5, ChecksAssumption
<1>7. \A q \in Paths : Among(q, recent') <=> cached'[q] # Nobody
  BY <1>1, <1>2, <1>3, <1>4, <1>5, KeyedIs DEF Keyed
<1>8. cached' \in [Paths -> Checks!Ids \union {Nobody}]
  BY <1>1, <1>2, KeyedIs
<1> QED
  BY <1>5, <1>6, <1>7, <1>8 DEF Keyed, Once, Among

LEMMA DropKeyed ==
  ASSUME ChecksInv, NEW r \in Readers, Checks!DropClaim(r)
  PROVE  Keyed' /\ cached' \in [Paths -> Checks!Ids \union {Nobody}]
<1> DEFINE p == path[r]
           t == Checks!Without(recent, p)
<1>1. CASE cached[p] = mine[r]
  <2>1. p \in Paths /\ recent' = t /\ cached' = [cached EXCEPT ![p] = Nobody]
    BY <1>1, ChecksTypes DEF ChecksInv, Checks!DropClaim
  <2>2. /\ t \in Seq(Paths) /\ Once(t) /\ Len(t) <= Len(recent)
        /\ \A q : Among(q, t) <=> q # p /\ Among(q, recent)
    BY <2>1, KeyedIs, WithoutIs DEF Keyed
  <2> HIDE DEF t, p
  <2>3. recent' \in Seq(Paths) /\ Once(recent') /\ Len(recent') <= Capacity
    BY <2>1, <2>2, KeyedIs, ChecksAssumption DEF Keyed
  <2>4. cached' \in [Paths -> Checks!Ids \union {Nobody}]
    BY <2>1, KeyedIs
  <2>5. \A q \in Paths : Among(q, recent') <=> cached'[q] # Nobody
    BY <2>1, <2>2, KeyedIs DEF Keyed
  <2> QED
    BY <2>3, <2>4, <2>5 DEF Keyed, Once, Among
<1>2. CASE cached[p] # mine[r]
  BY <1>2, KeyedIs DEF Keyed, Once, Among, Checks!DropClaim
<1> QED
  BY <1>1, <1>2

Places == Checks!Owning \union {"idle", "top", "lookup", "wait", "confirm", "done", "failed"}

\* The types of the readers and of what they read.
ReaderTypes ==
  /\ file \in [Paths -> Checks!Contents] /\ evicted \subseteq Checks!Ids
  /\ pc \in [Readers -> Places] /\ path \in [Readers -> Paths]
  /\ version \in [Readers -> Checks!Contents] /\ digest \in [Readers -> Checks!Digests]
  /\ mine \in [Readers -> Checks!Ids \union {Nobody}] /\ round \in [Readers -> 1 .. Tries + 1]
  /\ stopped \in [Readers -> BOOLEAN] /\ since \in [Readers -> Checks!Contents]

CacheTypes ==
  /\ Keyed /\ cached \in [Paths -> Checks!Ids \union {Nobody}]
  /\ check \in [Checks!Ids -> CheckRecords]

LEMMA ChecksFold == CacheTypes /\ ReaderTypes <=> Checks!TypeOK /\ Distinct
BY DEF CacheTypes, ReaderTypes, Keyed, Once, Among, Checks!TypeOK, Distinct, CheckRecords, Places

LEMMA ChecksFoldNext == CacheTypes' /\ ReaderTypes' => Checks!TypeOK' /\ Distinct'
BY DEF CacheTypes, ReaderTypes, Keyed, Once, Among, Checks!TypeOK, Distinct, CheckRecords, Places

ReaderStep(r) == Checks!Call(r) \/ Checks!Cancel(r) \/ Checks!Step(r) \/ Checks!HashEnd(r)
                   \/ Checks!Hang(r) \/ Checks!GiveUp(r)

\* A reader that neither claims, publishes nor drops leaves the checks alone.
Quiet(r) ==
  \/ Checks!Call(r) \/ Checks!Cancel(r) \/ Checks!Fail(r) \/ Checks!Look(r) \/ Checks!HashBegin(r)
  \/ Checks!HashEnd(r) \/ Checks!Hang(r) \/ Checks!WaitStopped(r) \/ Checks!Wake(r)
  \/ Checks!Confirm(r)
  \/ Checks!Recheck(r) /\ file[path[r]] = version[r]
Drops(r) == Checks!GiveUp(r) \/ (Checks!Recheck(r) /\ file[path[r]] # version[r])

LEMMA StepKinds ==
  ASSUME NEW r \in Readers, ReaderStep(r)
  PROVE  Quiet(r) \/ Drops(r) \/ Checks!Join(r) \/ Checks!Claim(r) \/ Checks!Publish(r)
BY DEF ReaderStep, Quiet, Drops, Checks!Step

LEMMA QuietKeeps ==
  ASSUME NEW r \in Readers, Quiet(r)
  PROVE  UNCHANGED <<file, cached, recent, check, evicted, path>>
BY DEF Quiet, Checks!Call, Checks!Cancel, Checks!Fail, Checks!Look, Checks!HashBegin,
       Checks!HashEnd, Checks!Hang, Checks!WaitStopped, Checks!Wake, Checks!Confirm,
       Checks!Recheck, Checks!reader

LEMMA DropsWhat ==
  ASSUME ChecksInv, NEW r \in Readers, Drops(r)
  PROVE  /\ pc[r] \in {"hash", "hashing", "recheck"} /\ pc[r] \in Checks!Owning
         /\ Checks!DropClaim(r)
         /\ UNCHANGED <<file, evicted, version, digest, stopped, path, since>>
         /\ mine' = [mine EXCEPT ![r] = Nobody]
         /\ \/ pc' = [pc EXCEPT ![r] = "failed"] /\ UNCHANGED round
            \/ pc' = [pc EXCEPT ![r] = "top"] /\ round' = [round EXCEPT ![r] = @ + 1]
BY DEF Drops, Checks!GiveUp, Checks!Recheck, Checks!DropClaim, Checks!Go, Checks!Owning, Checks!reader

LEMMA CacheTyped ==
  ASSUME ChecksInv, NEW r \in Readers, ReaderStep(r)
  PROVE  CacheTypes'
<1>1. CacheTypes
  BY ChecksFold DEF ChecksInv
<1>2. CASE Quiet(r)
  BY <1>1, <1>2, QuietKeeps DEF CacheTypes, Keyed, Once, Among
<1>3. CASE Drops(r)
  BY <1>3, DropsWhat, DropKeyed, DropMakes DEF CacheTypes
<1>4. CASE Checks!Join(r)
  <2>1. UNCHANGED <<cached, check>>
    BY <1>4 DEF Checks!Join
  <2> QED
    BY <1>1, <1>4, <2>1, JoinKeyed DEF CacheTypes
<1>5. CASE Checks!Claim(r)
  BY <1>5, ClaimKeyed, ClaimMakes DEF CacheTypes
<1>6. CASE Checks!Publish(r)
  <2>1. UNCHANGED <<cached, recent>>
    BY <1>6 DEF Checks!Publish
  <2> QED
    BY <1>1, <1>6, <2>1, PublishMakes DEF CacheTypes, Keyed, Once, Among
<1> QED
  BY <1>2, <1>3, <1>4, <1>5, <1>6, StepKinds

LEMMA RoundLeft ==
  ASSUME ChecksInv, NEW r \in Readers, pc[r] \in Looking
  PROVE  round[r] + 1 \in 1 .. Tries + 1
BY ChecksTypes, ChecksAssumption DEF ChecksInv, Rounds

LEMMA ReaderTyped ==
  ASSUME ChecksInv, NEW r \in Readers, ReaderStep(r)
  PROVE  ReaderTypes'
<1>1. ReaderTypes
  BY ChecksFold DEF ChecksInv
<1>2. path[r] \in Paths /\ file[path[r]] \in Checks!Contents
  BY <1>1 DEF ReaderTypes
<1> USE DEF Checks!Go, Checks!reader
<1>3. CASE Checks!Call(r)
  BY <1>1, <1>2, <1>3 DEF ReaderTypes, Places, Checks!Call
<1>4. CASE Checks!Cancel(r) \/ Checks!Fail(r) \/ Checks!Hang(r) \/ Checks!WaitStopped(r)
  BY <1>1, <1>4 DEF ReaderTypes, Places, Checks!Owning, Checks!Cancel, Checks!Fail, Checks!Hang, Checks!WaitStopped
<1>5. CASE Checks!Look(r)
  BY <1>1, <1>2, <1>5 DEF ReaderTypes, Places, Checks!Look
<1>6. CASE Checks!HashBegin(r)
  <2>1. <<file[path[r]], file[path[r]]>> \in Checks!Digests
    BY <1>2 DEF Checks!Digests
  <2> QED
    BY <1>1, <1>6, <2>1 DEF ReaderTypes, Places, Checks!Owning, Checks!HashBegin
<1>7. CASE Checks!HashEnd(r)
  <2>1. [digest[r] EXCEPT ![2] = file[path[r]]] \in Checks!Digests
    BY <1>1, <1>2 DEF ReaderTypes, Checks!Digests
  <2>2. digest' = [digest EXCEPT ![r] = [digest[r] EXCEPT ![2] = file[path[r]]]]
    BY <1>1, <1>7 DEF ReaderTypes, Checks!HashEnd
  <2> QED
    BY <1>1, <1>7, <2>1, <2>2 DEF ReaderTypes, Places, Checks!Owning, Checks!HashEnd
<1>8. CASE Checks!Wake(r)
  <2>1. mine[r] \in Checks!Ids /\ check[mine[r]].digest \in Checks!Digests /\ pc[r] \in Looking
    BY <1>8, ChecksTypes DEF ChecksInv, Joined, CheckRecords, Looking, Checks!Wake
  <2>2. round[r] + 1 \in 1 .. Tries + 1
    BY <2>1, RoundLeft
  <2> QED
    BY <1>1, <1>8, <2>1, <2>2 DEF ReaderTypes, Places, Checks!Wake
<1>9. CASE Checks!Confirm(r)
  <2>1. round[r] + 1 \in 1 .. Tries + 1
    BY <1>9, RoundLeft DEF Looking, Checks!Confirm
  <2> QED
    BY <1>1, <1>9, <2>1 DEF ReaderTypes, Places, Checks!Confirm
<1>10. CASE Checks!Recheck(r) /\ file[path[r]] = version[r]
  BY <1>1, <1>10 DEF ReaderTypes, Places, Checks!Owning, Checks!Recheck
<1>11. CASE Drops(r)
  <2>1. round[r] + 1 \in 1 .. Tries + 1
    BY <1>11, DropsWhat, RoundLeft DEF Looking
  <2> QED
    BY <1>1, <1>11, <2>1, DropsWhat DEF ReaderTypes, Places
<1>12. CASE Checks!Join(r)
  <2>1. cached[path[r]] \in Checks!Ids \union {Nobody}
    BY <1>2, KeyedIs
  <2> QED
    BY <1>1, <1>12, <2>1 DEF ReaderTypes, Places, Checks!Join
<1>13. CASE Checks!Claim(r)
  <2>1. <<r, round[r]>> \in Checks!Ids
    BY <1>13, ClaimMakes
  <2>2. evicted' \subseteq Checks!Ids
    BY <1>1, <1>13 DEF ReaderTypes, Checks!Claim
  <2> QED
    BY <1>1, <1>13, <2>1, <2>2 DEF ReaderTypes, Places, Checks!Owning, Checks!Claim
<1>14. CASE Checks!Publish(r)
  BY <1>1, <1>14 DEF ReaderTypes, Places, Checks!Publish
<1> QED
  BY <1>3, <1>4, <1>5, <1>6, <1>7, <1>8, <1>9, <1>10, <1>11, <1>12, <1>13, <1>14, StepKinds DEF Quiet

LEMMA OthersStay ==
  ASSUME ChecksInv, NEW r \in Readers, ReaderStep(r), NEW s \in Readers, s # r
  PROVE  /\ pc'[s] = pc[s] /\ version'[s] = version[s] /\ digest'[s] = digest[s]
         /\ mine'[s] = mine[s] /\ round'[s] = round[s] /\ since'[s] = since[s]
<1> USE DEF Checks!Go, Checks!reader
<1>1. ReaderTypes
  BY ChecksFold DEF ChecksInv
<1>2. CASE Quiet(r)
  BY <1>1, <1>2 DEF ReaderTypes, Quiet, Checks!Call, Checks!Cancel, Checks!Fail, Checks!Look,
       Checks!HashBegin, Checks!HashEnd, Checks!Hang, Checks!WaitStopped, Checks!Wake,
       Checks!Confirm, Checks!Recheck
<1>3. CASE Drops(r)
  BY <1>1, <1>3, DropsWhat DEF ReaderTypes
<1>4. CASE Checks!Join(r) \/ Checks!Claim(r) \/ Checks!Publish(r)
  BY <1>1, <1>4 DEF ReaderTypes, Checks!Join, Checks!Claim, Checks!Publish
<1> QED
  BY <1>2, <1>3, <1>4, StepKinds

LEMMA WorldStays ==
  ASSUME ChecksInv, NEW r \in Readers, ReaderStep(r)
  PROVE  UNCHANGED <<file, path>> /\ evicted \subseteq evicted'
<1>1. CASE Drops(r)
  BY <1>1, DropsWhat
<1>2. CASE Checks!Join(r) \/ Checks!Claim(r) \/ Checks!Publish(r)
  BY <1>2 DEF Checks!Join, Checks!Claim, Checks!Publish, Checks!reader
<1> QED
  BY <1>1, <1>2, QuietKeeps, StepKinds

\* A check keeps its version, and once made stays made.
LEMMA ChecksLast ==
  ASSUME ChecksInv, NEW r \in Readers, ReaderStep(r), NEW j \in Checks!Ids, check[j].outcome # "unused"
  PROVE  check'[j].outcome # "unused" /\ check'[j].version = check[j].version
<1>1. CASE Quiet(r) \/ Checks!Join(r)
  BY <1>1, QuietKeeps DEF Checks!Join
<1>2. CASE Drops(r)
  BY <1>2, DropsWhat, DropMakes, OwnedTyped
<1>3. CASE Checks!Claim(r)
  BY <1>3, ClaimMakes
<1>4. CASE Checks!Publish(r)
  <2>1. pc[r] \in Checks!Owning
    BY <1>4 DEF Checks!Publish, Checks!Owning
  <2> QED
    BY <1>4, <2>1, PublishMakes, OwnedTyped
<1> QED
  BY <1>1, <1>2, <1>3, <1>4, StepKinds

\* A reader touches no check but the one of its own round.
LEMMA ChecksApart ==
  ASSUME ChecksInv, NEW r \in Readers, ReaderStep(r), NEW j \in Checks!Ids, j # <<r, round[r]>>
  PROVE  check'[j] = check[j]
<1>1. CASE Quiet(r) \/ Checks!Join(r)
  BY <1>1, QuietKeeps DEF Checks!Join
<1>2. CASE Drops(r)
  BY <1>2, DropsWhat, DropMakes, OwnedTyped
<1>3. CASE Checks!Claim(r)
  BY <1>3, ClaimMakes
<1>4. CASE Checks!Publish(r)
  <2>1. pc[r] \in Checks!Owning
    BY <1>4 DEF Checks!Publish, Checks!Owning
  <2> QED
    BY <1>4, <2>1, PublishMakes, OwnedTyped
<1> QED
  BY <1>1, <1>2, <1>3, <1>4, StepKinds

LEMMA RoundsGoOn ==
  ASSUME ChecksInv, NEW r \in Readers, ReaderStep(r)
  PROVE  /\ \A n \in 1 .. Tries : Claimed(r, n) => Claimed(r, n)'
         /\ pc'[r] \in Looking => round'[r] <= Tries
<1> USE DEF Checks!Go, Looking, Checks!Owning
<1>1. ReaderTypes /\ round[r] \in Nat
  BY ChecksFold, ChecksTypes, ChecksAssumption DEF ChecksInv
<1>2. pc[r] \in Looking => round[r] <= Tries
  BY DEF ChecksInv, Rounds
<1>3. CASE Quiet(r)
  BY <1>1, <1>2, <1>3 DEF ReaderTypes, Claimed, Quiet, Checks!Call, Checks!Cancel, Checks!Fail,
       Checks!Look, Checks!HashBegin, Checks!HashEnd, Checks!Hang, Checks!WaitStopped, Checks!Wake,
       Checks!Confirm, Checks!Recheck
<1>4. CASE Drops(r)
  BY <1>1, <1>2, <1>4, DropsWhat DEF ReaderTypes, Claimed
<1>5. CASE Checks!Join(r) \/ Checks!Claim(r) \/ Checks!Publish(r)
  BY <1>1, <1>2, <1>5 DEF ReaderTypes, Claimed, Checks!Join, Checks!Claim, Checks!Publish
<1> QED
  BY <1>3, <1>4, <1>5, StepKinds

LEMMA RoundsStep == ASSUME ChecksInv, NEW r \in Readers, ReaderStep(r) PROVE Rounds'
<1>1. \A s \in Readers : pc'[s] \in Looking => round'[s] <= Tries
  BY RoundsGoOn, OthersStay DEF ChecksInv, Rounds
<1>2. ASSUME NEW s \in Readers, NEW n \in 1 .. Tries, check'[<<s, n>>].outcome # "unused"
      PROVE  Claimed(s, n)'
  <2>0. <<s, n>> \in Checks!Ids
    BY DEF Checks!Ids
  <2>1. CASE s # r
    <3>1. check[<<s, n>>].outcome # "unused"
      BY <1>2, <2>0, <2>1, ChecksApart
    <3>2. Claimed(s, n)
      BY <3>1 DEF ChecksInv, Rounds
    <3> QED
      BY <2>1, <3>2, OthersStay DEF Claimed
  <2>2. CASE s = r /\ Claimed(r, n)
    BY <2>2, RoundsGoOn
  <2>3. CASE s = r /\ ~Claimed(r, n)
    <3>1. check[<<r, n>>].outcome = "unused"
      BY <2>3 DEF ChecksInv, Rounds
    <3>2. n = round[r]
      BY <1>2, <2>0, <2>3, <3>1, ChecksApart
    <3>3. pc[r] \notin Checks!Owning
      BY <2>3, <3>2 DEF Claimed
    <3>4. Checks!Claim(r)
      <4>1. ~Quiet(r) /\ ~Checks!Join(r)
        BY <1>2, <2>3, <3>1, QuietKeeps DEF Checks!Join
      <4>2. ~Drops(r) /\ ~Checks!Publish(r)
        BY <3>3, DropsWhat DEF Checks!Publish, Checks!Owning
      <4> QED
        BY <4>1, <4>2, StepKinds
    <3>5. pc'[r] = "hash" /\ round'[r] = round[r]
      BY <3>4, ChecksFold DEF ChecksInv, ReaderTypes, Checks!Claim, Checks!Go
    <3> QED
      BY <2>3, <3>2, <3>5 DEF Claimed, Checks!Owning
  <2> QED
    BY <2>1, <2>2, <2>3
<1> QED
  BY <1>1, <1>2 DEF Rounds

\* What the cache holds for a path afterwards.
LEMMA CachedStep ==
  ASSUME ChecksInv, NEW r \in Readers, ReaderStep(r), NEW p \in Paths
  PROVE  \/ cached'[p] \in {cached[p], Nobody}
         \/ Checks!Claim(r) /\ p = path[r] /\ cached'[p] = <<r, round[r]>>
<1>1. CASE Quiet(r) \/ Checks!Join(r) \/ Checks!Publish(r)
  BY <1>1, QuietKeeps DEF Checks!Join, Checks!Publish
<1>2. CASE Drops(r)
  BY <1>2, DropsWhat, KeyedIs DEF Checks!DropClaim
<1>3. CASE Checks!Claim(r)
  BY <1>3 DEF Checks!Claim
<1> QED
  BY <1>1, <1>2, <1>3, StepKinds

LEMMA HeldStep == ASSUME ChecksInv, NEW r \in Readers, ReaderStep(r) PROVE Held'
<1> SUFFICES ASSUME NEW p \in Paths, cached'[p] # Nobody
             PROVE  check'[cached'[p]].outcome # "unused" /\ path'[cached'[p][1]] = p
  BY DEF Held
<1>1. CASE cached'[p] = cached[p]
  <2>1. cached[p] \in Checks!Ids
    BY <1>1, KeyedIs
  <2> QED
    BY <1>1, <2>1, ChecksLast, WorldStays DEF ChecksInv, Held
<1>2. CASE Checks!Claim(r) /\ p = path[r] /\ cached'[p] = <<r, round[r]>>
  BY <1>2, ClaimMakes, WorldStays
<1> QED
  BY <1>1, <1>2, CachedStep

LEMMA OwnedOthers ==
  ASSUME ChecksInv, NEW r \in Readers, ReaderStep(r), NEW s \in Readers, s # r, pc[s] \in Checks!Owning
  PROVE  cached'[path[s]] = mine[s] \/ mine[s] \in evicted'
<1>1. mine[s] = <<s, round[s]>> /\ mine[s] \in Checks!Ids /\ path[s] \in Paths /\ mine[s] # Nobody
  BY OwnedTyped, ChecksTypes, ChecksAssumption DEF ChecksInv, Checks!Ids
<1>2. CASE mine[s] \in evicted
  BY <1>2, WorldStays
<1>3. CASE cached[path[s]] = mine[s]
  <2>1. CASE Quiet(r) \/ Checks!Join(r) \/ Checks!Publish(r)
    BY <1>3, <2>1, QuietKeeps DEF Checks!Join, Checks!Publish
  <2>2. CASE Drops(r)
    <3>1. mine[r] # mine[s]
      BY <1>1, <2>2, DropsWhat, OwnedTyped
    <3> QED
      BY <1>1, <1>3, <2>2, <3>1, DropsWhat, KeyedIs DEF Checks!DropClaim
  <2>3. CASE Checks!Claim(r)
    <3>1. CASE path[s] = path[r]
      <4>1. ~Checks!Reusable(r) /\ check[mine[s]].outcome = "pending"
        BY <2>3, OwnedTyped DEF Checks!Claim
      <4>2. check[cached[path[r]]].version # version[r]
        BY <1>1, <1>3, <3>1, <4>1 DEF Checks!Reusable
      <4> QED
        BY <1>1, <1>3, <2>3, <3>1, <4>2 DEF Checks!Claim
    <3>2. CASE path[s] # path[r]
      BY <1>1, <1>3, <2>3, <3>2 DEF Checks!Claim
    <3> QED
      BY <3>1, <3>2
  <2> QED
    BY <2>1, <2>2, <2>3, StepKinds
<1> QED
  BY <1>2, <1>3 DEF ChecksInv, Owned

LEMMA OwnedStep == ASSUME ChecksInv, NEW r \in Readers, ReaderStep(r) PROVE Owned'
<1>1. ASSUME NEW s \in Readers, s # r, pc'[s] \in Checks!Owning
      PROVE  /\ mine'[s] = <<s, round'[s]>>
             /\ check'[mine'[s]].outcome = "pending" /\ check'[mine'[s]].version = version'[s]
             /\ cached'[path'[s]] = mine'[s] \/ mine'[s] \in evicted'
  <2>1. pc[s] \in Checks!Owning
    BY <1>1, OthersStay
  <2>2. /\ mine[s] = <<s, round[s]>> /\ mine[s] \in Checks!Ids
        /\ check[mine[s]].outcome = "pending" /\ check[mine[s]].version = version[s]
    BY <2>1, OwnedTyped
  <2>3. check'[mine[s]] = check[mine[s]]
    BY <1>1, <2>2, ChecksApart
  <2> QED
    BY <1>1, <2>1, <2>2, <2>3, OthersStay, OwnedOthers, WorldStays
<1>2. ASSUME pc'[r] \in Checks!Owning
      PROVE  /\ mine'[r] = <<r, round'[r]>>
             /\ check'[mine'[r]].outcome = "pending" /\ check'[mine'[r]].version = version'[r]
             /\ cached'[path'[r]] = mine'[r] \/ mine'[r] \in evicted'
  <2>1. ReaderTypes
    BY ChecksFold DEF ChecksInv
  <2>2. CASE Quiet(r)
    <3>1. pc[r] \in Checks!Owning /\ UNCHANGED <<mine, round, version>>
      BY <1>2, <2>1, <2>2 DEF ReaderTypes, Quiet, Checks!Call, Checks!Cancel, Checks!Fail, Checks!Look,
           Checks!HashBegin, Checks!HashEnd, Checks!Hang, Checks!WaitStopped, Checks!Wake,
           Checks!Confirm, Checks!Recheck, Checks!Go, Checks!Owning
    <3> QED
      BY <2>2, <3>1, QuietKeeps DEF ChecksInv, Owned
  <2>3. CASE Checks!Claim(r)
    <3>1. mine'[r] = <<r, round[r]>> /\ UNCHANGED <<round, version, path>>
      BY <2>1, <2>3 DEF ReaderTypes, Checks!Claim, Checks!reader
    <3>2. cached'[path[r]] = <<r, round[r]>>
      BY <2>1, <2>3 DEF ReaderTypes, Checks!Claim
    <3> QED
      BY <2>3, <3>1, <3>2, ClaimMakes
  <2>4. CASE Drops(r)
    BY <1>2, <2>1, <2>4, DropsWhat DEF ReaderTypes, Checks!Owning
  <2>5. CASE Checks!Join(r) \/ Checks!Publish(r)
    BY <1>2, <2>1, <2>5 DEF ReaderTypes, Checks!Owning, Checks!Join, Checks!Publish, Checks!Go
  <2> QED
    BY <2>2, <2>3, <2>4, <2>5, StepKinds
<1> QED
  BY <1>1, <1>2 DEF Owned

LEMMA JoinedStep == ASSUME ChecksInv, NEW r \in Readers, ReaderStep(r) PROVE Joined'
<1> USE DEF Checks!Go
<1>0. ReaderTypes
  BY ChecksFold DEF ChecksInv
<1> SUFFICES ASSUME NEW s \in Readers, pc'[s] \in {"wait", "confirm"}
             PROVE  /\ mine'[s] \in Checks!Ids
                    /\ check'[mine'[s]].outcome # "unused"
                    /\ check'[mine'[s]].version = version'[s]
                    /\ path'[mine'[s][1]] = path'[s]
                    /\ pc'[s] = "confirm" => digest'[s] = <<version'[s], version'[s]>>
  BY DEF Joined
<1>1. CASE s # r \/ Checks!Cancel(r)
  <2>1. pc'[s] = pc[s] /\ version'[s] = version[s] /\ digest'[s] = digest[s] /\ mine'[s] = mine[s]
    BY <1>0, <1>1, OthersStay DEF ReaderTypes, Checks!Cancel
  <2>2. /\ mine[s] \in Checks!Ids
        /\ check[mine[s]].outcome # "unused" /\ check[mine[s]].version = version[s]
        /\ path[mine[s][1]] = path[s]
        /\ pc[s] = "confirm" => digest[s] = <<version[s], version[s]>>
    BY <2>1 DEF ChecksInv, Joined
  <2> QED
    BY <2>1, <2>2, ChecksLast, WorldStays
<1>2. CASE s = r /\ Checks!Join(r)
  <2>1. /\ cached[path[r]] # Nobody /\ path[r] \in Paths
        /\ check[cached[path[r]]].version = version[r]
        /\ mine'[r] = cached[path[r]] /\ pc'[r] = "wait"
        /\ UNCHANGED <<check, path, version>>
    BY <1>0, <1>2 DEF ReaderTypes, Checks!Join, Checks!Reusable, Checks!reader
  <2>2. cached[path[r]] \in Checks!Ids
    BY <2>1, KeyedIs
  <2> QED
    BY <1>2, <2>1, <2>2 DEF ChecksInv, Held
<1>3. CASE s = r /\ Checks!Wake(r)
  <2>1. /\ mine[r] \in Checks!Ids
        /\ check[mine[r]].outcome # "unused" /\ check[mine[r]].version = version[r]
        /\ path[mine[r][1]] = path[r]
    BY <1>3 DEF ChecksInv, Joined, Checks!Wake
  <2>2. /\ check[mine[r]].outcome \in {"ready", "aged"}
        /\ digest'[r] = check[mine[r]].digest
        /\ UNCHANGED <<mine, check, version, path>>
    BY <1>0, <1>3 DEF ReaderTypes, Checks!Wake, Checks!reader
  <2>3. check[mine[r]].digest = <<version[r], version[r]>>
    BY <2>1, <2>2 DEF ChecksInv, Ready
  <2> QED
    BY <1>3, <2>1, <2>2, <2>3
<1>4. ASSUME s = r, ~Checks!Cancel(r), ~Checks!Join(r), ~Checks!Wake(r) PROVE FALSE
  <2>1. CASE Checks!Call(r) \/ Checks!Fail(r) \/ Checks!Look(r) \/ Checks!HashBegin(r)
             \/ Checks!HashEnd(r) \/ Checks!Hang(r) \/ Checks!WaitStopped(r)
    BY <1>0, <1>4, <2>1
       DEF ReaderTypes, Checks!Call, Checks!Fail, Checks!Look, Checks!HashBegin,
           Checks!HashEnd, Checks!Hang, Checks!WaitStopped
  <2>2. CASE Checks!Confirm(r)
    BY <1>0, <1>4, <2>2 DEF ReaderTypes, Checks!Confirm
  <2>3. CASE Checks!Recheck(r) /\ file[path[r]] = version[r]
    BY <1>0, <1>4, <2>3 DEF ReaderTypes, Checks!Recheck
  <2>4. CASE Checks!Claim(r) \/ Checks!Publish(r)
    BY <1>0, <1>4, <2>4 DEF ReaderTypes, Checks!Claim, Checks!Publish
  <2>5. CASE Drops(r)
    BY <1>0, <1>4, <2>5, DropsWhat DEF ReaderTypes
  <2> QED
    BY <1>4, <2>1, <2>2, <2>3, <2>4, <2>5, StepKinds DEF Quiet
<1> QED
  BY <1>1, <1>2, <1>3, <1>4

LEMMA SeenStep == ASSUME ChecksInv, NEW r \in Readers, ReaderStep(r) PROVE Seen'
<1> USE DEF Checks!Go, Looking, Checks!Owning
<1>0. /\ ReaderTypes /\ UNCHANGED <<file, path>>
      /\ version[r] \in Nat /\ file[path[r]] \in Nat /\ since[r] \in Nat
      /\ file[path[r]] \in Checks!Contents
      /\ digest[r] \in Checks!Contents \X Checks!Contents /\ digest[r][1] \in Nat /\ digest[r][2] \in Nat
  BY ChecksFold, ChecksTypes, WorldStays DEF ChecksInv, Checks!Digests
<1>1. ASSUME NEW s \in Readers, s # r
      PROVE  /\ since'[s] <= file'[path'[s]]
             /\ pc'[s] \in Looking => since'[s] <= version'[s] /\ version'[s] <= file'[path'[s]]
             /\ pc'[s] \in {"hashing", "hung", "recheck"} =>
                  /\ version'[s] <= digest'[s][1] /\ digest'[s][1] <= digest'[s][2]
                  /\ digest'[s][2] <= file'[path'[s]]
             /\ pc'[s] = "publish" => digest'[s] = <<version'[s], version'[s]>>
  BY <1>0, <1>1, OthersStay DEF ChecksInv, Seen
<1> SUFFICES /\ since'[r] <= file[path[r]]
             /\ pc'[r] \in Looking => since'[r] <= version'[r] /\ version'[r] <= file[path[r]]
             /\ pc'[r] \in {"hashing", "hung", "recheck"} =>
                  /\ version'[r] <= digest'[r][1] /\ digest'[r][1] <= digest'[r][2]
                  /\ digest'[r][2] <= file[path[r]]
             /\ pc'[r] = "publish" => digest'[r] = <<version'[r], version'[r]>>
  BY <1>0, <1>1 DEF Seen
<1>2. /\ since[r] <= file[path[r]]
      /\ pc[r] \in Looking => since[r] <= version[r] /\ version[r] <= file[path[r]]
      /\ pc[r] \in {"hashing", "hung", "recheck"} =>
           version[r] <= digest[r][1] /\ digest[r][1] <= digest[r][2] /\ digest[r][2] <= file[path[r]]
      /\ pc[r] = "publish" => digest[r] = <<version[r], version[r]>>
  BY DEF ChecksInv, Seen
<1>3. CASE Checks!Call(r) \/ Checks!Cancel(r) \/ Checks!Fail(r) \/ Checks!Look(r) \/ Checks!Hang(r)
           \/ Checks!WaitStopped(r) \/ Checks!Confirm(r)
  <2>1. CASE Checks!Call(r) \/ Checks!Cancel(r) \/ Checks!Fail(r)
    BY <1>0, <1>2, <2>1 DEF ReaderTypes, Checks!Call, Checks!Cancel, Checks!Fail, Checks!reader
  <2>2. CASE Checks!Look(r) \/ Checks!Hang(r)
    BY <1>0, <1>2, <2>2 DEF ReaderTypes, Checks!Look, Checks!Hang, Checks!reader
  <2>3. CASE Checks!WaitStopped(r) \/ Checks!Confirm(r)
    BY <1>0, <1>2, <2>3 DEF ReaderTypes, Checks!WaitStopped, Checks!Confirm, Checks!reader
  <2> QED
    BY <1>3, <2>1, <2>2, <2>3
<1>4. CASE Checks!HashBegin(r)
  <2>1. /\ digest'[r][1] = file[path[r]] /\ digest'[r][2] = file[path[r]] /\ pc'[r] = "hashing"
        /\ pc[r] = "hash" /\ UNCHANGED <<version, since>>
    BY <1>0, <1>4 DEF ReaderTypes, Checks!HashBegin, Checks!reader
  <2> QED
    BY <1>0, <1>2, <2>1
<1>5. CASE Checks!HashEnd(r)
  <2>1. /\ pc'[r] = "recheck" /\ pc[r] = "hashing" /\ UNCHANGED <<version, since>>
        /\ digest' = [digest EXCEPT ![r] = [digest[r] EXCEPT ![2] = file[path[r]]]]
    BY <1>0, <1>5 DEF ReaderTypes, Checks!HashEnd, Checks!reader
  <2>2. digest'[r] = [digest[r] EXCEPT ![2] = file[path[r]]]
    BY <1>0, <2>1 DEF ReaderTypes
  <2>3. digest'[r][1] = digest[r][1] /\ digest'[r][2] = file[path[r]]
    BY <1>0, <2>2
  <2> QED
    BY <1>0, <1>2, <2>1, <2>3
<1>6. CASE Checks!Wake(r)
  BY <1>0, <1>2, <1>6 DEF ReaderTypes, Checks!Wake, Checks!reader
<1>7. CASE Checks!Recheck(r) /\ file[path[r]] = version[r]
  <2>1. /\ pc'[r] = "publish" /\ pc[r] = "recheck" /\ UNCHANGED <<version, since, digest>>
    BY <1>0, <1>7 DEF ReaderTypes, Checks!Recheck, Checks!reader
  <2>2. digest[r][1] = version[r] /\ digest[r][2] = version[r]
    BY <1>0, <1>2, <1>7, <2>1
  <2>3. digest[r] = <<version[r], version[r]>>
    BY <1>0, <2>2
  <2> QED
    BY <1>0, <1>2, <2>1, <2>3
<1>8. CASE Drops(r)
  BY <1>0, <1>2, <1>8, DropsWhat DEF ReaderTypes
<1>9. CASE Checks!Join(r) \/ Checks!Claim(r) \/ Checks!Publish(r)
  BY <1>0, <1>2, <1>9 DEF ReaderTypes, Checks!Join, Checks!Claim, Checks!Publish, Checks!reader
<1> QED
  BY <1>3, <1>4, <1>5, <1>6, <1>7, <1>8, <1>9, StepKinds DEF Quiet

LEMMA ReadyStep == ASSUME ChecksInv, NEW r \in Readers, ReaderStep(r) PROVE Ready'
<1> SUFFICES ASSUME NEW j \in Checks!Ids, check'[j].outcome \in {"ready", "aged"}
             PROVE  check'[j].digest = <<check'[j].version, check'[j].version>>
  BY DEF Ready
<1>1. CASE check'[j] = check[j]
  BY <1>1 DEF ChecksInv, Ready
<1>2. CASE check'[j] # check[j]
  <2>1. ~Quiet(r) /\ ~Checks!Join(r)
    BY <1>2, QuietKeeps DEF Checks!Join
  <2>2. ~Drops(r)
    BY <1>2, DropsWhat, DropMakes
  <2>3. ~Checks!Claim(r)
    BY <1>2, ClaimMakes
  <2>4. Checks!Publish(r)
    BY <2>1, <2>2, <2>3, StepKinds
  <2>5. digest[r] = <<version[r], version[r]>>
    BY <2>4 DEF ChecksInv, Seen, Checks!Publish
  <2> QED
    BY <1>2, <2>4, <2>5, PublishMakes
<1> QED
  BY <1>1, <1>2

LEMMA DigestStep ==
  ASSUME ChecksInv, NEW r \in Readers, ReaderStep(r) PROVE Checks!DigestOfTheCall'
<1> USE DEF Checks!Go
<1>0. ReaderTypes /\ UNCHANGED <<file, path>>
  BY ChecksFold, WorldStays DEF ChecksInv
<1> SUFFICES ASSUME NEW s \in Readers, pc'[s] = "done"
             PROVE  /\ digest'[s][1] = digest'[s][2] /\ since'[s] <= digest'[s][1]
                    /\ digest'[s][1] <= file'[path'[s]]
  BY DEF Checks!DigestOfTheCall
<1>1. CASE s # r
  BY <1>0, <1>1, OthersStay DEF ChecksInv, Checks!DigestOfTheCall
<1>2. CASE s = r /\ (Checks!Publish(r) \/ Checks!Confirm(r))
  <2>1. /\ digest'[r] = digest[r] /\ since'[r] = since[r]
        /\ pc[r] \in {"publish", "confirm"} /\ pc[r] \in Looking
    BY <1>2 DEF Checks!Publish, Checks!Confirm, Checks!reader, Looking, Checks!Owning
  <2>2. digest[r] = <<version[r], version[r]>>
    BY <2>1 DEF ChecksInv, Seen, Joined
  <2>3. since[r] <= version[r] /\ version[r] <= file[path[r]]
    BY <2>1 DEF ChecksInv, Seen
  <2> QED
    BY <1>0, <1>2, <2>1, <2>2, <2>3
<1>3. ASSUME s = r, ~Checks!Publish(r), ~Checks!Confirm(r) PROVE FALSE
  <2>1. CASE Checks!Call(r) \/ Checks!Fail(r) \/ Checks!Look(r) \/ Checks!HashBegin(r)
             \/ Checks!HashEnd(r) \/ Checks!Hang(r) \/ Checks!WaitStopped(r)
    BY <1>0, <1>3, <2>1
       DEF ReaderTypes, Checks!Call, Checks!Fail, Checks!Look, Checks!HashBegin,
           Checks!HashEnd, Checks!Hang, Checks!WaitStopped
  <2>2. CASE Checks!Cancel(r)
    BY <1>0, <1>3, <2>2 DEF ReaderTypes, Checks!Cancel
  <2>3. CASE Checks!Recheck(r) /\ file[path[r]] = version[r]
    BY <1>0, <1>3, <2>3 DEF ReaderTypes, Checks!Recheck
  <2>4. CASE Checks!Claim(r) \/ Checks!Join(r) \/ Checks!Wake(r)
    BY <1>0, <1>3, <2>4 DEF ReaderTypes, Checks!Claim, Checks!Join, Checks!Wake
  <2>5. CASE Drops(r)
    BY <1>0, <1>3, <2>5, DropsWhat DEF ReaderTypes
  <2> QED
    BY <1>3, <2>1, <2>2, <2>3, <2>4, <2>5, StepKinds DEF Quiet
<1> QED
  BY <1>1, <1>2, <1>3

LEMMA ReaderKeeps == ASSUME ChecksInv, NEW r \in Readers, ReaderStep(r) PROVE ChecksInv'
<1>1. CacheTypes' /\ ReaderTypes'
  BY CacheTyped, ReaderTyped
<1> QED
  BY <1>1, ChecksFoldNext, RoundsStep, HeldStep, OwnedStep, JoinedStep, SeenStep, ReadyStep, DigestStep
     DEF ChecksInv

LEMMA ChangeKeeps == ASSUME ChecksInv, NEW p \in Paths, Checks!Change(p) PROVE ChecksInv'
<1>1. /\ UNCHANGED <<cached, recent, check, evicted, pc, path, version, digest, mine, round, stopped, since>>
      /\ file[p] \in Nat /\ file[p] < Changes /\ file' = [file EXCEPT ![p] = file[p] + 1]
      /\ file \in [Paths -> Checks!Contents]
  BY ChecksAssumption DEF ChecksInv, Checks!TypeOK, Checks!Contents, Checks!Change, Checks!reader
<1>2. file' \in [Paths -> Checks!Contents]
  BY <1>1, ChecksAssumption DEF Checks!Contents
<1>3. \A q \in Paths : file[q] \in Nat /\ file'[q] \in Nat /\ file[q] <= file'[q]
  BY <1>1, ChecksAssumption DEF Checks!Contents
<1>4. Checks!TypeOK' /\ Distinct' /\ Rounds' /\ Held' /\ Owned' /\ Joined' /\ Ready'
  BY <1>1, <1>2 DEF ChecksInv, Checks!TypeOK, Distinct, Rounds, Claimed, Held, Owned, Joined, Ready
<1>5. \A r \in Readers : /\ path[r] \in Paths
                         /\ version[r] \in Nat /\ since[r] \in Nat
                         /\ digest[r][1] \in Nat /\ digest[r][2] \in Nat
  BY ChecksTypes, ChecksAssumption DEF ChecksInv, Checks!Digests, Checks!Contents
<1>6. Seen'
  <2> SUFFICES ASSUME NEW r \in Readers
               PROVE  /\ since'[r] <= file'[path'[r]]
                      /\ pc'[r] \in Looking => since'[r] <= version'[r] /\ version'[r] <= file'[path'[r]]
                      /\ pc'[r] \in {"hashing", "hung", "recheck"} =>
                           /\ version'[r] <= digest'[r][1] /\ digest'[r][1] <= digest'[r][2]
                           /\ digest'[r][2] <= file'[path'[r]]
                      /\ pc'[r] = "publish" => digest'[r] = <<version'[r], version'[r]>>
    BY DEF Seen
  <2> QED
    BY <1>1, <1>3, <1>5 DEF ChecksInv, Seen
<1>7. Checks!DigestOfTheCall'
  BY <1>1, <1>3, <1>5 DEF ChecksInv, Checks!DigestOfTheCall
<1> QED
  BY <1>4, <1>6, <1>7 DEF ChecksInv

LEMMA AgeKeeps == ASSUME ChecksInv, NEW i \in Checks!Ids, Checks!Age(i) PROVE ChecksInv'
<1>1. UNCHANGED <<file, cached, recent, evicted, pc, path, version, digest, mine, round, stopped, since>>
  BY DEF Checks!Age, Checks!reader
<1>2. /\ check' \in [Checks!Ids -> CheckRecords]
      /\ check[i].outcome = "ready" /\ check'[i].outcome = "aged"
      /\ check'[i].version = check[i].version /\ check'[i].digest = check[i].digest
      /\ \A j \in Checks!Ids : j # i => check'[j] = check[j]
  BY AgeMakes
<1>3. \A j \in Checks!Ids : /\ check'[j].outcome = "unused" <=> check[j].outcome = "unused"
                            /\ check'[j].outcome = "pending" <=> check[j].outcome = "pending"
                            /\ check'[j].outcome \in {"ready", "aged"} <=> check[j].outcome \in {"ready", "aged"}
                            /\ check'[j].version = check[j].version
                            /\ check'[j].digest = check[j].digest
  BY <1>2
<1>4. Checks!TypeOK' /\ Distinct'
  BY <1>1, <1>2, ChecksFold, ChecksFoldNext
     DEF ChecksInv, CacheTypes, ReaderTypes, Keyed, Once, Among
<1>5. Rounds'
  <2>1. \A r \in Readers, n \in 1 .. Tries : <<r, n>> \in Checks!Ids
    BY DEF Checks!Ids
  <2> QED
    BY <1>1, <1>3, <2>1 DEF ChecksInv, Rounds, Claimed
<1>6. Held'
  BY <1>1, <1>3, KeyedIs DEF ChecksInv, Held
<1>7. Owned'
  BY <1>1, <1>3, OwnedTyped DEF ChecksInv, Owned
<1>8. Joined' /\ Ready'
  BY <1>1, <1>3 DEF ChecksInv, Joined, Ready
<1>9. Seen' /\ Checks!DigestOfTheCall'
  BY <1>1 DEF ChecksInv, Seen, Checks!DigestOfTheCall
<1> QED
  BY <1>4, <1>5, <1>6, <1>7, <1>8, <1>9 DEF ChecksInv

LEMMA ChecksInit == Checks!Init => ChecksInv
<1> SUFFICES ASSUME Checks!Init PROVE ChecksInv
  OBVIOUS
<1> USE ChecksAssumption DEF Checks!Init
<1>1. 0 \in Checks!Contents /\ <<0, 0>> \in Checks!Digests /\ 1 \in 1 .. Tries + 1
  BY DEF Checks!Contents, Checks!Digests
<1>2. Checks!TypeOK
  <2>1. check \in [Checks!Ids -> CheckRecords]
    BY <1>1 DEF CheckRecords, Checks!Outcomes
  <2> QED
    BY <1>1, <2>1 DEF Checks!TypeOK, CheckRecords
<1>3. Distinct /\ Held /\ Owned /\ Joined /\ Ready /\ Checks!DigestOfTheCall
  BY DEF Distinct, Held, Owned, Joined, Ready, Checks!DigestOfTheCall, Checks!Owning
<1>4. Rounds
  BY DEF Rounds, Looking, Checks!Owning, Checks!Ids
<1>5. Seen
  BY DEF Seen, Looking, Checks!Owning
<1> QED
  BY <1>2, <1>3, <1>4, <1>5 DEF ChecksInv

LEMMA ChecksNext == ChecksInv /\ Checks!Next => ChecksInv'
BY ReaderKeeps, ChangeKeeps, AgeKeeps DEF Checks!Next, ReaderStep

LEMMA ChecksStays == ChecksInv /\ UNCHANGED checksVars => ChecksInv'
<1> SUFFICES ASSUME ChecksInv, UNCHANGED checksVars PROVE ChecksInv'
  OBVIOUS
<1>1. Checks!TypeOK' /\ Distinct'
  BY DEF checksVars, ChecksInv, Checks!TypeOK, Distinct
<1>2. Rounds' /\ Held' /\ Owned' /\ Joined' /\ Ready'
  BY DEF checksVars, ChecksInv, Rounds, Claimed, Held, Owned, Joined, Ready
<1>3. Seen' /\ Checks!DigestOfTheCall'
  BY DEF checksVars, ChecksInv, Seen, Checks!DigestOfTheCall
<1> QED
  BY <1>1, <1>2, <1>3 DEF ChecksInv

\* Two owners of one version: the cache holds at most one of their checks.
LEMMA ChecksHolds == ChecksInv => Checks!DigestOfTheCall /\ Checks!SharedOnce
<1> SUFFICES ASSUME ChecksInv, NEW r \in Readers, NEW s \in Readers, r # s,
                    pc[r] \in Checks!Owning, pc[s] \in Checks!Owning, path[r] = path[s]
             PROVE  mine[r] \in evicted \/ mine[s] \in evicted
  BY DEF ChecksInv, Checks!SharedOnce
<1>1. mine[r] # mine[s]
  BY OwnedTyped
<1> QED
  BY <1>1 DEF ChecksInv, Owned

-----------------------------------------------------------------------------
(* The scheduler's record (SchedulePersist).                               *)

Carrying == {"write", "store", "hung"}
Writing == Carrying \union {"take", "release"}

\* Who took the flag and has not given it back.
Has(r) == at[r] = "begun" \/ th[r] \in Writing

OneHolder ==
  /\ \A r \in Requests : Has(r) => persisting
  /\ \A q, r \in Requests : Has(q) /\ Has(r) => q = r
  /\ \A r \in Requests : at[r] # "returned" => th[r] = "none"

\* What waits, what a writer took and what it will store has been noted, and what
\* is stored or about to be stored is not older than what anyone was told.
Carried ==
  /\ waiting \subseteq mem
  /\ \A t \in Requests : batch[t] \subseteq mem /\ text[t] \subseteq mem
  /\ \A t \in Requests : th[t] = "store" => batch[t] \subseteq text[t] /\ disk \subseteq text[t]
  /\ \A r \in Requests : at[r] = "noted" => r \in mem

\* Nobody who pushed is lost.
Followed ==
  /\ \A t \in Requests : batch[t] # {} => th[t] \in Carrying
  /\ \A r \in Requests :
       at[r] \in {"running", "noted"} \/ told[r] # "no" \/ r \in waiting
         \/ \E t \in Requests : r \in batch[t]

\* Shutdown has seen every slot free and no sender of a run's end waiting.
Looked ==
  /\ exit \in {"looked", "down"} => SlotsFree /\ \A r \in RunEnds : r \notin waiting
  /\ exit = "down" => \A r \in RunEnds : told[r] # "no"

RecordInv == TypeOK /\ OneHolder /\ Carried /\ Followed /\ Looked /\ NoSenderForgotten /\ ToldIsStored

LEMMA RecordInit == Init => RecordInv
BY DEF Init, RecordInv, TypeOK, OneHolder, Has, Writing, Carrying, Carried, Followed, Looked,
       NoSenderForgotten, ToldIsStored

LEMMA RecordType == RecordInv /\ [Next]_vars => TypeOK'
<1> SUFFICES ASSUME RecordInv, [Next]_vars PROVE TypeOK'
  OBVIOUS
<1> USE DEF RecordInv, TypeOK, Go, Tell, Answer
<1>1. ASSUME NEW r \in Requests, Call(r) PROVE TypeOK'
  <2>1. CASE Clear(r)
    BY <2>1 DEF Clear
  <2>2. CASE Note(r) \/ Push(r)
    BY <2>2 DEF Note, Push
  <2>3. CASE Begin(r)
    <3>1. at' \in [Requests -> {"running", "noted", "pushed", "begun", "clear", "returned"}]
      BY <2>3 DEF Begin
    <3> QED
      BY <2>3, <3>1 DEF Begin
  <2>4. CASE Spawn(r)
    BY <2>4 DEF Spawn
  <2>5. CASE SpawnFails(r)
    BY <2>5 DEF SpawnFails
  <2> QED
    BY <1>1, <2>1, <2>2, <2>3, <2>4, <2>5 DEF Call
<1>2. ASSUME NEW t \in Requests, Light(t) PROVE TypeOK'
  BY <1>2 DEF Light, Take, Release, Look, Again
<1>3. ASSUME NEW t \in Requests, Serialize(t) \/ Hang(t) PROVE TypeOK'
  BY <1>3 DEF Serialize, Hang
<1>4. ASSUME NEW t \in Requests, Store(t) PROVE TypeOK'
  BY <1>4 DEF Store, Carried
<1>5. ASSUME NEW t \in Requests, WriteFails(t) PROVE TypeOK'
  BY <1>5 DEF WriteFails
<1>6. CASE Stop \/ Shutdown
  BY <1>6 DEF Stop, Shutdown, NoneWaits, NobodyWrites, CutShort
<1>7. CASE UNCHANGED vars
  BY <1>7 DEF vars
<1> QED
  BY <1>1, <1>2, <1>3, <1>4, <1>5, <1>6, <1>7 DEF Next, Heavy

LEMMA RecordOneHolder == RecordInv /\ [Next]_vars => OneHolder'
<1> SUFFICES ASSUME RecordInv, [Next]_vars PROVE OneHolder'
  OBVIOUS
<1> USE DEF RecordInv, TypeOK, OneHolder, Has, Writing, Carrying, Go, Answer
<1>1. ASSUME NEW r \in Requests, Note(r) \/ Push(r) \/ Clear(r) PROVE OneHolder'
  BY <1>1 DEF Note, Push, Clear
<1>2. ASSUME NEW r \in Requests, Begin(r) PROVE OneHolder'
  BY <1>2 DEF Begin
<1>3. ASSUME NEW r \in Requests, Spawn(r) PROVE OneHolder'
  BY <1>3 DEF Spawn
<1>4. ASSUME NEW r \in Requests, SpawnFails(r) PROVE OneHolder'
  BY <1>4 DEF SpawnFails
<1>5. ASSUME NEW t \in Requests, Take(t) \/ Look(t) PROVE OneHolder'
  BY <1>5 DEF Take, Look
<1>6. ASSUME NEW t \in Requests, Release(t) PROVE OneHolder'
  BY <1>6 DEF Release
<1>7. ASSUME NEW t \in Requests, Again(t) PROVE OneHolder'
  BY <1>7 DEF Again
<1>8. ASSUME NEW t \in Requests, Heavy(t) \/ Hang(t) PROVE OneHolder'
  BY <1>8 DEF Heavy, Serialize, Store, WriteFails, Hang
<1>9. CASE Stop \/ Shutdown
  BY <1>9 DEF Stop, Shutdown, NoneWaits, NobodyWrites, CutShort
<1>10. CASE UNCHANGED vars
  BY <1>10 DEF vars
<1> QED
  BY <1>1, <1>2, <1>3, <1>4, <1>5, <1>6, <1>7, <1>8, <1>9, <1>10 DEF Next, Call, Light

LEMMA RecordCarried == RecordInv /\ [Next]_vars => Carried'
<1> SUFFICES ASSUME RecordInv, [Next]_vars PROVE Carried'
  OBVIOUS
<1> USE DEF RecordInv, TypeOK, Carried, Go, Answer
<1>1. ASSUME NEW r \in Requests, Call(r) PROVE Carried'
  <2>1. CASE Note(r)
    BY <2>1 DEF Note
  <2>2. CASE Spawn(r)
    BY <2>2 DEF Spawn
  <2>3. CASE Push(r) \/ Begin(r) \/ SpawnFails(r) \/ Clear(r)
    BY <2>3 DEF Push, Begin, SpawnFails, Clear
  <2> QED
    BY <1>1, <2>1, <2>2, <2>3 DEF Call
<1>2. ASSUME NEW t \in Requests, Light(t) PROVE Carried'
  BY <1>2 DEF Light, Take, Release, Look, Again
<1>3. ASSUME NEW t \in Requests, Serialize(t) \/ WriteFails(t) \/ Hang(t) PROVE Carried'
  BY <1>3 DEF Serialize, WriteFails, Hang
<1>4. ASSUME NEW t \in Requests, Store(t) PROVE Carried'
  <2>1. \A q \in Requests : th[q] = "store" => q = t
    BY <1>4 DEF Store, OneHolder, Has, Writing, Carrying
  <2> QED
    BY <1>4, <2>1 DEF Store
<1>5. CASE Stop \/ Shutdown
  BY <1>5 DEF Stop, Shutdown, NoneWaits, NobodyWrites, CutShort
<1>6. CASE UNCHANGED vars
  BY <1>6 DEF vars
<1> QED
  BY <1>1, <1>2, <1>3, <1>4, <1>5, <1>6 DEF Next, Heavy

LEMMA RecordFollowed == RecordInv /\ [Next]_vars => Followed'
<1> SUFFICES ASSUME RecordInv, [Next]_vars PROVE Followed'
  OBVIOUS
<1> USE DEF RecordInv, TypeOK, Followed, Carrying, Go, Tell, Answer
<1>1. ASSUME NEW r \in Requests, Note(r) \/ Push(r) \/ Begin(r) \/ SpawnFails(r) \/ Clear(r)
      PROVE  Followed'
  BY <1>1 DEF Note, Push, Begin, SpawnFails, Clear
<1>2. ASSUME NEW r \in Requests, Spawn(r) PROVE Followed'
  BY <1>2 DEF Spawn, OneHolder
<1>3. ASSUME NEW t \in Requests, Take(t) PROVE Followed'
  <2>1. batch[t] = {}
    BY <1>3 DEF Take
  <2>2. \A r \in Requests : r \in waiting => r \in batch'[t]
    BY <1>3 DEF Take
  <2>3. \A r, q \in Requests : r \in batch[q] => r \in batch'[q]
    BY <1>3, <2>1 DEF Take
  <2>4. \A q \in Requests : batch'[q] # {} => th'[q] \in Carrying
    BY <1>3 DEF Take
  <2> QED
    BY <1>3, <2>2, <2>3, <2>4 DEF Take
<1>4. ASSUME NEW t \in Requests, Release(t) \/ Look(t) \/ Again(t) PROVE Followed'
  BY <1>4 DEF Release, Look, Again
<1>5. ASSUME NEW t \in Requests, Serialize(t) \/ Hang(t) PROVE Followed'
  BY <1>5 DEF Serialize, Hang
<1>6. ASSUME NEW t \in Requests, NEW what \in {"written", "failed"},
             Answer(t, what), UNCHANGED <<at, waiting>>
      PROVE  Followed'
  <2>1. \A r \in batch[t] : told'[r] # "no"
    BY <1>6
  <2>2. \A r \in Requests : told[r] # "no" => told'[r] # "no"
    BY <1>6
  <2>3. \A r, q \in Requests : r \in batch[q] => r \in batch[t] \/ r \in batch'[q]
    BY <1>6
  <2>4. \A q \in Requests : batch'[q] # {} => th'[q] \in Carrying
    BY <1>6
  <2> QED
    BY <1>6, <2>1, <2>2, <2>3, <2>4
<1>7. ASSUME NEW t \in Requests, Store(t) \/ WriteFails(t) PROVE Followed'
  BY <1>6, <1>7 DEF Store, WriteFails
<1>8. CASE Stop \/ Shutdown
  BY <1>8 DEF Stop, Shutdown, NoneWaits, NobodyWrites, CutShort
<1>9. CASE UNCHANGED vars
  BY <1>9 DEF vars
<1> QED
  BY <1>1, <1>2, <1>3, <1>4, <1>5, <1>7, <1>8, <1>9 DEF Next, Call, Light, Heavy

LEMMA RecordLooked == RecordInv /\ [Next]_vars => Looked'
<1> SUFFICES ASSUME RecordInv, [Next]_vars PROVE Looked'
  OBVIOUS
<1> USE DEF RecordInv, TypeOK, Looked, SlotsFree, Go, Tell, Answer, Requests
<1>1. ASSUME NEW r \in Requests, Call(r) PROVE Looked'
  BY <1>1 DEF Call, Note, Push, Begin, Spawn, SpawnFails, Clear
<1>2. ASSUME NEW t \in Requests, Light(t) \/ Heavy(t) \/ Hang(t) PROVE Looked'
  BY <1>2 DEF Light, Take, Release, Look, Again, Heavy, Serialize, Store, WriteFails, Hang
<1>3. CASE Stop \/ NoneWaits \/ CutShort
  BY <1>3 DEF Stop, NoneWaits, CutShort
<1>4. CASE NobodyWrites
  <2>1. SUFFICES ASSUME ~persisting, exit = "looked" PROVE \A r \in RunEnds : told[r] # "no"
    BY <1>4 DEF NobodyWrites
  <2>2. \A t \in Requests : batch[t] = {}
    BY <2>1 DEF OneHolder, Has, Writing, Followed
  <2> QED
    BY <2>1, <2>2 DEF Followed
<1>5. CASE UNCHANGED vars
  BY <1>5 DEF vars
<1> QED
  BY <1>1, <1>2, <1>3, <1>4, <1>5 DEF Next, Shutdown

LEMMA RecordNoSenderForgotten == RecordInv /\ [Next]_vars => NoSenderForgotten'
<1> SUFFICES ASSUME RecordInv, [Next]_vars PROVE NoSenderForgotten'
  OBVIOUS
<1> USE DEF RecordInv, TypeOK, NoSenderForgotten, Go, Answer
<1>1. ASSUME NEW r \in Requests, Call(r) PROVE NoSenderForgotten'
  BY <1>1 DEF Call, Note, Push, Begin, Spawn, SpawnFails, Clear, OneHolder
<1>2. ASSUME NEW t \in Requests, Light(t) PROVE NoSenderForgotten'
  BY <1>2 DEF Light, Take, Release, Look, Again
<1>3. ASSUME NEW t \in Requests, Heavy(t) \/ Hang(t) PROVE NoSenderForgotten'
  BY <1>3 DEF Heavy, Serialize, Store, WriteFails, Hang
<1>4. CASE Stop \/ Shutdown
  BY <1>4 DEF Stop, Shutdown, NoneWaits, NobodyWrites, CutShort
<1>5. CASE UNCHANGED vars
  BY <1>5 DEF vars
<1> QED
  BY <1>1, <1>2, <1>3, <1>4, <1>5 DEF Next

LEMMA RecordToldIsStored == RecordInv /\ [Next]_vars => ToldIsStored'
<1> SUFFICES ASSUME RecordInv, [Next]_vars PROVE ToldIsStored'
  OBVIOUS
<1> USE DEF RecordInv, TypeOK, ToldIsStored, Go, Tell, Answer
<1>1. ASSUME NEW r \in Requests, Call(r) PROVE ToldIsStored'
  BY <1>1 DEF Call, Note, Push, Begin, Spawn, SpawnFails, Clear
<1>2. ASSUME NEW t \in Requests, Light(t) \/ Serialize(t) \/ WriteFails(t) \/ Hang(t)
      PROVE  ToldIsStored'
  BY <1>2 DEF Light, Take, Release, Look, Again, Serialize, WriteFails, Hang
<1>3. ASSUME NEW t \in Requests, Store(t) PROVE ToldIsStored'
  <2>1. batch[t] \subseteq text[t] /\ disk \subseteq text[t]
    BY <1>3 DEF Store, Carried
  <2> QED
    BY <1>3, <2>1 DEF Store
<1>4. CASE Stop \/ Shutdown
  BY <1>4 DEF Stop, Shutdown, NoneWaits, NobodyWrites, CutShort
<1>5. CASE UNCHANGED vars
  BY <1>5 DEF vars
<1> QED
  BY <1>1, <1>2, <1>3, <1>4, <1>5 DEF Next, Heavy

LEMMA RecordNext == RecordInv /\ [Next]_vars => RecordInv'
BY RecordType, RecordOneHolder, RecordCarried, RecordFollowed, RecordLooked,
   RecordNoSenderForgotten, RecordToldIsStored DEF RecordInv

\* With all its work done the record rests.
LEMMA RecordRests == RecordDone => RecordInv
BY DEF RecordDone, Requests, RecordInv, TypeOK, OneHolder, Has, Writing, Carrying, Carried, Followed,
       Looked, SlotsFree, NoSenderForgotten, ToldIsStored

LEMMA RecordHolds == RecordInv => RecordKept
BY DEF RecordInv, RecordKept, Looked, ExitAfterRecord

-----------------------------------------------------------------------------
(* The parts together.                                                     *)

mcVars == <<part, vars, ioVars, checksVars, markVars>>

\* What holds of any number of processes.
PartsInv == IoInv /\ ChecksInv /\ RecordInv /\ Mark!TypeOK

LEMMA PartsInit == MCInit => PartsInv
BY IoInit, ChecksInit, RecordInit, RecordRests, MarkInit DEF MCInit, PartsInv, MarkInv

LEMMA PartsNext == PartsInv /\ [MCNext]_mcVars => PartsInv'
<1> SUFFICES ASSUME PartsInv, [MCNext]_mcVars PROVE PartsInv'
  OBVIOUS
<1>1. IoInv'
  <2>1. Io!Next \/ UNCHANGED ioVars
    BY DEF MCNext, mcVars
  <2> QED
    BY <2>1, IoNext, IoStays DEF PartsInv
<1>2. ChecksInv'
  <2>1. Checks!Next \/ UNCHANGED checksVars
    BY DEF MCNext, mcVars
  <2> QED
    BY <2>1, ChecksNext, ChecksStays DEF PartsInv
<1>3. RecordInv'
  <2>1. [Next]_vars
    BY DEF MCNext, mcVars
  <2> QED
    BY <2>1, RecordNext DEF PartsInv
<1>4. Mark!TypeOK'
  <2>1. Mark!Next \/ UNCHANGED markVars
    BY DEF MCNext, mcVars
  <2>2. CASE UNCHANGED markVars
    BY <2>2 DEF markVars, PartsInv, Mark!TypeOK
  <2> QED
    BY <2>1, <2>2, MarkTyped DEF PartsInv
<1> QED
  BY <1>1, <1>2, <1>3, <1>4 DEF PartsInv

\* Whatever requests, readers, run ends and marks do, the state keeps its type:
\* no more threads than workers, no cache beyond its capacity, whose keys are the
\* paths it holds checks for (FileIo::start, FileChecks::hash_with).
THEOREM FilesTyped == MCSpec => []TypesOK
<1>1. PartsInv => TypesOK
  BY DEF PartsInv, IoInv, ChecksInv, RecordInv, TypesOK
<1> QED
  BY PartsInit, PartsNext, <1>1, PTL DEF MCSpec, mcVars

\* A file thread holds its permit until it ends, whoever waits for it: timeouts,
\* dropped requests, gone clients and hung reads free none (FileIo::start,
\* spawn_permitted).
THEOREM ThreadsStayCounted == MCSpec => []LiveThreadsCounted
<1>1. PartsInv => LiveThreadsCounted
  BY IoHolds DEF PartsInv, LiveThreadsCounted
<1> QED
  BY PartsInit, PartsNext, <1>1, PTL DEF MCSpec, mcVars

\* A client that takes a download for complete received the whole file, for any
\* number of chunks (FileIo::stream).
THEOREM DownloadsAreWhole == MCSpec => []CompleteDownload
<1>1. PartsInv => CompleteDownload
  BY IoHolds DEF PartsInv, CompleteDownload
<1> QED
  BY PartsInit, PartsNext, <1>1, PTL DEF MCSpec, mcVars

\* A digest a display read returns is that of one content the file had during the
\* call, and readers of one version make it once while the cache keeps its check
\* (FileChecks::hash_with).
THEOREM DigestsAreShared == MCSpec => []DigestsShared
<1>1. PartsInv => DigestsShared
  BY ChecksHolds DEF PartsInv, DigestsShared
<1> QED
  BY PartsInit, PartsNext, <1>1, PTL DEF MCSpec, mcVars

\* However the threads of the record and its callers interleave, and whatever write
\* fails or hangs, no waiting sender is forgotten, what a caller was told is in the
\* file, and shutdown does not overtake a run's record (Automation::persist, written).
THEOREM RecordStaysKept == MCSpec => []RecordKept
<1>1. PartsInv => RecordKept
  BY RecordHolds DEF PartsInv
<1> QED
  BY PartsInit, PartsNext, <1>1, PTL DEF MCSpec, mcVars

\* In one process, once every caller returned and every thread ended, the lease
\* file shows the latest work, unless the system refused to set its time; with
\* several processes it may not (Activity::mark).
THEOREM NoMarkIsLost == OneProcess => (MCSpec => []NoMarkLost)
<1> SUFFICES ASSUME OneProcess PROVE MCSpec => []NoMarkLost
  OBVIOUS
<1>1. MCInit => MarkInv
  BY MarkInit DEF MCInit
<1>2. MarkInv /\ [MCNext]_mcVars => MarkInv'
  <2> SUFFICES ASSUME MarkInv, [MCNext]_mcVars PROVE MarkInv'
    OBVIOUS
  <2>1. Mark!Next \/ UNCHANGED markVars
    BY DEF MCNext, mcVars
  <2> QED
    BY <2>1, MarkNext, MarkStays
<1>3. MarkInv => NoMarkLost
  BY MarkHolds DEF NoMarkLost
<1> QED
  BY <1>1, <1>2, <1>3, PTL DEF MCSpec, mcVars
=============================================================================

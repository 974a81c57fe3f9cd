-------------------------------- MODULE FileIo --------------------------------
(***************************************************************************)
(* File work of the web requests (src/web/file_io.rs, src/worker.rs): a    *)
(* process-wide number of threads, requests that wait for one, ask for one *)
(* at once or stream a file, timeouts, clients that go away or stop        *)
(* reading, threads stuck in the kernel, and shutdown.                     *)
(*                                                                         *)
(* Abstracted: what an operation does and what a chunk holds; time (a      *)
(* timeout may pass at any moment).                                        *)
(***************************************************************************)
EXTENDS Naturals, FiniteSets

CONSTANTS
  Queued,     \* requests of run_queued; the three are disjoint
  Direct,     \* requests of run
  Downloads,  \* requests of stream
  Workers,    \* permits (16 in the code)
  Size        \* bound: the chunks of a downloaded file

Requests == Queued \union Direct \union Downloads

VARIABLES
  req,       \* new, queue, await, over
  answer,    \* how the request ended
  th,        \* where its thread stands
  mail,      \* what the thread sent; "lost" when its sender went without
  permits,   \* the permits left
  chunk,     \* a chunk waits in the download's channel
  read, got, \* chunks read by the worker, and received by the client
  stopping

vars == <<req, answer, th, mail, permits, chunk, read, got, stopping>>
streamVars == <<chunk, read, got>>

Init ==
  /\ req = [r \in Requests |-> "new"]
  /\ answer = [r \in Requests |-> "none"]
  /\ th = [r \in Requests |-> "none"]
  /\ mail = [r \in Requests |-> "none"]
  /\ permits = Workers
  /\ chunk = [r \in Downloads |-> FALSE]
  /\ read = [r \in Downloads |-> 0]
  /\ got = [r \in Downloads |-> 0]
  /\ stopping = FALSE

\* A DropGuard cancels what a request that is over had started.
Cancelled(r) == req[r] = "over" \/ stopping

Go(r, to) == th' = [th EXCEPT ![r] = to]

-----------------------------------------------------------------------------
(* The request.                                                            *)

End(r, how) ==
  /\ req' = [req EXCEPT ![r] = "over"]
  /\ answer' = [answer EXCEPT ![r] = how]

\* start: a thread with a permit of its own.
Start(r) ==
  /\ ~stopping
  /\ permits > 0
  /\ permits' = permits - 1
  /\ Go(r, "begin")
  /\ req' = [req EXCEPT ![r] = "await"]
  /\ UNCHANGED answer

\* run and stream do not wait for a permit; the system may refuse a thread.
Arrive(r) ==
  /\ req[r] = "new"
  /\ \/ /\ r \in Queued
        /\ req' = [req EXCEPT ![r] = "queue"]
        /\ UNCHANGED <<answer, th, permits>>
     \/ /\ r \notin Queued
        /\ \/ Start(r)
           \/ stopping /\ End(r, "stopping") /\ UNCHANGED <<th, permits>>
           \/ ~stopping /\ End(r, "busy") /\ UNCHANGED <<th, permits>>
  /\ UNCHANGED <<mail, streamVars, stopping>>

LeaveQueue(r) ==
  /\ req[r] = "queue"
  /\ \/ Start(r)
     \/ stopping /\ End(r, "stopping") /\ UNCHANGED <<th, permits>>
     \/ ~stopping /\ End(r, "timeout") /\ UNCHANGED <<th, permits>>
     \/ ~stopping /\ permits > 0 /\ End(r, "busy") /\ UNCHANGED <<th, permits>>
  /\ UNCHANGED <<mail, streamVars, stopping>>

Answers == [ok |-> "ok", error |-> "error", lost |-> "panic"]

\* Mutant: a request that timed out gives its permit back.
FinishFreely(r) ==
  /\ req[r] = "await"
  /\ r \notin Downloads
  /\ End(r, "timeout")
  /\ permits' = permits + 1
  /\ UNCHANGED <<th, mail, streamVars, stopping>>

\* finish: stopping, then the result, then the timeout.
Finish(r) ==
  /\ req[r] = "await"
  /\ r \notin Downloads
  /\ \/ stopping /\ End(r, "stopping")
     \/ ~stopping /\ mail[r] # "none" /\ End(r, Answers[mail[r]])
     \/ ~stopping /\ mail[r] = "none" /\ End(r, "timeout")
  /\ UNCHANGED <<th, mail, permits, streamVars, stopping>>

\* The client goes away.
Drop(r) ==
  /\ req[r] \in {"queue", "await"}
  /\ End(r, "gone")
  /\ UNCHANGED <<th, mail, permits, streamVars, stopping>>

Receive(r) ==
  /\ req[r] = "await"
  /\ ~stopping
  /\ chunk[r]
  /\ chunk' = [chunk EXCEPT ![r] = FALSE]
  /\ got' = [got EXCEPT ![r] = @ + 1]
  /\ UNCHANGED <<req, answer, th, mail, permits, read, stopping>>

\* Mutant: a closed channel is the end of the file.
EndDownloadOnClose(r) ==
  /\ req[r] = "await"
  /\ ~chunk[r] /\ mail[r] # "none"
  /\ End(r, "ok")
  /\ UNCHANGED <<th, mail, permits, streamVars, stopping>>

\* The channel is closed and empty, so the worker's own result counts; or the
\* app stops; or nothing came in time.
EndDownload(r) ==
  /\ req[r] = "await"
  /\ \/ stopping /\ End(r, "stopping")
     \/ ~stopping /\ ~chunk[r] /\ mail[r] # "none" /\ End(r, Answers[mail[r]])
     \/ ~stopping /\ ~chunk[r] /\ mail[r] = "none" /\ End(r, "timeout")
  /\ UNCHANGED <<th, mail, permits, streamVars, stopping>>

-----------------------------------------------------------------------------
(* The thread.                                                             *)

Send(r, what) ==
  /\ mail' = [mail EXCEPT ![r] = what]
  /\ Go(r, "leave")

Begin(r) ==
  /\ th[r] = "begin"
  /\ IF Cancelled(r) THEN Send(r, "error") ELSE Go(r, "work") /\ UNCHANGED mail
  /\ UNCHANGED <<req, answer, permits, streamVars, stopping>>

\* An operation ends with a result, fails, or unwinds.
Work(r) ==
  /\ th[r] = "work"
  /\ r \notin Downloads
  /\ \E what \in {"ok", "error", "lost"} : Send(r, what)
  /\ UNCHANGED <<req, answer, permits, streamVars, stopping>>

\* The kernel never answers.
Hang(r) ==
  /\ th[r] = "work"
  /\ Go(r, "hung")
  /\ UNCHANGED <<req, answer, mail, permits, streamVars, stopping>>

\* A download reads its next chunk, or the end of the file.
ReadChunk(r) ==
  /\ th[r] = "work"
  /\ \/ Send(r, "error") /\ UNCHANGED read
     \/ /\ ~Cancelled(r) /\ read[r] = Size
        /\ Send(r, "ok")
        /\ UNCHANGED read
     \/ /\ ~Cancelled(r) /\ read[r] < Size
        /\ Go(r, "room")
        /\ read' = [read EXCEPT ![r] = @ + 1]
        /\ UNCHANGED mail
  /\ UNCHANGED <<req, answer, permits, chunk, got, stopping>>

\* Mutant: the worker waits for room as long as the client lives.
WaitForRoomOnly(r) ==
  /\ th[r] = "room"
  /\ req[r] = "await" /\ ~chunk[r]
  /\ Go(r, "work")
  /\ chunk' = [chunk EXCEPT ![r] = TRUE]
  /\ UNCHANGED <<req, answer, mail, permits, read, got, stopping>>

\* One chunk at most waits in the channel: cancellation and the timeout are
\* seen without the client, and a receiver that went first ends the loop.
WaitForRoom(r) ==
  /\ th[r] = "room"
  /\ \/ /\ ~Cancelled(r) /\ req[r] = "await" /\ ~chunk[r]
        /\ Go(r, "work")
        /\ chunk' = [chunk EXCEPT ![r] = TRUE]
        /\ UNCHANGED mail
     \/ /\ Cancelled(r) \/ chunk[r]
        /\ Send(r, "error")
        /\ UNCHANGED chunk
     \/ /\ req[r] = "over"
        /\ Send(r, "ok")
        /\ UNCHANGED chunk
  /\ UNCHANGED <<req, answer, permits, read, got, stopping>>

\* The permit goes last.
Leave(r) ==
  /\ th[r] = "leave"
  /\ Go(r, "over")
  /\ permits' = permits + 1
  /\ UNCHANGED <<req, answer, mail, streamVars, stopping>>

Stop ==
  /\ ~stopping
  /\ stopping' = TRUE
  /\ UNCHANGED <<req, answer, th, mail, permits, streamVars>>

-----------------------------------------------------------------------------
Waiting(r) == LeaveQueue(r) \/ Finish(r)
Client(d) == Receive(d) \/ EndDownload(d)
Thread(r) == Begin(r) \/ Work(r) \/ Leave(r)
Download(d) == ReadChunk(d) \/ WaitForRoom(d)

Next ==
  \/ \E r \in Requests : Arrive(r) \/ Waiting(r) \/ Drop(r) \/ Thread(r) \/ Hang(r)
  \/ \E d \in Downloads : Client(d) \/ Download(d)
  \/ Stop

Spec == Init /\ [][Next]_vars

\* Threads outside a hung call go on; a download's client may stop reading for
\* ever.
Fairness ==
  /\ \A r \in Requests : WF_vars(Thread(r))
  /\ \A d \in Downloads : WF_vars(Download(d))

FairSpec == Spec /\ Fairness

-----------------------------------------------------------------------------
(* Properties.                                                             *)

Live == {"begin", "work", "room", "hung", "leave"}

TypeOK ==
  /\ req \in [Requests -> {"new", "queue", "await", "over"}]
  /\ answer \in [Requests -> {"none", "ok", "error", "panic", "timeout", "stopping", "busy", "gone"}]
  /\ th \in [Requests -> Live \union {"none", "over"}]
  /\ mail \in [Requests -> {"none", "ok", "error", "lost"}]
  /\ permits \in 0 .. Workers
  /\ chunk \in [Downloads -> BOOLEAN]
  /\ read \in [Downloads -> 0 .. Size]
  /\ got \in [Downloads -> 0 .. Size]
  /\ stopping \in BOOLEAN

\* A thread counts until it ends, also once nobody waits for it: there are
\* never more of them than permits ("A stuck operation can outlive a server
\* restart").
LiveThreadsCounted == Cardinality({r \in Requests : th[r] \in Live}) = Workers - permits

\* A download that ends without an error has all of the file, whenever its
\* worker failed, panicked or was told to stop.
CompleteDownload ==
  \A d \in Downloads : answer[d] = "ok" => got[d] = Size

\* A download's thread ends unless it hangs in a read, even when its client
\* neither reads nor goes away.
DownloadThreadEnds ==
  \A d \in Downloads : th[d] = "begin" ~> th[d] \in {"over", "hung"}
=============================================================================

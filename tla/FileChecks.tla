------------------------------ MODULE FileChecks ------------------------------
(***************************************************************************)
(* The digests that display reads share (src/web/file_checks.rs).  Readers *)
(* on file workers ask for the digest of a file; the first one claims the  *)
(* check and hashes, the others wait for its outcome, and an outcome       *)
(* serves later readers for a short time while the file's identity stays   *)
(* the same.  The files change under all of them.                          *)
(*                                                                         *)
(* Abstracted: a content is the number of the change that made it, which   *)
(* is also its Version (size, times, inode); a digest is the pair of the   *)
(* contents that hashing met first and last; an outcome may age at any     *)
(* moment, and any look at a file may fail.                                *)
(***************************************************************************)
EXTENDS Naturals, Sequences, FiniteSets

CONSTANTS
  Readers,   \* file workers calling hash, each once
  Paths,
  Capacity,  \* CAPACITY (128 in the code)
  Tries,     \* rounds of the loop (3 in the code)
  Changes,   \* bound: how often a file changes
  Nobody

\* The Check a reader made in a round of its loop.
Ids == Readers \X (1 .. Tries)
Contents == 0 .. Changes
Digests == Contents \X Contents
Outcomes == {"unused", "pending", "ready", "aged", "abandoned"}

VARIABLES
  file,     \* the content of each file
  cached,   \* Checks.entries: the check of each path, or Nobody
  recent,   \* the paths in entries, least recently used first
  check,    \* every Check: its version, outcome and digest
  evicted,  \* history: checks that made room for others, or for another version
  pc, path, version, digest,
  mine,     \* the Check the reader claimed or waits for
  round,    \* the round of its loop
  stopped,  \* its cancellation token
  since     \* history: the content of the file when it called

reader == <<path, since>>
vars == <<file, cached, recent, check, evicted, pc, path, version, digest, mine, round,
          stopped, since>>

Init ==
  /\ file = [p \in Paths |-> 0]
  /\ cached = [p \in Paths |-> Nobody]
  /\ recent = <<>>
  /\ check = [i \in Ids |-> [version |-> 0, outcome |-> "unused", digest |-> <<0, 0>>]]
  /\ evicted = {}
  /\ pc = [r \in Readers |-> "idle"]
  /\ path \in [Readers -> Paths]
  /\ version = [r \in Readers |-> 0]
  /\ digest = [r \in Readers |-> <<0, 0>>]
  /\ mine = [r \in Readers |-> Nobody]
  /\ round = [r \in Readers |-> 1]
  /\ stopped = [r \in Readers |-> FALSE]
  /\ since = [r \in Readers |-> 0]

Go(r, to) == pc' = [pc EXCEPT ![r] = to]

-----------------------------------------------------------------------------
(* The world around the readers.                                           *)

Change(p) ==
  /\ file[p] < Changes
  /\ file' = [file EXCEPT ![p] = @ + 1]
  /\ UNCHANGED <<cached, recent, check, evicted, pc, version, digest, mine, round, stopped, reader>>

\* The request timed out, was dropped, or the app stops.
Cancel(r) ==
  /\ pc[r] \notin {"idle", "done", "failed"}
  /\ ~stopped[r]
  /\ stopped' = [stopped EXCEPT ![r] = TRUE]
  /\ UNCHANGED <<file, cached, recent, check, evicted, pc, version, digest, mine, round, reader>>

\* MAX_AGE went by, for a check somebody can still look at.
Age(i) ==
  /\ (\E p \in Paths : cached[p] = i) \/ (\E r \in Readers : mine[r] = i)
  /\ check[i].outcome = "ready"
  /\ check' = [check EXCEPT ![i].outcome = "aged"]
  /\ UNCHANGED <<file, cached, recent, evicted, pc, version, digest, mine, round, stopped, reader>>

-----------------------------------------------------------------------------
(* hash_with.                                                              *)

Call(r) ==
  /\ pc[r] = "idle"
  /\ Go(r, "top")
  /\ since' = [since EXCEPT ![r] = file[path[r]]]
  /\ UNCHANGED <<file, cached, recent, check, evicted, path, version, digest, mine, round, stopped>>

Fail(r) ==
  /\ pc[r] \in {"top", "confirm"}
  /\ Go(r, "failed")
  /\ UNCHANGED <<file, cached, recent, check, evicted, version, digest, mine, round, stopped, reader>>

\* A round of the loop begins; after the last one the call fails.
Look(r) ==
  /\ pc[r] = "top"
  /\ ~stopped[r]
  /\ round[r] <= Tries
  /\ version' = [version EXCEPT ![r] = file[path[r]]]
  /\ Go(r, "lookup")
  /\ UNCHANGED <<file, cached, recent, check, evicted, digest, mine, round, stopped, reader>>

\* The paths of s, each of them there once, but p.
Without(s, p) ==
  IF \E k \in 1 .. Len(s) : s[k] = p
  THEN LET k == CHOOSE k \in 1 .. Len(s) : s[k] = p
       IN SubSeq(s, 1, k - 1) \o SubSeq(s, k + 1, Len(s))
  ELSE s

Reusable(r) ==
  LET i == cached[path[r]] IN
  /\ i # Nobody
  /\ check[i].version = version[r]
  /\ check[i].outcome \in {"pending", "ready"}

Join(r) ==
  LET p == path[r] IN
  /\ pc[r] = "lookup"
  /\ Reusable(r)
  /\ recent' = Append(Without(recent, p), p)
  /\ mine' = [mine EXCEPT ![r] = cached[p]]
  /\ Go(r, "wait")
  /\ UNCHANGED <<file, cached, check, evicted, version, digest, round, stopped, reader>>

\* Mutant: the cache makes room once it is over its limit.
ClaimBeyondCapacity(r) ==
  LET p == path[r]
      i == <<r, round[r]>>
  IN
  /\ pc[r] = "lookup"
  /\ ~Reusable(r)
  /\ recent' = Append(Without(recent, p), p)
  /\ cached' = [cached EXCEPT ![p] = i]
  /\ check' = [check EXCEPT ![i].version = version[r], ![i].outcome = "pending"]
  /\ mine' = [mine EXCEPT ![r] = i]
  /\ Go(r, "hash")
  /\ UNCHANGED <<file, evicted, version, digest, round, stopped, reader>>

\* A new Check; a full cache forgets its least recently used entry first, and
\* the entry of another version of the file is replaced.
Claim(r) ==
  LET p == path[r]
      i == <<r, round[r]>>
      full == Len(recent) >= Capacity
      kept == IF full THEN Tail(recent) ELSE recent
      other == IF cached[p] # Nobody /\ check[cached[p]].version # version[r] THEN cached[p] ELSE Nobody
  IN
  /\ pc[r] = "lookup"
  /\ ~Reusable(r)
  /\ recent' = Append(Without(kept, p), p)
  /\ evicted' = evicted \union {c \in Ids : (full /\ c = cached[Head(recent)]) \/ c = other}
  /\ cached' = [q \in Paths |->
                  IF q = p THEN i ELSE IF full /\ q = Head(recent) THEN Nobody ELSE cached[q]]
  /\ check' = [check EXCEPT ![i].version = version[r], ![i].outcome = "pending"]
  /\ mine' = [mine EXCEPT ![r] = i]
  /\ Go(r, "hash")
  /\ UNCHANGED <<file, version, digest, round, stopped, reader>>

-----------------------------------------------------------------------------
(* The owner of a check.                                                   *)

HashBegin(r) ==
  /\ pc[r] = "hash"
  /\ Go(r, "hashing")
  /\ digest' = [digest EXCEPT ![r] = <<file[path[r]], file[path[r]]>>]
  /\ UNCHANGED <<file, cached, recent, check, evicted, version, mine, round, stopped, reader>>

HashEnd(r) ==
  /\ pc[r] = "hashing"
  /\ Go(r, "recheck")
  /\ digest' = [digest EXCEPT ![r][2] = file[path[r]]]
  /\ UNCHANGED <<file, cached, recent, check, evicted, version, mine, round, stopped, reader>>

\* The kernel never answers a read.
Hang(r) ==
  /\ pc[r] = "hashing"
  /\ Go(r, "hung")
  /\ UNCHANGED <<file, cached, recent, check, evicted, version, digest, mine, round, stopped, reader>>

\* Claim::drop: only the owner's own entry goes, and its waiters are told.
DropClaim(r) ==
  LET p == path[r] IN
  /\ IF cached[p] = mine[r]
     THEN /\ cached' = [cached EXCEPT ![p] = Nobody]
          /\ recent' = Without(recent, p)
     ELSE UNCHANGED <<cached, recent>>
  /\ check' = [check EXCEPT ![mine[r]].outcome = "abandoned"]
  /\ mine' = [mine EXCEPT ![r] = Nobody]

\* Hashing or the second look at the file failed, or the call is cancelled;
\* a panic unwinds through the same drop.
GiveUp(r) ==
  /\ pc[r] \in {"hash", "hashing", "recheck"}
  /\ DropClaim(r)
  /\ Go(r, "failed")
  /\ UNCHANGED <<file, evicted, version, digest, round, stopped, reader>>

\* Mutant: the digest is taken without a second look at the file.
RecheckNothing(r) ==
  /\ pc[r] = "recheck"
  /\ Go(r, "publish")
  /\ UNCHANGED <<file, cached, recent, check, evicted, version, digest, mine, round, stopped, reader>>

\* The file is still the one the check was made for, or another round begins.
Recheck(r) ==
  /\ pc[r] = "recheck"
  /\ ~stopped[r]
  /\ IF file[path[r]] = version[r]
     THEN /\ Go(r, "publish")
          /\ UNCHANGED <<cached, recent, check, mine, round>>
     ELSE /\ DropClaim(r)
          /\ Go(r, "top")
          /\ round' = [round EXCEPT ![r] = @ + 1]
  /\ UNCHANGED <<file, evicted, version, digest, stopped, reader>>

Publish(r) ==
  /\ pc[r] = "publish"
  /\ check' = [check EXCEPT ![mine[r]].outcome = "ready", ![mine[r]].digest = digest[r]]
  /\ mine' = [mine EXCEPT ![r] = Nobody]
  /\ Go(r, "done")
  /\ UNCHANGED <<file, cached, recent, evicted, version, digest, round, stopped, reader>>

-----------------------------------------------------------------------------
(* A reader waiting for another's outcome.                                 *)

\* It wakes every 20 ms to see its token.
WaitStopped(r) ==
  /\ pc[r] = "wait"
  /\ stopped[r]
  /\ Go(r, "failed")
  /\ mine' = [mine EXCEPT ![r] = Nobody]
  /\ UNCHANGED <<file, cached, recent, check, evicted, version, digest, round, stopped, reader>>

Wake(r) ==
  LET c == check[mine[r]] IN
  /\ pc[r] = "wait"
  /\ ~stopped[r]
  /\ \/ /\ c.outcome \in {"ready", "aged"}
        /\ Go(r, "confirm")
        /\ digest' = [digest EXCEPT ![r] = c.digest]
        /\ UNCHANGED <<mine, round>>
     \/ /\ c.outcome = "abandoned"
        /\ Go(r, "top")
        /\ mine' = [mine EXCEPT ![r] = Nobody]
        /\ round' = [round EXCEPT ![r] = @ + 1]
        /\ UNCHANGED digest
  /\ UNCHANGED <<file, cached, recent, check, evicted, version, stopped, reader>>

\* A digest that is fresh, of a file that did not change, is returned.
Confirm(r) ==
  /\ pc[r] = "confirm"
  /\ mine' = [mine EXCEPT ![r] = Nobody]
  /\ IF check[mine[r]].outcome = "ready" /\ file[path[r]] = version[r]
     THEN Go(r, "done") /\ UNCHANGED round
     ELSE Go(r, "top") /\ round' = [round EXCEPT ![r] = @ + 1]
  /\ UNCHANGED <<file, cached, recent, check, evicted, version, digest, stopped, reader>>

-----------------------------------------------------------------------------
\* One step of a reader outside a read of the file.
Step(r) ==
  \/ Look(r) \/ Fail(r) \/ Join(r) \/ Claim(r) \/ HashBegin(r) \/ Recheck(r) \/ Publish(r)
  \/ WaitStopped(r) \/ Wake(r) \/ Confirm(r)

Next ==
  \/ \E p \in Paths : Change(p)
  \/ \E i \in Ids : Age(i)
  \/ \E r \in Readers : Call(r) \/ Cancel(r) \/ Step(r) \/ HashEnd(r) \/ Hang(r) \/ GiveUp(r)

Spec == Init /\ [][Next]_vars

\* Workers go on, and a read that does not hang ends.
Fairness ==
  \A r \in Readers : WF_vars(Step(r)) /\ WF_vars(HashEnd(r) \/ GiveUp(r))

FairSpec == Spec /\ Fairness

-----------------------------------------------------------------------------
(* Properties.                                                             *)

Owning == {"hash", "hashing", "hung", "recheck", "publish"}

TypeOK ==
  /\ file \in [Paths -> Contents]
  /\ cached \in [Paths -> Ids \union {Nobody}]
  /\ recent \in Seq(Paths) /\ Len(recent) <= Capacity
  /\ \A p \in Paths : (\E n \in 1 .. Len(recent) : recent[n] = p) <=> cached[p] # Nobody
  /\ check \in [Ids -> [version : Contents, outcome : Outcomes, digest : Digests]]
  /\ evicted \subseteq Ids
  /\ pc \in [Readers -> Owning \union {"idle", "top", "lookup", "wait", "confirm", "done", "failed"}]
  /\ path \in [Readers -> Paths]
  /\ version \in [Readers -> Contents]
  /\ digest \in [Readers -> Digests]
  /\ mine \in [Readers -> Ids \union {Nobody}]
  /\ round \in [Readers -> 1 .. Tries + 1]
  /\ stopped \in [Readers -> BOOLEAN]
  /\ since \in [Readers -> Contents]

\* A digest returned is that of one content, which the file had at a moment
\* of the call ("display reads check the file identity on every cache hit").
DigestOfTheCall ==
  \A r \in Readers :
    pc[r] = "done" => /\ digest[r][1] = digest[r][2]
                      /\ since[r] <= digest[r][1]
                      /\ digest[r][1] <= file[path[r]]

\* Readers of the same file and version share one digest: two of them hash it
\* at once only if the cache had to forget one, or put another version of the
\* file in its place.
SharedOnce ==
  \A r, s \in Readers :
    r # s /\ {pc[r], pc[s]} \subseteq Owning /\ path[r] = path[s] /\ version[r] = version[s]
      => {mine[r], mine[s]} \cap evicted # {}

\* A waiter goes on unless the owner hangs, and even then once it is told to
\* stop ("A cancelled reader releases its file-worker slot even when another
\* reader is stuck in a kernel read").
WaiterEnds ==
  \A r \in Readers :
    pc[r] = "wait" ~> \/ pc[r] # "wait"
                      \/ ~stopped[r] /\ \E s \in Readers : pc[s] = "hung" /\ mine[s] = mine[r]
=============================================================================

----------------------------- MODULE PublishJobs -----------------------------
(***************************************************************************)
(* Publish (p2p/node.go), called by POST /message/:key, and the goroutines *)
(* of checkPublishJobStatusWorker (p2p/workers.go), among the tasks that   *)
(* change covers and paths.                                                *)
(*                                                                         *)
(* Publish holds the write locks of covers and of paths from its check to  *)
(* its return, across the network call.  invalidPathProfiles holds the     *)
(* read lock of paths for a whole round of queries.  Every other operation *)
(* on the two maps is one step, taken when the lock allows it.             *)
(***************************************************************************)
EXTENDS Naturals, FiniteSets

CONSTANTS
    Cover,       \* bound: addresses of covers
    Path,        \* bound: uuids of paths
    Job,         \* bound: messages posted during one life of the process
    MinCovers,   \* NUMBER_OF_COVER_NODES_FOR_PUBLISH
    None

ASSUME PublishAssumption ==
    /\ IsFiniteSet(Cover) /\ IsFiniteSet(Path) /\ IsFiniteSet(Job)
    /\ MinCovers \in Nat
    /\ None \notin Path \cup Job /\ None \notin [success : Nat, failure : Nat]

VARIABLES
    covers,      \* the keys of n.covers
    paths,       \* n.paths: path -> counts of its publish jobs, or None
    coversLock,  \* the Publish call that holds n.covers.lock
    pathsLock,   \* the Publish call that holds n.paths.lock for writing
    reading,     \* invalidPathProfiles holds n.paths.lock for reading
    snapshot,    \* path -> the profile a FIX will write back
    publish,     \* job -> where its Publish call is
    via,         \* job -> the path asked for, then the path used
    status,      \* n.publishJobs: job -> status
    checker,     \* job -> where checkPublishJobStatusWorker is
    poller,      \* job -> where its inner goroutine is
    process      \* "running", or how it ended

locks == <<coversLock, pathsLock, reading>>
tables == <<covers, paths, snapshot>>
watch == <<status, checker, poller>>
vars == <<locks, tables, publish, via, watch, process>>

Counts == [success : 0..Cardinality(Job), failure : 0..Cardinality(Job)]
Fresh == [success |-> 0, failure |-> 0]
Locked == {"check", "send", "record", "unlock"}

Idle ==
    /\ covers = {} /\ paths = [p \in Path |-> None]
    /\ coversLock = None /\ pathsLock = None /\ reading = FALSE
    /\ snapshot = [p \in Path |-> None]
    /\ publish = [j \in Job |-> "idle"] /\ via = [j \in Job |-> None]
    /\ status = [j \in Job |-> "none"]
    /\ checker = [j \in Job |-> "none"] /\ poller = [j \in Job |-> "none"]

Init == Idle /\ process = "running"

Running == process = "running"
Connected == {p \in Path : paths[p] # None}
CanReadPaths == pathsLock = None
CanWritePaths == pathsLock = None /\ ~reading

-----------------------------------------------------------------------------
(* The rest of the node. *)

CoverJoins(c) ==
    /\ Running /\ coversLock = None /\ c \notin covers
    /\ covers' = covers \cup {c}
    /\ UNCHANGED <<locks, paths, snapshot, publish, via, watch, process>>

CoverLeaves(c) ==
    /\ coversLock = None /\ c \in covers
    /\ covers' = covers \ {c}
    /\ UNCHANGED <<locks, paths, snapshot, publish, via, watch, process>>

(* A path is connected, or replaced by one of the same tree. *)
PathConnects(p) ==
    /\ Running /\ CanWritePaths
    /\ paths' = [paths EXCEPT ![p] = Fresh]
    /\ UNCHANGED <<locks, covers, snapshot, publish, via, watch, process>>

PathGoes(p) ==
    /\ CanWritePaths /\ paths[p] # None
    /\ paths' = [paths EXCEPT ![p] = None]
    /\ UNCHANGED <<locks, covers, snapshot, publish, via, watch, process>>

(* A round of the health worker: the read lock is held from its first query *)
(* to its last, and what is to be fixed is known at the end.               *)
RoundStarts ==
    /\ Running /\ CanReadPaths /\ ~reading /\ \A p \in Path : snapshot[p] = None
    /\ reading' = TRUE
    /\ UNCHANGED <<coversLock, pathsLock, tables, publish, via, watch, process>>

RoundEnds ==
    /\ reading
    /\ reading' = FALSE
    /\ \E fixes \in SUBSET Connected :
          snapshot' = [p \in Path |-> IF p \in fixes THEN paths[p] ELSE None]
    /\ UNCHANGED <<coversLock, pathsLock, covers, paths, publish, via, watch, process>>

(* FIX: the profile is written back with the counts it had. *)
FixPath(p) ==
    /\ snapshot[p] # None /\ CanWritePaths
    /\ paths' = [paths EXCEPT ![p] = snapshot[p]]
    /\ snapshot' = [snapshot EXCEPT ![p] = None]
    /\ UNCHANGED <<locks, covers, publish, via, watch, process>>

-----------------------------------------------------------------------------
(* Publish *)

Goto(j, step) == publish' = [publish EXCEPT ![j] = step]

Unlock == coversLock' = None /\ pathsLock' = None /\ UNCHANGED reading

(* handlePostMessage: a path that is asked for has to exist already. *)
PostMessage(j, p) ==
    /\ Running /\ publish[j] = "idle" /\ CanReadPaths
    /\ p # None => paths[p] # None
    /\ Goto(j, "lockCovers")
    /\ via' = [via EXCEPT ![j] = p]
    /\ UNCHANGED <<locks, tables, watch, process>>

(* Mutant: covers is not locked. *)
LockNoCovers(j) ==
    /\ publish[j] = "lockCovers"
    /\ Goto(j, "lockPaths")
    /\ UNCHANGED <<locks, tables, via, watch, process>>

LockCovers(j) ==
    /\ publish[j] = "lockCovers" /\ coversLock = None
    /\ coversLock' = j
    /\ Goto(j, "lockPaths")
    /\ UNCHANGED <<pathsLock, reading, tables, via, watch, process>>

LockPaths(j) ==
    /\ publish[j] = "lockPaths" /\ CanWritePaths
    /\ pathsLock' = j
    /\ Goto(j, "check")
    /\ UNCHANGED <<coversLock, reading, tables, via, watch, process>>

(* canPublish, ValidateKey and the path: the one asked for, else any. *)
Accept(j, p) ==
    /\ publish[j] = "check"
    /\ Cardinality(covers) >= MinCovers
    /\ p \in Connected /\ via[j] \in {None, p}
    /\ via' = [via EXCEPT ![j] = p]
    /\ Goto(j, "send")
    /\ UNCHANGED <<locks, tables, watch, process>>

(* The publishing condition is not met, the path is gone or the key wrong. *)
Refuse(j) ==
    /\ publish[j] = "check"
    /\ Unlock /\ Goto(j, "refused")
    /\ UNCHANGED <<tables, via, watch, process>>

(* Store, or Encode on the open connection. *)
Send(j) ==
    /\ publish[j] = "send"
    /\ Goto(j, "record")
    /\ UNCHANGED <<locks, tables, via, watch, process>>

(* Mutant: the error return keeps the locks. *)
SendFailsLocked(j) ==
    /\ publish[j] = "send"
    /\ Goto(j, "refused")
    /\ UNCHANGED <<locks, tables, via, watch, process>>

SendFails(j) ==
    /\ publish[j] = "send"
    /\ Unlock /\ Goto(j, "refused")
    /\ UNCHANGED <<tables, via, watch, process>>

Record(j) ==
    /\ publish[j] = "record"
    /\ status' = [status EXCEPT ![j] = "pending"]
    /\ checker' = [checker EXCEPT ![j] = "wait"]
    /\ poller' = [poller EXCEPT ![j] = "ask"]
    /\ Goto(j, "unlock")
    /\ UNCHANGED <<locks, tables, via, process>>

Return(j) ==
    /\ publish[j] = "unlock"
    /\ Unlock /\ Goto(j, "returned")
    /\ UNCHANGED <<tables, via, watch, process>>

-----------------------------------------------------------------------------
(* checkPublishJobStatusWorker.  Its context is cancelled as soon as it has *)
(* left its select.                                                        *)

(* The process ends and forgets everything. *)
Down(how) ==
    /\ covers' = {} /\ paths' = [p \in Path |-> None]
    /\ coversLock' = None /\ pathsLock' = None /\ reading' = FALSE
    /\ snapshot' = [p \in Path |-> None]
    /\ publish' = [j \in Job |-> "idle"] /\ via' = [j \in Job |-> None]
    /\ status' = [j \in Job |-> "none"]
    /\ checker' = [j \in Job |-> "none"] /\ poller' = [j \in Job |-> "none"]
    /\ process' = how

Polls(j, to) ==
    /\ poller' = [poller EXCEPT ![j] = to]
    /\ UNCHANGED <<locks, tables, publish, via, status, checker, process>>

Checks(j, to) ==
    /\ checker' = [checker EXCEPT ![j] = to]
    /\ UNCHANGED <<locks, tables, publish, via, process>>

(* IsDiscovered: no, or an error. *)
NotDiscovered(j) == poller[j] = "ask" /\ Polls(j, "sleep")

(* IsDiscovered: yes.  Sending the answer blocks until it is received; when *)
(* the channel is closed it panics.                                        *)
Discovered(j) ==
    /\ poller[j] = "ask"
    /\ IF checker[j] = "ended" THEN Down("sendOnClosedChannel") ELSE Polls(j, "answer")

PollAgain(j) == poller[j] = "sleep" /\ Polls(j, "ask")

PollerStops(j) ==
    poller[j] = "sleep" /\ checker[j] # "wait" /\ Polls(j, "ended")

Succeeds(j) ==
    /\ checker[j] = "wait" /\ poller[j] = "answer"
    /\ poller' = [poller EXCEPT ![j] = "ended"]
    /\ Checks(j, "success")
    /\ UNCHANGED status

(* Mutant: the checker waits for the answer only. *)
NeverTimesOut(j) == FALSE /\ Checks(j, "timeout") /\ UNCHANGED <<status, poller>>

TimesOut(j) ==
    /\ checker[j] = "wait"
    /\ Checks(j, "timeout")
    /\ UNCHANGED <<status, poller>>

(* markPublishJobStatus sets the status of the job... *)
MarkStatus(j) ==
    /\ checker[j] \in {"success", "timeout"}
    /\ status' = [status EXCEPT ![j] = checker[j]]
    /\ Checks(j, "count")
    /\ UNCHANGED poller

(* ...and counts it on its path, if that is there. *)
CountOn(j, counter) ==
    IF via[j] \in Connected
    THEN paths' = [paths EXCEPT ![via[j]][counter] = @ + 1]
    ELSE UNCHANGED paths

(* Mutant: the job is counted by the status it had when it was looked up. *)
CountByOldStatus(j) ==
    /\ checker[j] = "count" /\ CanWritePaths
    /\ CountOn(j, "failure")
    /\ checker' = [checker EXCEPT ![j] = "close"]
    /\ UNCHANGED <<locks, covers, snapshot, publish, via, status, poller, process>>

(* Mutant: the job is counted again and again. *)
CountForever(j) ==
    /\ checker[j] = "count" /\ CanWritePaths
    /\ CountOn(j, IF status[j] = "success" THEN "success" ELSE "failure")
    /\ UNCHANGED <<locks, covers, snapshot, publish, via, watch, process>>

Count(j) ==
    /\ checker[j] = "count" /\ CanWritePaths
    /\ CountOn(j, IF status[j] = "success" THEN "success" ELSE "failure")
    /\ checker' = [checker EXCEPT ![j] = "close"]
    /\ UNCHANGED <<locks, covers, snapshot, publish, via, status, poller, process>>

(* The deferred close of the channel the answer would be sent on. *)
Close(j) ==
    /\ checker[j] = "close"
    /\ IF poller[j] = "answer" THEN Down("sendOnClosedChannel")
       ELSE Checks(j, "ended") /\ UNCHANGED <<status, poller>>

Stop == Running /\ Down("stopped")

Restart ==
    /\ ~Running
    /\ process' = "running"
    /\ UNCHANGED <<locks, tables, publish, via, watch>>

-----------------------------------------------------------------------------
PublishStep(j) ==
    \/ LockCovers(j) \/ LockPaths(j)
    \/ (\E p \in Path : Accept(j, p)) \/ Refuse(j)
    \/ Send(j) \/ SendFails(j) \/ Record(j) \/ Return(j)

PollerStep(j) == NotDiscovered(j) \/ Discovered(j) \/ PollAgain(j) \/ PollerStops(j)

CheckerStep(j) == Succeeds(j) \/ TimesOut(j) \/ MarkStatus(j) \/ Count(j) \/ Close(j)

Neighbours ==
    \/ \E c \in Cover : CoverJoins(c) \/ CoverLeaves(c)
    \/ \E p \in Path : PathConnects(p) \/ PathGoes(p) \/ FixPath(p)
    \/ RoundStarts \/ RoundEnds

Next ==
    \/ \E j \in Job :
          \/ \E p \in Path \cup {None} : PostMessage(j, p)
          \/ PublishStep(j) \/ PollerStep(j) \/ CheckerStep(j)
    \/ Neighbours \/ Stop \/ Restart

Spec == Init /\ [][Next]_vars

(* Every network call has a time limit and every timer fires.  A Mutex      *)
(* hands itself to a caller that has waited long, hence SF for the locks.  *)
Fairness ==
    /\ WF_vars(RoundEnds)
    /\ \A j \in Job :
          /\ SF_vars(LockCovers(j)) /\ SF_vars(LockPaths(j)) /\ SF_vars(Count(j))
          /\ WF_vars(PublishStep(j)) /\ WF_vars(CheckerStep(j))

FairSpec == Spec /\ Fairness

-----------------------------------------------------------------------------
(* Properties *)

TypeOK ==
    /\ covers \subseteq Cover
    /\ paths \in [Path -> Counts \cup {None}]
    /\ coversLock \in Job \cup {None} /\ pathsLock \in Job \cup {None}
    /\ reading \in BOOLEAN
    /\ snapshot \in [Path -> Counts \cup {None}]
    /\ publish \in [Job -> Locked \cup {"idle", "lockCovers", "lockPaths", "refused", "returned"}]
    /\ via \in [Job -> Path \cup {None}]
    /\ status \in [Job -> {"none", "pending", "success", "timeout"}]
    /\ checker \in [Job -> {"none", "wait", "success", "timeout", "count", "close", "ended"}]
    /\ poller \in [Job -> {"none", "ask", "answer", "sleep", "ended"}]
    /\ process \in {"running", "stopped", "sendOnClosedChannel"}

(* A message is out once it was stored or sent. *)
Outcome(j) ==
    IF status[j] \in {"success", "timeout"} THEN status[j]
    ELSE IF status[j] = "pending" \/ publish[j] = "record" THEN "published"
    ELSE "none"

Board == INSTANCE PublishBoard WITH
    paths <- Connected,
    board <- [j \in Job |-> Outcome(j)]

(* Although Publish checks, picks a path, sends and records in turn while   *)
(* covers leave and paths are replaced, a message only leaves while there  *)
(* are enough covers and the node has a path, and its job is decided once. *)
ImplementsBoard == Board!Spec

(* A path is not blamed for more failures than its jobs had, whatever late  *)
(* fix overwrote its counts: blacklistPaths gives up paths by them.        *)
CountsAreReal ==
    \A p \in Path : paths[p] # None =>
        /\ paths[p].failure <= Cardinality({j \in Job : via[j] = p /\ status[j] = "timeout"})
        /\ paths[p].success <= Cardinality({j \in Job : via[j] = p /\ status[j] = "success"})

(* A Publish call waiting for its locks returns, although the locks are     *)
(* held across network calls.                                              *)
PublishReturns ==
    \A j \in Job :
        (publish[j] = "lockCovers") ~> (publish[j] \in {"refused", "returned", "idle"})

(* A pending job is decided.                                                *)
PendingIsDecided ==
    \A j \in Job : (status[j] = "pending") ~> (status[j] # "pending")

(* A discovery that is reported after the job timed out does no harm.       *)
SurvivesLateAnswer == process # "sendOnClosedChannel"
=============================================================================

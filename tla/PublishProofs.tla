---------------------------- MODULE PublishProofs ----------------------------
(***************************************************************************)
(* Proofs about PublishJobs for any number of covers, paths and jobs and   *)
(* every value of the publishing condition.                                *)
(*                                                                         *)
(* The inductive invariant says who holds which lock at which step of      *)
(* Publish, what holds between its check and its return, and how far the   *)
(* job of each call has come.                                              *)
(***************************************************************************)
EXTENDS PublishJobs, FiniteSetTheorems, TLAPS

Counter == [success : Nat, failure : Nat]
Stages == Locked \cup {"idle", "lockCovers", "lockPaths", "refused", "returned"}

Shape ==
    /\ covers \subseteq Cover
    /\ paths \in [Path -> Counter \cup {None}]
    /\ coversLock \in Job \cup {None} /\ pathsLock \in Job \cup {None}
    /\ reading \in BOOLEAN
    /\ snapshot \in [Path -> Counter \cup {None}]
    /\ publish \in [Job -> Stages]
    /\ via \in [Job -> Path \cup {None}]
    /\ status \in [Job -> {"none", "pending", "success", "timeout"}]
    /\ checker \in [Job -> {"none", "wait", "success", "timeout", "count", "close", "ended"}]
    /\ poller \in [Job -> {"none", "ask", "answer", "sleep", "ended"}]
    /\ process \in {"running", "stopped", "sendOnClosedChannel"}

(* A Publish call past its locks holds both, and one waiting for the second *)
(* holds the first.                                                        *)
LockInv ==
    \A j \in Job :
        /\ publish[j] \in Locked => coversLock = j /\ pathsLock = j
        /\ publish[j] = "lockPaths" => coversLock = j

(* What canPublish found is true until the call returns. *)
SendInv ==
    \A j \in Job : publish[j] = "send" =>
        Cardinality(covers) >= MinCovers /\ Connected # {}

(* How far a job and its checker have come together. *)
JobInv ==
    \A j \in Job :
        /\ publish[j] \notin {"unlock", "returned"} => status[j] = "none" /\ checker[j] = "none"
        /\ checker[j] \in {"wait", "success", "timeout"} => status[j] = "pending"
        /\ checker[j] \in {"count", "close", "ended"} => status[j] \in {"success", "timeout"}
        /\ publish[j] \in {"send", "record", "unlock", "returned"} => via[j] \in Path

Inv == Shape /\ LockInv /\ SendInv /\ JobInv

LEMMA CounterFacts ==
  /\ Fresh \in Counter /\ None \notin Counter
  /\ \A k \in Counter : [k EXCEPT !.success = @ + 1] \in Counter
  /\ \A k \in Counter : [k EXCEPT !.failure = @ + 1] \in Counter
  BY PublishAssumption DEF Fresh, Counter

LEMMA InitInv == Init => Inv
<1> SUFFICES ASSUME Init PROVE Inv
  OBVIOUS
<1>1. Shape
  BY DEF Init, Idle, Shape, Stages
<1>2. LockInv /\ SendInv /\ JobInv
  BY DEF Init, Idle, LockInv, SendInv, JobInv, Locked
<1> QED BY <1>1, <1>2 DEF Inv

LEMMA DownInv ==
  ASSUME Down("stopped") \/ Down("sendOnClosedChannel")
  PROVE  Inv'
<1>1. PICK how \in {"stopped", "sendOnClosedChannel"} : Down(how)
  OBVIOUS
<1>2. Shape'
  BY <1>1 DEF Down, Shape, Stages
<1>3. LockInv' /\ SendInv' /\ JobInv'
  BY <1>1 DEF Down, LockInv, SendInv, JobInv, Locked
<1> QED BY <1>2, <1>3 DEF Inv

-----------------------------------------------------------------------------
LEMMA NeighboursInv == Inv /\ Neighbours => Inv'
<1> SUFFICES ASSUME Inv, Neighbours PROVE Inv'
  OBVIOUS
<1>1. UNCHANGED <<coversLock, pathsLock, publish, via, watch, process>>
  BY DEF Neighbours, CoverJoins, CoverLeaves, PathConnects, PathGoes, FixPath, RoundStarts,
         RoundEnds, locks
<1>2. Shape'
  <2>1. covers' \subseteq Cover /\ reading' \in BOOLEAN
    BY DEF Neighbours, CoverJoins, CoverLeaves, PathConnects, PathGoes, FixPath, RoundStarts,
           RoundEnds, locks, tables, Inv, Shape
  <2>2. paths' \in [Path -> Counter \cup {None}]
    BY CounterFacts DEF Neighbours, CoverJoins, CoverLeaves, PathConnects, PathGoes, FixPath,
           RoundStarts, RoundEnds, tables, Inv, Shape
  <2>3. snapshot' \in [Path -> Counter \cup {None}]
    BY DEF Neighbours, CoverJoins, CoverLeaves, PathConnects, PathGoes, FixPath, RoundStarts,
           RoundEnds, tables, Inv, Shape
  <2> QED BY <1>1, <2>1, <2>2, <2>3 DEF Inv, Shape, watch
<1>3. LockInv' /\ JobInv'
  BY <1>1 DEF Inv, LockInv, JobInv, watch
<1>4. SendInv'
  <2> SUFFICES ASSUME NEW j \in Job, publish[j] = "send"
               PROVE  covers' = covers /\ Connected' = Connected
    BY <1>1 DEF Inv, SendInv
  <2>1. coversLock # None /\ pathsLock # None
    BY PublishAssumption DEF Inv, LockInv, Locked
  <2> QED
    BY <2>1 DEF Neighbours, CoverJoins, CoverLeaves, PathConnects, PathGoes, FixPath,
           RoundStarts, RoundEnds, tables, CanWritePaths, Connected
<1> QED BY <1>2, <1>3, <1>4 DEF Inv

LEMMA PublishInv ==
  ASSUME Inv, NEW j \in Job,
         PublishStep(j) \/ \E p \in Path \cup {None} : PostMessage(j, p)
  PROVE  Inv'
<1> USE DEF Inv, Shape, LockInv, SendInv, JobInv, Stages, Locked, Goto, Unlock,
            locks, tables, watch, Connected
<1>1. CASE \E p \in Path \cup {None} : PostMessage(j, p)
  <2>1. PICK p \in Path \cup {None} : PostMessage(j, p)
    BY <1>1
  <2>2. via' \in [Job -> Path \cup {None}] /\ publish' \in [Job -> Stages]
    BY <2>1 DEF PostMessage
  <2>3. Shape'
    BY <2>1, <2>2 DEF PostMessage
  <2>4. \A i \in Job : i # j => publish'[i] = publish[i] /\ via'[i] = via[i]
    BY <2>1 DEF PostMessage
  <2>5. publish[j] = "idle" /\ publish'[j] = "lockCovers"
    BY <2>1 DEF PostMessage
  <2>6. UNCHANGED <<coversLock, pathsLock, covers, paths, status, checker>>
    BY <2>1 DEF PostMessage
  <2>7. LockInv'
    BY <2>4, <2>5, <2>6
  <2>8. SendInv'
    <3>1. Connected' = Connected /\ covers' = covers
      BY <2>6
    <3>2. \A i \in Job : publish'[i] = "send" => publish[i] = "send"
      BY <2>4, <2>5
    <3> HIDE DEF Connected
    <3> QED BY <3>1, <3>2
  <2>9. JobInv'
    BY <2>4, <2>5, <2>6
  <2> QED BY <2>3, <2>7, <2>8, <2>9
<1>2. CASE LockCovers(j)
  BY <1>2, PublishAssumption DEF LockCovers
<1>3. CASE LockPaths(j)
  BY <1>3, PublishAssumption DEF LockPaths, CanWritePaths
<1>4. ASSUME NEW p \in Path, Accept(j, p) PROVE Inv'
  BY <1>4 DEF Accept
<1>5. CASE Refuse(j)
  BY <1>5 DEF Refuse
<1>6. CASE Send(j)
  BY <1>6 DEF Send
<1>7. CASE SendFails(j)
  BY <1>7 DEF SendFails
<1>8. CASE Record(j)
  BY <1>8 DEF Record
<1>9. CASE Return(j)
  BY <1>9 DEF Return
<1> QED
  BY <1>1, <1>2, <1>3, <1>4, <1>5, <1>6, <1>7, <1>8, <1>9 DEF PublishStep

LEMMA CountKeepsPaths ==
  ASSUME Inv, NEW j \in Job, NEW k \in {"success", "failure"}, CountOn(j, k)
  PROVE  paths' \in [Path -> Counter \cup {None}] /\ Connected' = Connected
<1> DEFINE q == via[j]
           new == [paths[q] EXCEPT ![k] = @ + 1]
<1>1. CASE q \in Connected
  <2>1. paths[q] \in Counter
    BY <1>1 DEF Connected, Inv, Shape
  <2>2. new \in Counter
    BY <2>1, CounterFacts
  <2>3. paths' = [paths EXCEPT ![q] = new]
    BY <1>1 DEF CountOn
  <2> HIDE DEF new, q
  <2> QED BY <1>1, <2>2, <2>3, CounterFacts DEF Connected, Inv, Shape
<1>2. CASE q \notin Connected
  BY <1>2 DEF CountOn, Inv, Shape, Connected
<1> QED BY <1>1, <1>2

LEMMA CheckInv ==
  ASSUME Inv, NEW j \in Job, PollerStep(j) \/ CheckerStep(j)
  PROVE  Inv'
<1>1. CASE Down("sendOnClosedChannel")
  BY <1>1, DownInv
<1>2. ASSUME ~Down("sendOnClosedChannel"), PollerStep(j) PROVE Inv'
  <2>1. /\ poller' \in [Job -> {"none", "ask", "answer", "sleep", "ended"}]
        /\ UNCHANGED <<locks, tables, publish, via, status, checker, process>>
    BY <1>2 DEF PollerStep, NotDiscovered, Discovered, PollAgain, PollerStops, Polls, Inv, Shape
  <2> QED BY <2>1 DEF Inv, Shape, LockInv, SendInv, JobInv, locks, tables, Connected
<1>3. ASSUME ~Down("sendOnClosedChannel"), CheckerStep(j), ~Count(j) PROVE Inv'
  <2>1. /\ UNCHANGED <<locks, tables, publish, via, process>>
        /\ poller' \in [Job -> {"none", "ask", "answer", "sleep", "ended"}]
    BY <1>3 DEF CheckerStep, Succeeds, TimesOut, MarkStatus, Close, Checks, Inv, Shape
  <2>2. Shape' /\ JobInv'
    <3>1. CASE Succeeds(j) \/ TimesOut(j)
      BY <2>1, <3>1 DEF Succeeds, TimesOut, Checks, Inv, Shape, JobInv, locks, tables
    <3>2. CASE MarkStatus(j)
      BY <2>1, <3>2 DEF MarkStatus, Checks, Inv, Shape, JobInv, locks, tables
    <3>3. CASE Close(j)
      BY <1>3, <2>1, <3>3 DEF Close, Checks, Inv, Shape, JobInv, locks, tables
    <3> QED BY <1>3, <3>1, <3>2, <3>3 DEF CheckerStep
  <2> QED BY <2>1, <2>2 DEF Inv, LockInv, SendInv, locks, tables, Connected
<1>4. CASE Count(j)
  <2>1. /\ paths' \in [Path -> Counter \cup {None}]
        /\ Connected' = Connected
    BY <1>4, CountKeepsPaths DEF Count
  <2> QED
    BY <1>4, <2>1 DEF Count, Inv, Shape, LockInv, SendInv, JobInv, locks
<1> QED BY <1>1, <1>2, <1>3, <1>4

LEMMA NextInv == Inv /\ [Next]_vars => Inv'
<1> SUFFICES ASSUME Inv, [Next]_vars PROVE Inv'
  OBVIOUS
<1>1. CASE Restart
  BY <1>1 DEF Restart, Inv, Shape, LockInv, SendInv, JobInv, locks, tables, watch, Connected
<1>2. CASE UNCHANGED vars
  BY <1>2 DEF vars, Inv, Shape, LockInv, SendInv, JobInv, locks, tables, watch, Connected
<1> QED
  BY <1>1, <1>2, NeighboursInv, PublishInv, CheckInv, DownInv DEF Next, Stop

LEMMA AlwaysInv == Spec => []Inv
  BY InitInv, NextInv, PTL DEF Spec

-----------------------------------------------------------------------------
(* PublishJobs implements PublishBoard. *)

(* Steps that leave the outcomes alone. *)
LEMMA OutcomesStay ==
  ASSUME UNCHANGED status, \A j \in Job : publish'[j] = "record" <=> publish[j] = "record"
  PROVE  [j \in Job |-> Outcome(j)]' = [j \in Job |-> Outcome(j)]
  BY DEF Outcome

LEMMA ConnectedIsPaths == Connected \subseteq Path
  BY DEF Connected

LEMMA InitBoard == Init => Board!Init
  BY DEF Init, Idle, Board!Init, Connected, Outcome

LEMMA DownBoard ==
  ASSUME Down("stopped") \/ Down("sendOnClosedChannel")
  PROVE  Board!End
<1>1. covers' = {} /\ Connected' = {}
  BY DEF Down, Connected
<1>2. \A j \in Job : Outcome(j)' = "none"
  BY DEF Down, Outcome
<1> QED BY <1>1, <1>2 DEF Board!End

LEMMA NeighboursBoard ==
  ASSUME Inv, Neighbours
  PROVE  Board!NeighboursChange
<1>1. [j \in Job |-> Outcome(j)]' = [j \in Job |-> Outcome(j)]
  <2>1. UNCHANGED <<status, publish>>
    BY DEF Neighbours, CoverJoins, CoverLeaves, PathConnects, PathGoes, FixPath, RoundStarts,
           RoundEnds, watch
  <2> QED BY <2>1, OutcomesStay
<1>2. covers' \in SUBSET Cover /\ Connected' \in SUBSET Path
  BY NeighboursInv DEF Inv, Shape, Connected
<1>3. covers' = covers \/ Connected' = Connected
  BY DEF Neighbours, CoverJoins, CoverLeaves, PathConnects, PathGoes, FixPath, RoundStarts,
         RoundEnds, tables, Connected
<1> QED BY <1>1, <1>2, <1>3 DEF Board!NeighboursChange

LEMMA SendBoard ==
  ASSUME Inv, NEW j \in Job, Send(j)
  PROVE  Board!Publish(j)
<1>1. Cardinality(covers) >= MinCovers /\ Connected # {} /\ status[j] = "none"
  BY DEF Send, Inv, SendInv, JobInv
<1>2. /\ UNCHANGED <<covers, paths, status>> /\ publish \in [Job -> Stages]
      /\ publish[j] = "send" /\ publish' = [publish EXCEPT ![j] = "record"]
  BY DEF Send, Goto, tables, watch, Inv, Shape
<1>3. Outcome(j) = "none" /\ Outcome(j)' = "published"
  BY <1>1, <1>2 DEF Outcome
<1>4. \A i \in Job : i # j => Outcome(i)' = Outcome(i)
  BY <1>2 DEF Outcome
<1>5. [i \in Job |-> Outcome(i)]' = [[i \in Job |-> Outcome(i)] EXCEPT ![j] = "published"]
  BY <1>3, <1>4
<1>6. UNCHANGED <<covers, Connected>> /\ [i \in Job |-> Outcome(i)][j] = "none"
  BY <1>2, <1>3 DEF Connected
<1>7. Board!Cardinality(covers) = Cardinality(covers)
  BY DEF Board!Cardinality, Cardinality
<1> QED BY <1>1, <1>5, <1>6, <1>7 DEF Board!Publish

LEMMA MarkBoard ==
  ASSUME Inv, NEW j \in Job, MarkStatus(j)
  PROVE  Board!Decide(j)
<1>1. /\ UNCHANGED <<covers, paths, publish>> /\ status[j] = "pending"
      /\ checker[j] \in {"success", "timeout"}
      /\ status' = [status EXCEPT ![j] = checker[j]]
      /\ status \in [Job -> {"none", "pending", "success", "timeout"}]
  BY DEF MarkStatus, Checks, tables, Inv, JobInv, Shape
<1>2. Outcome(j) = "published" /\ Outcome(j)' = checker[j]
  BY <1>1 DEF Outcome
<1>3. \A i \in Job : i # j => Outcome(i)' = Outcome(i)
  BY <1>1 DEF Outcome
<1>4. [i \in Job |-> Outcome(i)]' = [[i \in Job |-> Outcome(i)] EXCEPT ![j] = checker[j]]
  BY <1>2, <1>3
<1> QED BY <1>1, <1>2, <1>4 DEF Board!Decide, Connected

LEMMA RecordBoard ==
  ASSUME Inv, NEW j \in Job, Record(j)
  PROVE  UNCHANGED Board!vars
<1>1. /\ UNCHANGED <<covers, paths>> /\ publish[j] = "record" /\ status[j] = "none"
      /\ publish' = [publish EXCEPT ![j] = "unlock"]
      /\ status' = [status EXCEPT ![j] = "pending"]
      /\ publish \in [Job -> Stages]
      /\ status \in [Job -> {"none", "pending", "success", "timeout"}]
  BY DEF Record, Goto, tables, Inv, Shape, JobInv
<1>2. Outcome(j) = "published" /\ Outcome(j)' = "published"
  BY <1>1 DEF Outcome
<1>3. \A i \in Job : i # j => Outcome(i)' = Outcome(i)
  BY <1>1 DEF Outcome
<1>4. [i \in Job |-> Outcome(i)]' = [i \in Job |-> Outcome(i)]
  BY <1>2, <1>3
<1> QED BY <1>1, <1>4 DEF Board!vars, Connected

(* The other steps of Publish and of the checker are not seen. *)
LEMMA UnseenBoard ==
  ASSUME Inv, NEW j \in Job,
         \/ (\E p \in Path \cup {None} : PostMessage(j, p))
         \/ PublishStep(j) /\ ~Send(j) /\ ~Record(j)
         \/ PollerStep(j) /\ ~Down("sendOnClosedChannel")
         \/ CheckerStep(j) /\ ~MarkStatus(j) /\ ~Down("sendOnClosedChannel")
  PROVE  UNCHANGED Board!vars
<1>1. covers' = covers /\ Connected' = Connected
  <2>1. CASE Count(j)
    BY <2>1, CountKeepsPaths DEF Count
  <2>2. CASE ~Count(j)
    BY <2>2 DEF PostMessage, PublishStep, LockCovers, LockPaths, Accept, Refuse, SendFails, Return,
       PollerStep, NotDiscovered, Discovered, PollAgain, PollerStops, Polls, CheckerStep,
       Succeeds, TimesOut, Close, Checks, tables, Connected
  <2> QED BY <2>1, <2>2
<1>2. UNCHANGED status
  BY DEF PostMessage, PublishStep, LockCovers, LockPaths, Accept, Refuse, SendFails, Return,
     PollerStep, NotDiscovered, Discovered, PollAgain, PollerStops, Polls, CheckerStep,
     Succeeds, TimesOut, Count, Close, Checks, watch
<1>3. \A i \in Job : publish'[i] = "record" <=> publish[i] = "record"
  <2>1. \/ publish' = publish
        \/ \E to \in Stages \ {"record"} : publish[j] # "record" /\ Goto(j, to)
    BY DEF PostMessage, PublishStep, LockCovers, LockPaths, Accept, Refuse, SendFails, Return,
       PollerStep, NotDiscovered, Discovered, PollAgain, PollerStops, Polls, CheckerStep,
       Succeeds, TimesOut, Count, Close, Checks, Stages, Locked
  <2> QED BY <2>1 DEF Goto, Inv, Shape
<1> QED BY <1>1, <1>2, <1>3, OutcomesStay DEF Board!vars

LEMMA NextBoard == Inv /\ [Next]_vars => [Board!Next]_(Board!vars)
<1> SUFFICES ASSUME Inv, [Next]_vars PROVE Board!Next \/ UNCHANGED Board!vars
  BY DEF Board!vars
<1>1. ASSUME NEW j \in Job, PublishStep(j) \/ \E p \in Path \cup {None} : PostMessage(j, p)
      PROVE  Board!Next \/ UNCHANGED Board!vars
  BY <1>1, SendBoard, RecordBoard, UnseenBoard DEF Board!Next
<1>2. ASSUME NEW j \in Job, PollerStep(j) \/ CheckerStep(j)
      PROVE  Board!Next \/ UNCHANGED Board!vars
  BY <1>2, MarkBoard, UnseenBoard, DownBoard DEF Board!Next
<1>3. CASE Neighbours
  BY <1>3, NeighboursBoard DEF Board!Next
<1>4. CASE Stop
  BY <1>4, DownBoard DEF Stop, Board!Next
<1>5. CASE Restart \/ UNCHANGED vars
  <2>1. UNCHANGED <<covers, paths, status, publish>>
    BY <1>5 DEF Restart, vars, tables, watch
  <2>2. [j \in Job |-> Outcome(j)]' = [j \in Job |-> Outcome(j)]
    BY <2>1, OutcomesStay
  <2> QED BY <2>1, <2>2 DEF Board!vars, Connected
<1> QED
  BY <1>1, <1>2, <1>3, <1>4, <1>5 DEF Next

(* Publishing looks like one step: whatever covers and paths do meanwhile,   *)
(* a message leaves while the publishing condition holds, and the outcome   *)
(* of its job is settled once.                                             *)
THEOREM PublishIsAtomic == Spec => ImplementsBoard
  BY InitBoard, AlwaysInv, NextBoard, PTL DEF Spec, ImplementsBoard, Board!Spec

-----------------------------------------------------------------------------
(* CountsAreReal needs to know which jobs have been counted: those whose    *)
(* checker is past Count.  A snapshot taken for a FIX obeys the same bound. *)
Counted(p, s) ==
    {j \in Job : via[j] = p /\ status[j] = s /\ checker[j] \in {"close", "ended"}}

Failures(p) == Cardinality(Counted(p, "timeout"))
Successes(p) == Cardinality(Counted(p, "success"))

Bounded(k, failures, successes) ==
    k # None => k.failure <= failures /\ k.success <= successes

CountInv ==
    \A p \in Path : /\ Bounded(paths[p], Failures(p), Successes(p))
                    /\ Bounded(snapshot[p], Failures(p), Successes(p))

LEMMA CountedIsFinite ==
  /\ \A p, s : IsFiniteSet(Counted(p, s)) /\ Cardinality(Counted(p, s)) \in Nat
  /\ \A p, s : IsFiniteSet(Counted(p, s)') /\ Cardinality(Counted(p, s)') \in Nat
<1>1. ASSUME NEW S \in SUBSET Job PROVE IsFiniteSet(S) /\ Cardinality(S) \in Nat
  BY PublishAssumption, FS_Subset, FS_CardinalityType
<1> QED BY <1>1 DEF Counted

LEMMA Totals ==
  \A p : /\ Failures(p) \in Nat /\ Successes(p) \in Nat
         /\ Failures(p)' \in Nat /\ Successes(p)' \in Nat
  BY CountedIsFinite DEF Failures, Successes

(* While the process lives, a counted job stays counted. *)
LEMMA CountedGrows ==
  ASSUME Inv, Next, ~Down("stopped"), ~Down("sendOnClosedChannel"), NEW p \in Path, NEW s
  PROVE  Counted(p, s) \subseteq Counted(p, s)'
<1>1. ASSUME NEW j \in Job, checker[j] \in {"close", "ended"}
      PROVE  /\ via'[j] = via[j] /\ status'[j] = status[j]
             /\ checker'[j] \in {"close", "ended"}
  <2>1. /\ publish[j] \in {"unlock", "returned"} /\ status[j] \in {"success", "timeout"}
        /\ via \in [Job -> Path \cup {None}]
        /\ status \in [Job -> {"none", "pending", "success", "timeout"}]
        /\ checker \in [Job -> {"none", "wait", "success", "timeout", "count", "close", "ended"}]
    BY <1>1 DEF Inv, JobInv, Shape
  <2>2. ASSUME NEW i \in Job, PublishStep(i) \/ \E q \in Path \cup {None} : PostMessage(i, q)
        PROVE  /\ via'[j] = via[j] /\ status'[j] = status[j] /\ checker'[j] = checker[j]
    BY <1>1, <2>1, <2>2 DEF PublishStep, PostMessage, LockCovers, LockPaths, Accept, Refuse, Send,
       SendFails, Record, Return, watch
  <2>3. ASSUME NEW i \in Job, PollerStep(i)
        PROVE  UNCHANGED <<via, status, checker>>
    BY <2>3 DEF PollerStep, NotDiscovered, Discovered, PollAgain, PollerStops, Polls
  <2>4. ASSUME NEW i \in Job, CheckerStep(i)
        PROVE  /\ via'[j] = via[j] /\ status'[j] = status[j]
               /\ checker'[j] \in {"close", "ended"}
    <3>1. CASE Succeeds(i) \/ TimesOut(i) \/ MarkStatus(i)
      BY <1>1, <2>1, <3>1 DEF Succeeds, TimesOut, MarkStatus, Checks
    <3>2. CASE Count(i) \/ Close(i)
      BY <1>1, <2>1, <3>2 DEF Count, Close, Checks
    <3> QED BY <2>4, <3>1, <3>2 DEF CheckerStep
  <2>5. ASSUME Neighbours \/ Stop \/ Restart
        PROVE  UNCHANGED <<via, status, checker>>
    BY <2>5 DEF Neighbours, CoverJoins, CoverLeaves, PathConnects, PathGoes, FixPath,
       RoundStarts, RoundEnds, Stop, Restart, watch
  <2> QED BY <1>1, <2>2, <2>3, <2>4, <2>5 DEF Next
<1> QED BY <1>1 DEF Counted

(* What the other steps may put into paths and snapshot. *)
LEMMA CountsMove ==
  ASSUME Inv, [Next]_vars, ~Down("stopped"), ~Down("sendOnClosedChannel"),
         \A j \in Job : ~Count(j), NEW p \in Path
  PROVE  /\ paths'[p] \in {paths[p], snapshot[p], Fresh, None}
         /\ snapshot'[p] \in {paths[p], snapshot[p], None}
<1>1. /\ paths \in [Path -> Counter \cup {None}]
      /\ snapshot \in [Path -> Counter \cup {None}]
  BY DEF Inv, Shape
<1>2. CASE Neighbours
  BY <1>1, <1>2 DEF Neighbours, CoverJoins, CoverLeaves, PathConnects, PathGoes, FixPath,
     RoundStarts, RoundEnds, tables
<1>3. ASSUME NEW j \in Job,
             \/ PublishStep(j) \/ PollerStep(j) \/ CheckerStep(j)
             \/ \E q \in Path \cup {None} : PostMessage(j, q)
      PROVE  UNCHANGED <<paths, snapshot>>
  BY <1>3 DEF PublishStep, PostMessage, LockCovers, LockPaths, Accept, Refuse, Send, SendFails,
     Record, Return, PollerStep, NotDiscovered, Discovered, PollAgain, PollerStops, Polls,
     CheckerStep, Succeeds, TimesOut, MarkStatus, Close, Checks, tables
<1>4. CASE Stop \/ Restart \/ UNCHANGED vars
  BY <1>4 DEF Stop, Restart, vars, tables
<1> QED BY <1>2, <1>3, <1>4 DEF Next

LEMMA InitCount == Init => CountInv
  BY DEF Init, Idle, CountInv, Bounded

(* A bound stays valid as counted jobs are added. *)
LEMMA BoundsGrow ==
  ASSUME NEW k \in Counter \cup {None}, NEW f \in Nat, NEW s \in Nat,
         NEW g \in Nat, NEW t \in Nat, f <= g, s <= t, Bounded(k, f, s)
  PROVE  Bounded(k, g, t)
  BY DEF Bounded, Counter

LEMMA TotalsGrow ==
  ASSUME Inv, Next, ~Down("stopped"), ~Down("sendOnClosedChannel"), NEW p \in Path
  PROVE  Failures(p) <= Failures(p)' /\ Successes(p) <= Successes(p)'
<1>1. \A s : Counted(p, s) \subseteq Counted(p, s)'
  BY CountedGrows
<1>2. \A s : Cardinality(Counted(p, s)) <= Cardinality(Counted(p, s)')
  BY <1>1, CountedIsFinite, FS_Subset
<1> QED BY <1>2 DEF Failures, Successes

LEMMA CountStep ==
  ASSUME Inv, CountInv, NEW j \in Job, Count(j)
  PROVE  CountInv'
<1>0. PICK q \in Path, s \in {"success", "timeout"} : q = via[j] /\ s = status[j]
  BY DEF Count, Inv, JobInv, Shape
<1> DEFINE counter == IF s = "success" THEN "success" ELSE "failure"
<1>1. /\ q = via[j] /\ s = status[j]
      /\ UNCHANGED <<via, status, snapshot>>
      /\ checker[j] = "count" /\ checker' = [checker EXCEPT ![j] = "close"]
      /\ checker \in [Job -> {"none", "wait", "success", "timeout", "count", "close", "ended"}]
      /\ paths \in [Path -> Counter \cup {None}]
      /\ snapshot \in [Path -> Counter \cup {None}]
      /\ CountOn(j, counter)
  BY <1>0 DEF Count, Inv, JobInv, Shape
<1>2. \A r : r # s => Counted(q, r)' = Counted(q, r)
  BY <1>1 DEF Counted
<1>3. \A p \in Path : p # q => \A r : Counted(p, r)' = Counted(p, r)
  BY <1>1 DEF Counted
<1>4. Cardinality(Counted(q, s)') = Cardinality(Counted(q, s)) + 1
  <2>1. Counted(q, s)' = Counted(q, s) \cup {j} /\ j \notin Counted(q, s)
    BY <1>1 DEF Counted
  <2> QED BY <2>1, CountedIsFinite, FS_AddElement
<1>5. \A p \in Path : p # q => Failures(p)' = Failures(p) /\ Successes(p)' = Successes(p)
  BY <1>3 DEF Failures, Successes
<1>6. \/ s = "success" /\ Successes(q)' = Successes(q) + 1 /\ Failures(q)' = Failures(q)
      \/ s = "timeout" /\ Failures(q)' = Failures(q) + 1 /\ Successes(q)' = Successes(q)
  <2>1. CASE s = "success"
    <3>1. Counted(q, "timeout")' = Counted(q, "timeout")
      BY <1>2, <2>1
    <3>2. Failures(q)' = Failures(q)
      BY <3>1 DEF Failures
    <3>3. Cardinality(Counted(q, "success")') = Cardinality(Counted(q, "success")) + 1
      BY <1>4, <2>1
    <3>4. Successes(q)' = Successes(q) + 1
      BY <3>3 DEF Successes
    <3> QED BY <2>1, <3>2, <3>4
  <2>2. CASE s = "timeout"
    <3>1. Counted(q, "success")' = Counted(q, "success")
      BY <1>2, <2>2
    <3>2. Successes(q)' = Successes(q)
      BY <3>1 DEF Successes
    <3>3. Cardinality(Counted(q, "timeout")') = Cardinality(Counted(q, "timeout")) + 1
      BY <1>4, <2>2
    <3>4. Failures(q)' = Failures(q) + 1
      BY <3>3 DEF Failures
    <3> QED BY <2>2, <3>2, <3>4
  <2> QED BY <1>1, <2>1, <2>2
<1> DEFINE f == Failures(q)
           g == Failures(q)'
           u == Successes(q)
           v == Successes(q)'
<1>7. f \in Nat /\ g \in Nat /\ u \in Nat /\ v \in Nat
  BY Totals
<1>8. /\ paths[q] \in Counter \cup {None} /\ snapshot[q] \in Counter \cup {None}
      /\ Bounded(paths[q], f, u) /\ Bounded(snapshot[q], f, u)
  BY <1>1 DEF CountInv
<1> HIDE DEF f, g, u, v
<1>9. \/ s = "success" /\ v = u + 1 /\ g = f
      \/ s = "timeout" /\ g = f + 1 /\ v = u
  BY <1>6 DEF f, g, u, v
<1>10. Bounded(paths[q], g, v) /\ Bounded(snapshot[q], g, v)
  BY <1>7, <1>8, <1>9, BoundsGrow
<1>11. Bounded(paths'[q], g, v) /\ \A p \in Path : p # q => paths'[p] = paths[p]
  <2>1. CASE q \in Connected
    <3> DEFINE new == [paths[q] EXCEPT ![counter] = @ + 1]
    <3>1. paths' = [paths EXCEPT ![q] = new]
      BY <1>1, <2>1 DEF CountOn
    <3>2. paths[q] \in Counter /\ paths[q] # None
      BY <1>8, <2>1 DEF Connected
    <3>3. \/ s = "success" /\ new.success = paths[q].success + 1 /\ new.failure = paths[q].failure
          \/ s = "timeout" /\ new.failure = paths[q].failure + 1 /\ new.success = paths[q].success
      BY <1>9, <3>2 DEF Counter
    <3>4. paths[q].failure <= f /\ paths[q].success <= u
      BY <1>8, <3>2 DEF Bounded
    <3>5. paths[q].failure \in Nat /\ paths[q].success \in Nat
      BY <3>2 DEF Counter
    <3> HIDE DEF new
    <3>6. new.failure <= g /\ new.success <= v
      <4>1. CASE s = "success"
        BY <1>7, <1>9, <3>3, <3>4, <3>5, <4>1
      <4>2. CASE s = "timeout"
        BY <1>7, <1>9, <3>3, <3>4, <3>5, <4>2
      <4> QED BY <1>1, <4>1, <4>2
    <3>7. paths'[q] = new /\ \A p \in Path : p # q => paths'[p] = paths[p]
      BY <1>1, <3>1
    <3> QED BY <3>6, <3>7 DEF Bounded
  <2>2. CASE q \notin Connected
    BY <1>1, <1>10, <2>2 DEF CountOn
  <2> QED BY <2>1, <2>2
<1>12. ASSUME NEW p \in Path
       PROVE  /\ Bounded(paths'[p], Failures(p)', Successes(p)')
              /\ Bounded(snapshot'[p], Failures(p)', Successes(p)')
  <2>1. CASE p = q
    BY <1>1, <1>10, <1>11, <2>1 DEF g, v
  <2>2. CASE p # q
    <3>1. paths'[p] = paths[p] /\ snapshot'[p] = snapshot[p]
      BY <1>1, <1>11, <2>2
    <3> QED BY <1>5, <2>2, <3>1 DEF CountInv
  <2> QED BY <2>1, <2>2
<1> QED BY <1>12 DEF CountInv, Bounded

LEMMA NextCount == Inv /\ CountInv /\ [Next]_vars => CountInv'
<1> SUFFICES ASSUME Inv, CountInv, [Next]_vars PROVE CountInv'
  OBVIOUS
<1>1. CASE UNCHANGED vars
  BY <1>1 DEF vars, tables, watch, CountInv, Bounded, Failures, Successes, Counted
<1>2. CASE Down("stopped") \/ Down("sendOnClosedChannel")
  BY <1>2 DEF Down, CountInv, Bounded
<1>3. ASSUME NEW j \in Job, Count(j) PROVE CountInv'
  BY <1>3, CountStep
<1>4. ASSUME Next, ~Down("stopped"), ~Down("sendOnClosedChannel"), \A j \in Job : ~Count(j)
      PROVE  CountInv'
  <2>1. ASSUME NEW p \in Path
        PROVE  /\ Bounded(paths'[p], Failures(p)', Successes(p)')
               /\ Bounded(snapshot'[p], Failures(p)', Successes(p)')
    <3>1. /\ paths'[p] \in {paths[p], snapshot[p], Fresh, None}
          /\ snapshot'[p] \in {paths[p], snapshot[p], None}
      BY <1>4, CountsMove
    <3>2. \A k \in {paths[p], snapshot[p], Fresh, None} :
             k \in Counter \cup {None} /\ Bounded(k, Failures(p), Successes(p))
      <4>1. /\ paths[p] \in Counter \cup {None} /\ snapshot[p] \in Counter \cup {None}
            /\ Bounded(paths[p], Failures(p), Successes(p))
            /\ Bounded(snapshot[p], Failures(p), Successes(p))
        BY DEF Inv, Shape, CountInv
      <4>2. Fresh \in Counter /\ Bounded(Fresh, Failures(p), Successes(p))
        BY CounterFacts, Totals DEF Bounded, Fresh
      <4> QED BY <4>1, <4>2 DEF Bounded
    <3>3. \A k \in {paths[p], snapshot[p], Fresh, None} :
             Bounded(k, Failures(p)', Successes(p)')
      BY <1>4, <3>2, Totals, TotalsGrow, BoundsGrow
    <3> QED BY <3>1, <3>3
  <2> QED BY <2>1 DEF CountInv, Bounded
<1> QED BY <1>1, <1>2, <1>3, <1>4

LEMMA AlwaysCount == Spec => [](Inv /\ CountInv)
  BY InitInv, InitCount, NextInv, NextCount, PTL DEF Spec

(* No path is charged a failure or credited a success that its jobs did not  *)
(* have, whichever FIX, replacement or restart comes between.              *)
THEOREM CountsAreTrue == Spec => []CountsAreReal
<1>1. Inv /\ CountInv => CountsAreReal
  <2> SUFFICES ASSUME Inv, CountInv, NEW p \in Path, paths[p] # None
               PROVE  /\ paths[p].failure <= Cardinality({j \in Job : via[j] = p /\ status[j] = "timeout"})
                      /\ paths[p].success <= Cardinality({j \in Job : via[j] = p /\ status[j] = "success"})
    BY DEF CountsAreReal
  <2> DEFINE All(s) == {j \in Job : via[j] = p /\ status[j] = s}
  <2>1. ASSUME NEW s
        PROVE  Cardinality(Counted(p, s)) <= Cardinality(All(s)) /\ Cardinality(All(s)) \in Nat
    <3>1. IsFiniteSet(All(s)) /\ Counted(p, s) \subseteq All(s)
      BY PublishAssumption, FS_Subset DEF Counted
    <3> QED BY <3>1, FS_Subset, FS_CardinalityType
  <2>2. paths[p].failure \in Nat /\ paths[p].success \in Nat
    BY DEF Inv, Shape, Counter
  <2>3. /\ paths[p].failure <= Failures(p) /\ paths[p].success <= Successes(p)
    BY DEF CountInv, Bounded
  <2>4. /\ Failures(p) <= Cardinality(All("timeout"))
        /\ Successes(p) <= Cardinality(All("success"))
    BY <2>1 DEF Failures, Successes
  <2>5. /\ Cardinality(All("timeout")) \in Nat /\ Cardinality(All("success")) \in Nat
    BY <2>1
  <2> HIDE DEF All
  <2>6. /\ paths[p].failure <= Cardinality(All("timeout"))
        /\ paths[p].success <= Cardinality(All("success"))
    BY <2>2, <2>3, <2>4, <2>5, Totals
  <2> QED BY <2>6 DEF All
<1> QED BY <1>1, AlwaysCount, PTL

(* Every reachable state has the shape TypeOK gives it; in particular no     *)
(* count exceeds the number of jobs.                                       *)
THEOREM PublishTypeCorrect == Spec => []TypeOK
<1>1. Inv /\ CountInv => TypeOK
  <2> SUFFICES ASSUME Inv, CountInv PROVE TypeOK
    OBVIOUS
  <2>1. ASSUME NEW p \in Path, NEW k \in Counter, Bounded(k, Failures(p), Successes(p))
        PROVE  k \in Counts
    <3>1. Failures(p) <= Cardinality(Job) /\ Successes(p) <= Cardinality(Job)
      BY PublishAssumption, FS_Subset DEF Failures, Successes, Counted
    <3>2. k.failure \in Nat /\ k.success \in Nat /\ k # None
      BY CounterFacts DEF Counter
    <3>3. Cardinality(Job) \in Nat
      BY PublishAssumption, FS_CardinalityType
    <3>4. k.failure <= Failures(p) /\ k.success <= Successes(p)
      BY <2>1, <3>2 DEF Bounded
    <3>5. k.failure \in 0..Cardinality(Job) /\ k.success \in 0..Cardinality(Job)
      BY <3>1, <3>2, <3>3, <3>4, Totals
    <3> QED BY <3>5 DEF Counts, Counter
  <2>2. /\ paths \in [Path -> Counts \cup {None}]
        /\ snapshot \in [Path -> Counts \cup {None}]
    BY <2>1 DEF Inv, Shape, CountInv
  <2> QED BY <2>2 DEF Inv, Shape, TypeOK, Stages
<1> QED BY <1>1, AlwaysCount, PTL
=============================================================================

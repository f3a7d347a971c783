----------------------------- MODULE HealthRounds -----------------------------
(***************************************************************************)
(* Who waits for whom when nodes check the health of their paths.          *)
(* invalidPathProfiles (p2p/workers.go) keeps the read lock of n.paths     *)
(* while it queries the next hops; the next hops need the read lock of     *)
(* their own paths to answer (handleQueryPathReq, handleVerifyCoverReq in  *)
(* p2p/handlers_tcp.go), which a waiting writer keeps from them.           *)
(*                                                                         *)
(* What the answers say is left out: see Paths.                            *)
(***************************************************************************)
EXTENDS MutexMap

CONSTANTS
    Node,
    Writer,      \* goroutines of a node that write to its maps
    NextHops     \* node -> the next hops of its paths

ASSUME HealthRoundsAssumption ==
    /\ NextHops \in [Node -> SUBSET Node]
    /\ \A n \in Node : n \notin NextHops[n]
    /\ Nobody \notin Writer

VARIABLES
    paths,    \* node -> the lock of n.paths, read by nodes: n is the round of
              \* n itself, another one the request of that node
    covers,   \* node -> the lock of n.covers
    round,    \* node -> the stage of invalidPathProfiles: the next hops it has
              \* still to ask, and the one it waits for
    query,    \* node -> requester -> stage of its handleQueryPathReq
    verify,   \* node -> requester -> stage of its handleVerifyCoverReq
    writer    \* node -> writer -> what it does

vars == <<paths, covers, round, query, verify, writer>>

Idle == [todo |-> {}, asked |-> Nobody, on |-> FALSE]
Round == [todo : SUBSET Node, asked : Node \cup {Nobody}, on : BOOLEAN]
QueryStage == {"none", "size", "sized", "iterate", "reply", "log"}
WriterStage == {"idle", "writes", "publishes", "checks"}

LockOf(who) == [readers : SUBSET who, waiting : SUBSET who, writer : Writer \cup {Nobody}]

Init ==
    /\ paths = [n \in Node |-> Unlocked] /\ covers = [n \in Node |-> Unlocked]
    /\ round = [n \in Node |-> Idle]
    /\ query = [n \in Node |-> [r \in Node |-> "none"]]
    /\ verify = [n \in Node |-> [r \in Node |-> "none"]]
    /\ writer = [n \in Node |-> [w \in Writer |-> "idle"]]

-----------------------------------------------------------------------------
(* invalidPathProfiles *)

(* Mutant: paths of the node's own trees are not skipped. *)
StartRoundAll(n) ==
    /\ ~round[n].on
    /\ round' = [round EXCEPT ![n] = [Idle EXCEPT !.todo = NextHops[n] \cup {"ImmutableStorage"},
                                                 !.on = TRUE]]
    /\ paths' = [paths EXCEPT ![n] = RLock(@, n)]
    /\ UNCHANGED <<covers, query, verify, writer>>

StartRound(n) ==
    /\ ~round[n].on
    /\ round' = [round EXCEPT ![n] = [Idle EXCEPT !.todo = NextHops[n], !.on = TRUE]]
    /\ paths' = [paths EXCEPT ![n] = RLock(@, n)]
    /\ UNCHANGED <<covers, query, verify, writer>>

Iterating(n) == round[n].on /\ Reads(paths[n], n) /\ round[n].asked = Nobody

Settled(n, h) == [round[n] EXCEPT !.todo = @ \ {h}, !.asked = Nobody]

(* Bound: a next hop that is still busy with an earlier request of n counts *)
(* as unreachable.                                                         *)
Ask(n, h) ==
    /\ Iterating(n) /\ h \in round[n].todo /\ query[h][n] = "none"
    /\ round' = [round EXCEPT ![n].asked = h]
    /\ query' = [query EXCEPT ![h][n] = "size"]
    /\ paths' = [paths EXCEPT ![h] = RLock(@, n)]
    /\ UNCHANGED <<covers, verify, writer>>

Unreachable(n, h) ==
    /\ Iterating(n) /\ h \in round[n].todo
    /\ round' = [round EXCEPT ![n] = Settled(n, h)]
    /\ UNCHANGED <<paths, covers, query, verify, writer>>

(* Mutant: only a connection that breaks ends the wait. *)
WaitsForEnd(n) ==
    /\ round[n].asked # Nobody /\ query[round[n].asked][n] = "none"
    /\ round' = [round EXCEPT ![n] = Settled(n, round[n].asked)]
    /\ UNCHANGED <<paths, covers, query, verify, writer>>

(* waitForResponse: TCP_REQUEST_TIMEOUT. *)
TimesOut(n) ==
    /\ round[n].asked # Nobody
    /\ round' = [round EXCEPT ![n] = Settled(n, round[n].asked)]
    /\ UNCHANGED <<paths, covers, query, verify, writer>>

(* Mutant: the lock is kept when the iteration is over. *)
EndRoundLocked(n) ==
    /\ Iterating(n) /\ round[n].todo = {}
    /\ round' = [round EXCEPT ![n] = Idle]
    /\ UNCHANGED <<paths, covers, query, verify, writer>>

EndRound(n) ==
    /\ Iterating(n) /\ round[n].todo = {}
    /\ round' = [round EXCEPT ![n] = Idle]
    /\ paths' = [paths EXCEPT ![n] = RUnlock(@, n)]
    /\ UNCHANGED <<covers, query, verify, writer>>

-----------------------------------------------------------------------------
(* handleQueryPathReq at m for r: getSize, iterate, the answer, and getSize *)
(* once more for the log.                                                  *)

At(m, r, stage) == query[m][r] = stage /\ (stage \in {"size", "iterate", "log"}
                                              => Reads(paths[m], r))
GoesTo(m, r, stage) == query' = [query EXCEPT ![m][r] = stage]

GetSize(m, r) ==
    /\ At(m, r, "size")
    /\ \E stage \in {"sized", "reply"} : GoesTo(m, r, stage)
    /\ paths' = [paths EXCEPT ![m] = RUnlock(@, r)]
    /\ UNCHANGED <<covers, round, verify, writer>>

StartIterate(m, r) ==
    /\ At(m, r, "sized") /\ GoesTo(m, r, "iterate")
    /\ paths' = [paths EXCEPT ![m] = RLock(@, r)]
    /\ UNCHANGED <<covers, round, verify, writer>>

(* Mutant: the lock is kept for the answer. *)
IterateLocked(m, r) ==
    /\ At(m, r, "iterate") /\ GoesTo(m, r, "reply")
    /\ UNCHANGED <<paths, covers, round, verify, writer>>

Iterate(m, r) ==
    /\ At(m, r, "iterate") /\ GoesTo(m, r, "reply")
    /\ paths' = [paths EXCEPT ![m] = RUnlock(@, r)]
    /\ UNCHANGED <<covers, round, verify, writer>>

Reply(m, r) ==
    /\ At(m, r, "reply") /\ GoesTo(m, r, "log")
    /\ round' = IF round[r].asked = m THEN [round EXCEPT ![r] = Settled(r, m)] ELSE round
    /\ paths' = [paths EXCEPT ![m] = RLock(@, r)]
    /\ UNCHANGED <<covers, verify, writer>>

(* The requester has given up and closed the connection. *)
ReplyFails(m, r) ==
    /\ At(m, r, "reply") /\ round[r].asked # m /\ GoesTo(m, r, "none")
    /\ UNCHANGED <<paths, covers, round, verify, writer>>

Log(m, r) ==
    /\ At(m, r, "log") /\ GoesTo(m, r, "none")
    /\ paths' = [paths EXCEPT ![m] = RUnlock(@, r)]
    /\ UNCHANGED <<covers, round, verify, writer>>

-----------------------------------------------------------------------------
(* handleVerifyCoverReq at m for r; the requester keeps no lock meanwhile.  *)
(* Bound: one request of each other node at a time.                        *)

Verify(m, r) ==
    /\ m # r /\ verify[m][r] = "none"
    /\ verify' = [verify EXCEPT ![m][r] = "value"]
    /\ covers' = [covers EXCEPT ![m] = RLock(@, r)]
    /\ UNCHANGED <<paths, round, query, writer>>

Verified(m, r) ==
    /\ verify[m][r] = "value" /\ Reads(covers[m], r)
    /\ verify' = [verify EXCEPT ![m][r] = "none"]
    /\ covers' = [covers EXCEPT ![m] = RUnlock(@, r)]
    /\ UNCHANGED <<paths, round, query, writer>>

-----------------------------------------------------------------------------
(* Writers *)

WriterGoes(n, w, stage) == writer' = [writer EXCEPT ![n][w] = stage]

(* setValue, deleteValue or blacklistPaths. *)
StartWrite(n, w) ==
    /\ writer[n][w] = "idle" /\ CanLock(paths[n])
    /\ WriterGoes(n, w, "writes")
    /\ paths' = [paths EXCEPT ![n] = Lock(@, w)]
    /\ UNCHANGED <<covers, round, query, verify>>

EndWrite(n, w) ==
    /\ writer[n][w] = "writes" /\ Writes(paths[n], w)
    /\ WriterGoes(n, w, "idle")
    /\ paths' = [paths EXCEPT ![n] = Unlock(@)]
    /\ UNCHANGED <<covers, round, query, verify>>

(* Publish locks covers, then paths, and keeps both. *)
StartPublish(n, w) ==
    /\ writer[n][w] = "idle" /\ CanLock(covers[n])
    /\ WriterGoes(n, w, "publishes")
    /\ covers' = [covers EXCEPT ![n] = Lock(@, w)]
    /\ UNCHANGED <<paths, round, query, verify>>

LockPaths(n, w) ==
    /\ writer[n][w] = "publishes" /\ Writes(covers[n], w) /\ CanLock(paths[n])
    /\ WriterGoes(n, w, "checks")
    /\ paths' = [paths EXCEPT ![n] = Lock(@, w)]
    /\ UNCHANGED <<covers, round, query, verify>>

(* Mutant: the lock of covers is kept. *)
EndPublishLocked(n, w) ==
    /\ writer[n][w] = "checks" /\ Writes(paths[n], w)
    /\ WriterGoes(n, w, "idle")
    /\ paths' = [paths EXCEPT ![n] = Unlock(@)]
    /\ UNCHANGED <<covers, round, query, verify>>

EndPublish(n, w) ==
    /\ writer[n][w] = "checks" /\ Writes(paths[n], w)
    /\ WriterGoes(n, w, "idle")
    /\ paths' = [paths EXCEPT ![n] = Unlock(@)]
    /\ covers' = [covers EXCEPT ![n] = Unlock(@)]
    /\ UNCHANGED <<round, query, verify>>

-----------------------------------------------------------------------------
RoundStep(n) ==
    (\E h \in Node : Ask(n, h) \/ Unreachable(n, h)) \/ EndRound(n)

QueryStep(m, r) ==
    \/ GetSize(m, r) \/ StartIterate(m, r) \/ Iterate(m, r)
    \/ Reply(m, r) \/ ReplyFails(m, r) \/ Log(m, r)

Begin(n, w) == StartWrite(n, w) \/ StartPublish(n, w)
WriterStep(n, w) == EndWrite(n, w) \/ LockPaths(n, w) \/ EndPublish(n, w)

Next ==
    \/ \E n \in Node : StartRound(n) \/ RoundStep(n) \/ TimesOut(n)
    \/ \E m, r \in Node : QueryStep(m, r) \/ Verify(m, r) \/ Verified(m, r)
    \/ \E n \in Node, w \in Writer : Begin(n, w) \/ WriterStep(n, w)

(* Goroutines go on, requests time out, and a sync.RWMutex lets every       *)
(* waiting writer in at last.                                              *)
Fairness ==
    /\ \A n \in Node : WF_vars(RoundStep(n)) /\ WF_vars(TimesOut(n))
    /\ \A m, r \in Node : WF_vars(QueryStep(m, r)) /\ WF_vars(Verified(m, r))
    /\ \A n \in Node, w \in Writer : SF_vars(WriterStep(n, w))

Spec == Init /\ [][Next]_vars
FairSpec == Spec /\ Fairness

-----------------------------------------------------------------------------
TypeOK ==
    /\ paths \in [Node -> LockOf(Node)] /\ covers \in [Node -> LockOf(Node)]
    /\ round \in [Node -> Round]
    /\ query \in [Node -> [Node -> QueryStage]]
    /\ verify \in [Node -> [Node -> {"none", "value"}]]
    /\ writer \in [Node -> [Writer -> WriterStage]]

(* Nobody keeps or awaits a read lock but rounds and handlers at a point    *)
(* where they read: an early return or a lost answer leaves no lock behind *)
(* and takes none twice.                                                   *)
ReadersOf(n) ==
    {r \in Node : IF r = n THEN round[n].on ELSE query[n][r] \in {"size", "iterate", "log"}}
NoLockLeaks ==
    \A n \in Node :
        /\ paths[n].readers \cup paths[n].waiting = ReadersOf(n)
        /\ paths[n].readers \cap paths[n].waiting = {}
        /\ \A w \in Writer : paths[n].writer = w <=> writer[n][w] \in {"writes", "checks"}

(* A round that waits for an answer counts as going on: its timeout ends    *)
(* the wait.                                                               *)
Verifiers(n) == {r \in Node : verify[n][r] = "value"}
PathsGoOn(n) ==
    \/ \E r \in ReadersOf(n) : Reads(paths[n], r)
    \/ \E w \in Writer : writer[n][w] \in {"writes", "checks"} /\ Writes(paths[n], w)
CoversGoOn(n) ==
    \/ \E r \in Verifiers(n) : Reads(covers[n], r)
    \/ \E w \in Writer : writer[n][w] = "publishes" /\ Writes(covers[n], w) /\ CanLock(paths[n])

(* The goroutines of a node never all wait for each other: whenever some of *)
(* them hold or await the lock of paths, one of these can go on; and for    *)
(* the lock of covers one of its own, or of those at the lock of paths, on  *)
(* which Publish waits with covers locked.                                 *)
NodeGoesOn ==
    \A n \in Node :
        /\ ReadersOf(n) # {} \/ (\E w \in Writer : writer[n][w] \in {"writes", "checks"})
              => PathsGoOn(n)
        /\ Verifiers(n) # {} \/ (\E w \in Writer : writer[n][w] = "publishes")
              => PathsGoOn(n) \/ CoversGoOn(n)

(* However rounds wait for each other's nodes, each comes to its end. *)
RoundEnds == \A n \in Node : []<>~round[n].on

(* A path is set or deleted, and Publish returns, in spite of rounds that   *)
(* keep the lock for as long as their next hops take.                      *)
WriterEnds == \A n \in Node, w \in Writer : []<>(writer[n][w] = "idle")

(* A handler comes to its end, also when its requester has given up. *)
HandlerEnds ==
    \A m, r \in Node : []<>(query[m][r] = "none") /\ []<>(verify[m][r] = "none")
=============================================================================

-------------------------------- MODULE Paths --------------------------------
(***************************************************************************)
(* The paths of one node and everything that writes them: QueryPath,       *)
(* ConnectPath and CreateProxy (p2p/node.go), called by getMorePaths, by   *)
(* POST /path and by MoveUp; sendCoverMessageWorker with its deferred      *)
(* cleanup; and maintainPathsHealthWorker, which blacklists, cleans and    *)
(* fixes paths (p2p/workers.go).                                           *)
(*                                                                         *)
(* A call of ConnectPath or CreateProxy opens one connection, so the call  *)
(* and the worker it starts are both named by that connection.  Every      *)
(* MutexMap operation is one step.  The peers are the environment: what    *)
(* they answer is any of Offers, they refuse, stay silent and close        *)
(* connections at will.                                                    *)
(***************************************************************************)
EXTENDS Naturals, FiniteSets

CONSTANTS
    Peer,             \* addresses of the other nodes
    RelayTree,        \* trees in which this node may get a next hop
    OwnTree,          \* trees of which this node may become the proxy
    InitialTree,      \* the relay trees that exist when the node starts
    Offers,           \* what peers may answer: [ip, tree, next]
    Conn,             \* bound: connections opened
    MaxTasks,         \* bound: connecting tasks that run at the same time
    TargetPaths,      \* TARGET_NUMBER_OF_CONNECTED_PATHS
    Self,             \* the address of this node
    ImmutableStorage, \* the tag "ImmutableStorage" of a proxy's next hop
    None

Tree == RelayTree \cup OwnTree

Offer == [ip : Peer, tree : Tree, next : Peer \cup {ImmutableStorage, Self}]

(* PathProfile and half-open profiles, without the keys; next2 of a proxy  *)
(* path is "", here None.  conn stands for cancelFunc and symKey, which    *)
(* belong to a connection; the node's own proxy paths have neither.        *)
Hop == Peer \cup {ImmutableStorage, Self, None}
Profile == [next : Hop, next2 : Hop, conn : Conn \cup {None}]
OwnProfile == [next |-> ImmutableStorage, next2 |-> None, conn |-> None]

(* InvalidPathProfile; the profile of a "fix" is the one to be written. *)
Report == [how : {"clean", "fix"}, profile : Profile]

ASSUME PathsAssumption ==
    /\ IsFiniteSet(Conn) /\ IsFiniteSet(Tree)
    /\ RelayTree \cap OwnTree = {} /\ InitialTree \subseteq RelayTree
    /\ Offers \subseteq Offer
    /\ \A o \in Offers : o.next = Self <=> o.tree \in OwnTree
    /\ MaxTasks \in Nat /\ TargetPaths \in Nat
    /\ None \notin Peer \cup Tree \cup Conn \cup {ImmutableStorage, Self}
    /\ None \notin Offers \cup Profile \cup Report
    /\ ImmutableStorage \notin Peer \cup {Self} /\ Self \notin Peer

VARIABLES
    paths,      \* n.paths: tree -> profile or None
    halfOpen,   \* n.halfOpenPath: tree -> profile or None
    open,       \* n.openConnections: tree -> connection or None
    keys,       \* n.peerPublicKeys: the peers whose key is known
    call,       \* connection -> the call of ConnectPath or CreateProxy on it
    worker,     \* connection -> where its sendCoverMessageWorker is
    canceled,   \* connection -> its context is cancelled
    broken,     \* connection -> the peer closed it
    report,     \* tree -> what the health worker decided and has yet to do
    known,      \* trees that exist in the overlay
    process     \* "running", or how the process panicked

table == <<paths, halfOpen, open, keys>>
vars == <<table, call, worker, canceled, broken, report, known, process>>

Kinds == {"getMorePaths", "post", "moveUp"}
Asking == {"query", "offers", "verify", "lookup", "request", "askProxy"}
Opening == {"getHalfOpen", "delHalfOpen", "setPath", "setOpen"}
Stages == {"idle", "done", "moveUp", "becomeProxy"} \cup Asking \cup Opening
Workers == {"none", "send", "read", "delete", "closed"}

Call == [stage : Stages, kind : Kinds \cup {None}, ip : Peer \cup {None},
         tree : Tree \cup {None}, offer : Offers \cup {None},
         verified : SUBSET Tree, profile : Profile \cup {None}]

Idle == [stage |-> "idle", kind |-> None, ip |-> None, tree |-> None,
         offer |-> None, verified |-> {}, profile |-> None]

Active == {c \in Conn : call[c].stage \notin {"idle", "done"}}
Connected == {t \in Tree : paths[t] # None}

Boot ==
    /\ paths = [t \in Tree |-> None]
    /\ halfOpen = [t \in Tree |-> None]
    /\ open = [t \in Tree |-> None]
    /\ keys = {}
    /\ call = [c \in Conn |-> Idle]
    /\ worker = [c \in Conn |-> "none"]
    /\ canceled = [c \in Conn |-> FALSE]
    /\ broken = [c \in Conn |-> FALSE]
    /\ report = [t \in Tree |-> None]

Init == Boot /\ process = "running" /\ known = InitialTree

-----------------------------------------------------------------------------
(* Steps of a call, by the table they write. *)

Locally(c, new) ==
    /\ call' = [call EXCEPT ![c] = new]
    /\ UNCHANGED <<worker, canceled, broken, report, process>>

Goto(c, stage) == Locally(c, [call[c] EXCEPT !.stage = stage])

(* The call returns without a connection; MoveUp then opens its own tree. *)
Fails(c) ==
    IF call[c].kind = "moveUp" THEN Goto(c, "becomeProxy") ELSE Locally(c, Idle)

CanStart(c) ==
    process = "running" /\ call[c] = Idle /\ Cardinality(Active) < MaxTasks

(* The process ends; its memory is gone, and with it the trees of its own.  *)
(* The other nodes keep theirs.                                            *)
Down(how) ==
    /\ paths' = [t \in Tree |-> None]
    /\ halfOpen' = [t \in Tree |-> None]
    /\ open' = [t \in Tree |-> None]
    /\ keys' = {}
    /\ call' = [c \in Conn |-> Idle]
    /\ worker' = [c \in Conn |-> "none"]
    /\ canceled' = [c \in Conn |-> FALSE]
    /\ broken' = [c \in Conn |-> FALSE]
    /\ report' = [t \in Tree |-> None]
    /\ known' = known \ OwnTree
    /\ process' = how

(* Connections on which the peer still counts this node as a cover. *)
CoverOf(ip) ==
    {c \in Conn : /\ call[c].ip = ip /\ ~broken[c]
                  /\ call[c].stage \in Opening \/ worker[c] # "none"
                  /\ worker[c] # "closed"}

(* getMorePaths: one round of the loop, with a member picked at random. *)
StartGetMorePaths(c, ip) ==
    /\ CanStart(c) /\ Cardinality(Connected) < TargetPaths
    /\ Locally(c, [Idle EXCEPT !.stage = "query", !.kind = "getMorePaths", !.ip = ip])
    /\ UNCHANGED <<table, known>>

(* POST /path with an address and a path id: ConnectPath. *)
StartPost(c, ip, t) ==
    /\ CanStart(c)
    /\ Locally(c, [Idle EXCEPT !.stage = "lookup", !.kind = "post", !.ip = ip, !.tree = t])
    /\ UNCHANGED <<table, known>>

(* sendConnectPathRequest: QueryPath first, unless the peer's key and a     *)
(* half-open profile of the tree, of whichever peer, are there.            *)
Lookup(c) ==
    /\ call[c].stage = "lookup"
    /\ Goto(c, IF call[c].ip \in keys /\ halfOpen[call[c].tree] # None
               THEN "request" ELSE "query")
    /\ UNCHANGED <<table, known>>

(* QueryPath: the answer arrives, its public key is cached. *)
QueryAnswered(c) ==
    /\ call[c].stage = "query"
    /\ keys' = keys \cup {call[c].ip}
    /\ Goto(c, "offers")
    /\ UNCHANGED <<paths, halfOpen, open, known>>

(* QueryPath: no answer.  The closing log statement reads resp.Paths of a  *)
(* nil resp; gin recovers the panic of a POST handler, nobody the others.  *)
QueryUnanswered(c) ==
    /\ call[c].stage = "query"
    /\ \/ /\ call[c].kind = "post"
          /\ Locally(c, Idle)
          /\ UNCHANGED <<table, known>>
       \/ /\ call[c].kind # "post"
          /\ Down("panicInQueryPath")

(* Mutant: trees that already have a path are not skipped. *)
OfferedAgain(c, o) ==
    /\ call[c].stage = "offers" /\ o.ip = call[c].ip /\ o.tree \in known
    /\ Locally(c, [call[c] EXCEPT !.stage = "verify", !.offer = o])
    /\ UNCHANGED <<table, known>>

(* QueryPath: an offered tree is skipped when the node has a path of it,   *)
(* except when the peer is that path's next-next hop.                      *)
CheckOffer(c, o) ==
    /\ call[c].stage = "offers" /\ o.ip = call[c].ip /\ o.tree \in known
    /\ paths[o.tree] # None => paths[o.tree].next2 = o.ip
    /\ Locally(c, [call[c] EXCEPT !.stage = "verify", !.offer = o])
    /\ UNCHANGED <<table, known>>

(* Mutant: the peer's next hop is taken for the node's own. *)
HopsSwapped(c) ==
    LET o == call[c].offer IN
    /\ call[c].stage = "verify"
    /\ halfOpen' = [halfOpen EXCEPT ![o.tree] =
                       [next |-> o.next, next2 |-> o.ip, conn |-> None]]
    /\ Locally(c, [call[c] EXCEPT !.stage = "offers", !.offer = None,
                                  !.verified = @ \cup {o.tree}])
    /\ UNCHANGED <<paths, open, keys, known>>

(* The next hop is ImmutableStorage, or confirms the peer as its cover. *)
OfferVerified(c) ==
    LET o == call[c].offer IN
    /\ call[c].stage = "verify"
    /\ halfOpen' = [halfOpen EXCEPT ![o.tree] =
                       [next |-> o.ip, next2 |-> o.next, conn |-> None]]
    /\ Locally(c, [call[c] EXCEPT !.stage = "offers", !.offer = None,
                                  !.verified = @ \cup {o.tree}])
    /\ UNCHANGED <<paths, open, keys, known>>

OfferNotVerified(c) ==
    /\ call[c].stage = "verify" /\ call[c].offer.next # ImmutableStorage
    /\ Locally(c, [call[c] EXCEPT !.stage = "offers", !.offer = None])
    /\ UNCHANGED <<table, known>>

(* QueryPath returns: getMorePaths picks one of the verified paths or asks *)
(* the peer to become a proxy, sendConnectPathRequest goes on.             *)
ChoosePath(c) ==
    /\ call[c].stage = "offers"
    /\ \/ /\ call[c].tree # None
          /\ Locally(c, [call[c] EXCEPT !.stage = "request", !.verified = {}])
       \/ /\ call[c].tree = None /\ call[c].verified = {}
          /\ Goto(c, "askProxy")
       \/ /\ call[c].tree = None
          /\ \E t \in call[c].verified :
                Locally(c, [call[c] EXCEPT !.stage = "lookup", !.tree = t,
                                           !.verified = {}])
    /\ UNCHANGED <<table, known>>

(* The peer has the path and does not count this node as a cover yet. *)
ConnectAccepted(c) ==
    /\ call[c].stage = "request" /\ CoverOf(call[c].ip) = {}
    /\ call[c].tree \in known
    /\ \E o \in Offers : o.ip = call[c].ip /\ o.tree = call[c].tree
    /\ Goto(c, "getHalfOpen")
    /\ UNCHANGED <<table, known>>

(* The peer opens a tree under a fresh uuid. *)
ProxyAccepted(c, t) ==
    /\ call[c].stage = "askProxy" /\ CoverOf(call[c].ip) = {}
    /\ t \notin known
    /\ [ip |-> call[c].ip, tree |-> t, next |-> ImmutableStorage] \in Offers
    /\ known' = known \cup {t}
    /\ Locally(c, [call[c] EXCEPT !.stage = "setPath", !.tree = t,
                     !.profile = [next |-> call[c].ip,
                                  next2 |-> ImmutableStorage, conn |-> None]])
    /\ UNCHANGED table

(* The peer refuses, cannot be reached or does not answer in time. *)
Refused(c) ==
    /\ call[c].stage \in {"request", "askProxy"}
    /\ Fails(c)
    /\ UNCHANGED <<table, known>>

(* ConnectPath: without a half-open profile the accepted connection is     *)
(* dropped, unclosed.                                                      *)
GetHalfOpen(c) ==
    /\ call[c].stage = "getHalfOpen"
    /\ IF halfOpen[call[c].tree] = None
       THEN Fails(c)
       ELSE Locally(c, [call[c] EXCEPT !.stage = "delHalfOpen",
                                       !.profile = halfOpen[call[c].tree]])
    /\ UNCHANGED <<table, known>>

DelHalfOpen(c) ==
    /\ call[c].stage = "delHalfOpen"
    /\ halfOpen' = [halfOpen EXCEPT ![call[c].tree] = None]
    /\ Goto(c, "setPath")
    /\ UNCHANGED <<paths, open, keys, known>>

(* Mutant: no worker is started. *)
SetPathWithoutWorker(c) ==
    /\ call[c].stage = "setPath"
    /\ paths' = [paths EXCEPT ![call[c].tree] = [call[c].profile EXCEPT !.conn = c]]
    /\ call' = [call EXCEPT ![c].stage = "setOpen", ![c].profile = None]
    /\ UNCHANGED <<halfOpen, open, keys, worker, canceled, broken, report, known, process>>

(* n.paths.setValue, and the worker is started. *)
SetPath(c) ==
    /\ call[c].stage = "setPath"
    /\ paths' = [paths EXCEPT ![call[c].tree] = [call[c].profile EXCEPT !.conn = c]]
    /\ worker' = [worker EXCEPT ![c] = "send"]
    /\ call' = [call EXCEPT ![c].stage = "setOpen", ![c].profile = None]
    /\ UNCHANGED <<halfOpen, open, keys, canceled, broken, report, known, process>>

SetOpen(c) ==
    /\ call[c].stage = "setOpen"
    /\ open' = [open EXCEPT ![call[c].tree] = c]
    /\ Locally(c, [Idle EXCEPT !.stage = "done", !.ip = call[c].ip, !.tree = call[c].tree])
    /\ UNCHANGED <<paths, halfOpen, keys, known>>

(* A fresh tree of the node's own: POST /path without arguments, or a peer *)
(* asked for it (handleCreateProxyReq).                                    *)
OpenOwnTree(t) ==
    /\ process = "running" /\ t \notin known
    /\ paths' = [paths EXCEPT ![t] = OwnProfile]
    /\ known' = known \cup {t}
    /\ UNCHANGED <<halfOpen, open, keys, call, worker, canceled, broken, report, process>>

-----------------------------------------------------------------------------
(* sendCoverMessageWorker *)

(* The peer closes an accepted connection, or crashes. *)
PeerCloses(c) ==
    /\ ~broken[c]
    /\ call[c].stage \in Opening \/ worker[c] = "send"
    /\ broken' = [broken EXCEPT ![c] = TRUE]
    /\ UNCHANGED <<table, call, worker, canceled, report, known, process>>

(* Mutant: an error of the encoder does not end the worker. *)
StopsOnCancelOnly(c) ==
    /\ worker[c] = "send" /\ canceled[c]
    /\ worker' = [worker EXCEPT ![c] = "read"]
    /\ UNCHANGED <<table, call, canceled, broken, report, known, process>>

WorkerStops(c) ==
    /\ worker[c] = "send" /\ (broken[c] \/ canceled[c])
    /\ worker' = [worker EXCEPT ![c] = "read"]
    /\ UNCHANGED <<table, call, canceled, broken, report, known, process>>

(* Mutant: only a worker that was cancelled cleans up. *)
WorkerReadsCanceled(c) ==
    /\ worker[c] = "read"
    /\ worker' = [worker EXCEPT ![c] =
          IF canceled[c] /\ paths[call[c].tree] # None /\ paths[call[c].tree].next = call[c].ip
          THEN "delete" ELSE "closed"]
    /\ UNCHANGED <<table, call, canceled, broken, report, known, process>>

(* The deferred function looks whether the path still leads to its peer... *)
WorkerReads(c) ==
    /\ worker[c] = "read"
    /\ worker' = [worker EXCEPT ![c] =
          IF paths[call[c].tree] # None /\ paths[call[c].tree].next = call[c].ip
          THEN "delete" ELSE "closed"]
    /\ UNCHANGED <<table, call, canceled, broken, report, known, process>>

(* ...and if so deletes the path, whatever it is by now. *)
WorkerDeletes(c) ==
    /\ worker[c] = "delete"
    /\ worker' = [worker EXCEPT ![c] = "closed"]
    /\ paths' = [paths EXCEPT ![call[c].tree] = None]
    /\ UNCHANGED <<halfOpen, open, keys, call, canceled, broken, report, known, process>>

-----------------------------------------------------------------------------
(* maintainPathsHealthWorker.  A round: blacklisted paths, wait for MoveUp, *)
(* compare with the next hops, act on the reports.                         *)

RoundDone == process = "running" /\ \A t \in Tree : report[t] = None
MovingUp == {c \in Conn : call[c].kind = "moveUp" /\ call[c].stage # "done"}

(* Mutant: MoveUp does not look whether the next hop is the proxy. *)
MovesUpToStorage(t, c) ==
    /\ RoundDone
    /\ paths[t] # None /\ paths[t].conn # None
    /\ canceled' = [canceled EXCEPT ![paths[t].conn] = TRUE]
    /\ CanStart(c)
    /\ call' = [call EXCEPT ![c] = [Idle EXCEPT !.stage = "moveUp", !.kind = "moveUp",
                                               !.ip = paths[t].next2, !.tree = t]]
    /\ UNCHANGED <<table, worker, broken, report, known, process>>

(* Failure counts are not kept here: any path may have reached the         *)
(* threshold.  MoveUp returns at once when the next hop is the proxy.      *)
Blacklist(t, c) ==
    /\ RoundDone
    /\ paths[t] # None /\ paths[t].conn # None
    /\ canceled' = [canceled EXCEPT ![paths[t].conn] = TRUE]
    /\ IF paths[t].next2 = ImmutableStorage
       THEN UNCHANGED call
       ELSE /\ CanStart(c)
            /\ call' = [call EXCEPT ![c] =
                          [Idle EXCEPT !.stage = "moveUp", !.kind = "moveUp",
                                       !.ip = paths[t].next2, !.tree = t]]
    /\ UNCHANGED <<table, worker, broken, report, known, process>>

(* A proxy path has no cancelFunc to call. *)
BlacklistOwn(t) ==
    /\ RoundDone
    /\ paths[t] # None /\ paths[t].conn = None
    /\ Down("nilCancelFunc")

(* MoveUp asks the next-next hop whether the next hop is its cover. *)
MoveUpVerifies(c) ==
    /\ call[c].stage = "moveUp"
    /\ \/ Goto(c, "lookup")
       \/ Goto(c, "becomeProxy")   \* it is not
       \/ Locally(c, Idle)         \* no answer
    /\ UNCHANGED <<table, known>>

MoveUpBecomesProxy(c, t) ==
    /\ call[c].stage = "becomeProxy" /\ t \notin known
    /\ paths' = [paths EXCEPT ![t] = OwnProfile]
    /\ known' = known \cup {t}
    /\ Locally(c, Idle)
    /\ UNCHANGED <<halfOpen, open, keys>>

(* Mutant: a next hop that is what the profile says is reported as well. *)
ReportsEveryAnswer(t) ==
    LET p == paths[t]
        answers == {o \in Offers : o.ip = p.next /\ o.tree = t}
    IN  IF p = None \/ p.next = ImmutableStorage THEN {None}
        ELSE {[how |-> "clean", profile |-> p]}
             \cup {[how |-> "fix", profile |-> [p EXCEPT !.next2 = o.next]] : o \in answers}

(* What invalidPathProfiles may find about a path: nothing wrong, the next *)
(* hop unreachable or without the tree, or another next hop behind it.     *)
(* The key of the proxy, for which it asks too, is made together with the  *)
(* uuid of the tree and only copied with it: it is the same in every offer *)
(* of a tree, and has no part in a profile here.                           *)
Findings(t) ==
    LET p == paths[t]
        answers == {o \in Offers : o.ip = p.next /\ o.tree = t}
    IN  IF p = None \/ p.next = ImmutableStorage THEN {None}
        ELSE {[how |-> "clean", profile |-> p]}
             \cup {IF o.next = p.next2 THEN None
                   ELSE [how |-> "fix", profile |-> [p EXCEPT !.next2 = o.next]] :
                     o \in answers}

(* The read lock on paths is held from the first query to the last answer. *)
FindInvalid ==
    /\ RoundDone /\ MovingUp = {}
    /\ report' \in {r \in [Tree -> UNION {Findings(t) : t \in Tree}] :
                       \A t \in Tree : r[t] \in Findings(t)}
    /\ UNCHANGED <<table, call, worker, canceled, broken, known, process>>

(* Mutant: the path is deleted at once, its worker left alone. *)
CleanDeletes(t) ==
    /\ report[t] # None /\ report[t].how = "clean"
    /\ paths' = [paths EXCEPT ![t] = None]
    /\ report' = [report EXCEPT ![t] = None]
    /\ UNCHANGED <<halfOpen, open, keys, call, worker, canceled, broken, known, process>>

CleanPath(t) ==
    /\ report[t] # None /\ report[t].how = "clean"
    /\ canceled' = [canceled EXCEPT ![report[t].profile.conn] = TRUE]
    /\ report' = [report EXCEPT ![t] = None]
    /\ UNCHANGED <<table, call, worker, broken, known, process>>

(* The profile read at the time of FindInvalid is written back. *)
FixPath(t) ==
    /\ report[t] # None /\ report[t].how = "fix"
    /\ paths' = [paths EXCEPT ![t] = report[t].profile]
    /\ report' = [report EXCEPT ![t] = None]
    /\ UNCHANGED <<halfOpen, open, keys, call, worker, canceled, broken, known, process>>

Stop == process = "running" /\ Down("stopped")

Restart ==
    /\ process # "running"
    /\ process' = "running"
    /\ UNCHANGED <<table, call, worker, canceled, broken, report, known>>

-----------------------------------------------------------------------------
CallStep(c) ==
    \/ Lookup(c) \/ QueryAnswered(c) \/ QueryUnanswered(c)
    \/ \E o \in Offers : CheckOffer(c, o)
    \/ OfferVerified(c) \/ OfferNotVerified(c) \/ ChoosePath(c)
    \/ ConnectAccepted(c) \/ \E t \in RelayTree : ProxyAccepted(c, t)
    \/ Refused(c) \/ GetHalfOpen(c) \/ DelHalfOpen(c) \/ SetPath(c) \/ SetOpen(c)
    \/ MoveUpVerifies(c) \/ \E t \in OwnTree : MoveUpBecomesProxy(c, t)

WorkerStep(c) == WorkerStops(c) \/ WorkerReads(c) \/ WorkerDeletes(c)

HealthStep(t) == CleanPath(t) \/ FixPath(t)

Next ==
    \/ \E c \in Conn :
          \/ \E ip \in Peer : \/ StartGetMorePaths(c, ip)
                              \/ \E t \in Tree : StartPost(c, ip, t)
          \/ CallStep(c) \/ PeerCloses(c) \/ WorkerStep(c)
          \/ \E t \in Tree : Blacklist(t, c)
    \/ \E t \in Tree : HealthStep(t) \/ BlacklistOwn(t)
    \/ \E t \in OwnTree : OpenOwnTree(t)
    \/ FindInvalid \/ Stop \/ Restart

Spec == Init /\ [][Next]_vars

(* A cover message is due every interval, so a worker notices that its      *)
(* connection broke or its context is cancelled; the goroutines of workers  *)
(* and of reports run.                                                     *)
Fairness ==
    /\ \A c \in Conn : WF_vars(WorkerStep(c))
    /\ \A t \in Tree : WF_vars(HealthStep(t))

FairSpec == Spec /\ Fairness

-----------------------------------------------------------------------------
(* Properties *)

TypeOK ==
    /\ paths \in [Tree -> Profile \cup {None}]
    /\ halfOpen \in [Tree -> Profile \cup {None}]
    /\ open \in [Tree -> Conn \cup {None}]
    /\ keys \subseteq Peer
    /\ call \in [Conn -> Call]
    /\ worker \in [Conn -> Workers]
    /\ canceled \in [Conn -> BOOLEAN]
    /\ broken \in [Conn -> BOOLEAN]
    /\ report \in [Tree -> Report \cup {None}]
    /\ known \subseteq Tree
    /\ process \in {"running", "stopped", "panicInQueryPath", "nilCancelFunc"}

(* A tree of which the node is the proxy stays its own for as long as the   *)
(* process runs: no offer of a child that relays the tree back, no worker's *)
(* cleanup and no late fix replaces or deletes it.                         *)
OwnTreesStay ==
    [][\A t \in Tree :
         paths[t] = OwnProfile => paths'[t] = OwnProfile \/ process' # "running"]_vars

(* The profile of a path and its open connection were made by a call that   *)
(* was accepted for that very tree.                                        *)
ConnServesTree ==
    \A t \in Tree :
        /\ paths[t] # None /\ paths[t].conn # None =>
              call[paths[t].conn].tree = t /\ worker[paths[t].conn] # "none"
        /\ open[t] # None => call[open[t]].tree = t /\ worker[open[t]] # "none"

(* Another connection that was made into a path of the same tree. *)
HasRival(c) == \E d \in Conn \ {c} : call[d].tree = call[c].tree /\ worker[d] # "none"

(* A connection in use belongs to the path of its tree, and once its call   *)
(* has returned messages of the tree are sent on it.  Health rounds,        *)
(* cleanups and fixes do not part them: only another connection for the     *)
(* same tree does, which overwrites the path, or deletes it as its own.     *)
LoneConnectionKept ==
    \A c \in Conn :
        worker[c] = "send" /\ ~canceled[c] /\ ~HasRival(c) =>
            /\ paths[call[c].tree] # None /\ paths[call[c].tree].conn = c
            /\ call[c].stage = "done" => open[call[c].tree] = c

(* A path that leads to the peer it is connected to, and has nobody left to *)
(* take it away, comes about in one way only: a fix writes back what its    *)
(* round has read.  A worker ends without deleting such a path in no other. *)
Stranded(t) ==
    /\ paths[t] # None /\ paths[t].conn # None
    /\ paths[t].next = call[paths[t].conn].ip
    /\ worker[paths[t].conn] \notin {"send", "read", "delete"}
OnlyFixStrands ==
    [][\A t \in Tree :
          Stranded(t)' => \/ Stranded(t)
                          \/ report[t] # None /\ paths'[t] = report[t].profile]_vars

(* What the properties below need of the peers: each tree is offered by one *)
(* of them, and none changes its next hop in a tree.                       *)
OneOfferer == \A o, p \in Offers : o.tree = p.tree => o.ip = p.ip
SteadyOffers ==
    \A o, p \in Offers : o.tree = p.tree /\ o.ip = p.ip => o.next = p.next

(* The next hop of a path is the peer at the other end of its connection.   *)
NextMatchesConn ==
    \A t \in Tree :
        paths[t] # None /\ paths[t].conn # None =>
            paths[t].next = call[paths[t].conn].ip

(* Paths implements PathTable for every tree: the next hop and connection   *)
(* of a path go together, neither comes back once gone, and connections    *)
(* are opened in ones and twos for the path they were made for.            *)
Entry(t) ==
    IF paths[t] = None THEN None ELSE [next |-> paths[t].next, conn |-> paths[t].conn]
PathOf(t) ==
    INSTANCE PathTable WITH
        Hop <- Peer, entry <- Entry(t), open <- open[t],
        pending <- {c \in Conn : call[c].stage = "setOpen" /\ call[c].tree = t},
        used <- {c \in Conn : worker[c] # "none" /\ call[c].tree = t},
        life <- process
PathTablesInit == \A t \in Tree : PathOf(t)!Init
PathTablesNext == \A t \in Tree : [PathOf(t)!Next]_(PathOf(t)!vars)
ImplementsPathTable == PathTablesInit /\ [][PathTablesNext]_vars

(* A path whose connection broke does not stay.                             *)
BrokenPathGoes ==
    \A t \in Tree, c \in Conn :
        (paths[t] # None /\ paths[t].conn = c /\ broken[c])
            ~> (paths[t] = None \/ paths[t].conn # c)
=============================================================================

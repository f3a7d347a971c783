------------------------------- MODULE Overlay -------------------------------
(***************************************************************************)
(* One tree of the overlay, seen across the nodes: who connects to whom,   *)
(* by the answers of handleQueryPathReq, handleVerifyCoverReq,             *)
(* handleConnectPathReq and handleCreateProxyReq (p2p/handlers_tcp.go),    *)
(* and how nodes leave it and move up in it (p2p/workers.go).              *)
(*                                                                         *)
(* A node runs one task and one health round at a time.  Each request is a *)
(* step of its own, and where an answer is read in one step and used in    *)
(* another, so it is here: a parent checks its covers, finds its path and  *)
(* inserts the new cover one after the other; a health round writes back,  *)
(* later, the profile that it has read.  Other overlaps of goroutines on   *)
(* the tables of one node are the subject of Paths and Covers.             *)
(***************************************************************************)
EXTENDS Naturals, FiniteSets, KeyExchange

CONSTANTS
    Node,
    Proxy,            \* the node that opens the tree
    Conn,             \* bound: connections, numbered as they are opened
    Exchange,         \* connection -> [g, p, mine, theirs] of its key exchange
    MaxCovers,        \* MAXIMUM_NUMBER_OF_COVER_NODES
    MayRestart,       \* bound: the nodes that restart, once each
    MayReturn,        \* bound: those of them that join the tree again
    AsksInVain,       \* bound: the nodes that ask for a tree they are not offered
    MaxBusy,          \* bound: tasks and health reports under way at once
    ImmutableStorage, \* the tag "ImmutableStorage" of the proxy's next hop
    None

(* PathProfile; conn stands for symKey and cancelFunc.  next2 of the own    *)
(* path is "", here None.                                                  *)
Profile == [next : Node \cup {ImmutableStorage},
            next2 : Node \cup {ImmutableStorage, None}, conn : Conn \cup {None}]
OwnPath == [next |-> ImmutableStorage, next2 |-> None, conn |-> None]

(* What a parent's worker uses of the profile it was started with. *)
Route == [next : Node \cup {ImmutableStorage}, conn : Conn \cup {None}]
RouteOf(p) == [next |-> p.next, conn |-> p.conn]

(* What QueryPath made of an answer: the half-open profile, or no more than *)
(* the peer to ask, when nothing was verified (next2 is None).             *)
Offer == [next : Node, next2 : Node \cup {ImmutableStorage, None}]
Unverified(m) == [next |-> m, next2 |-> None]

(* A connection: the cover, its parent, the forward path that the parent's *)
(* handleApplicationMessageWorker was started with, and where that worker  *)
(* and the cover's sendCoverMessageWorker are; "asked" is a cover that has *)
(* yet to see the answer.                                                  *)
Stage == {"asked", "on", "canceled", "off"}
Link == [from : Node, to : Node, forward : Route, sender : Stage, handler : Stage]

(* What getMorePaths, POST /path or MoveUp is doing: the offer it goes for, *)
(* the blacklisted profile if it is MoveUp, the connection it has opened.  *)
(* again is history: the node had lost the tree when it asked for it.      *)
TaskStage == {"idle", "moveUp", "query", "verify", "connect", "asked", "setOpen"}
Task == [stage : TaskStage, offer : Offer \cup {None}, old : Profile \cup {None},
         again : BOOLEAN, conn : Conn \cup {None}]
TaskAt(stage, offer, old, again) ==
    [stage |-> stage, offer |-> offer, old |-> old, again |-> again, conn |-> None]
Idle == TaskAt("idle", None, None, FALSE)

(* What the handler of a request for the tree knows: whom it serves, and,   *)
(* once it has looked, the forward path.                                   *)
Admission == [to : Node, forward : Route \cup {None}]

(* InvalidPathProfile, with next2 of SelfProfile already corrected.  *)
Report == [how : {"clean", "fix"}, profile : Profile]

ASSUME OverlayAssumption ==
    /\ IsFiniteSet(Node) /\ Proxy \in Node
    /\ Conn \subseteq Nat /\ IsFiniteSet(Conn)
    /\ Exchange \in [Conn -> [g : Nat, p : Nat \ {0}, mine : Nat, theirs : Nat]]
    /\ MaxCovers \in Nat /\ MaxBusy \in Nat
    /\ MayRestart \subseteq Node /\ MayReturn \subseteq Node /\ AsksInVain \subseteq Node
    /\ None \notin Node \cup Conn \cup {ImmutableStorage}
    /\ None \notin Profile \cup Route \cup Offer \cup Link \cup Admission \cup Report
    /\ ImmutableStorage \notin Node

VARIABLES
    path,      \* n.paths at the tree: node -> profile or None
    open,      \* n.openConnections at the tree: node -> connection or None
    task,      \* node -> its task
    report,    \* node -> what its health round decided and has yet to do, or None
    admitted,  \* node -> where a parent's handler is with its request, or None
    link,      \* connection -> its two ends, or None
    member,    \* the nodes that have ever had a path of the tree
    rejoined,  \* those that joined again after they had lost it
    restarted  \* the nodes that have restarted, with new keys

overlayVars == <<path, open, task, report, admitted, link, member, rejoined, restarted>>

OverlayInit ==
    /\ path = [n \in Node |-> None]
    /\ open = [n \in Node |-> None]
    /\ task = [n \in Node |-> Idle]
    /\ report = [n \in Node |-> None]
    /\ admitted = [n \in Node |-> None]
    /\ link = [c \in Conn |-> None]
    /\ member = {} /\ rejoined = {} /\ restarted = {}

-----------------------------------------------------------------------------
(* Keys of a connection.  The node that connects makes the exchange; its    *)
(* key comes from the answer, the key of the parent from the request.      *)

Request(c) == NewKeyExchange(Exchange[c].g, Exchange[c].p, Exchange[c].mine)
Answer(c) == GenerateReturn(Request(c), Exchange[c].theirs)
SymKey == [c \in Conn |-> GetSymKey(Answer(c), Exchange[c].mine)]        \* PathProfile
SecretKey == [c \in Conn |-> GetSymKey(Request(c), Exchange[c].theirs)]  \* CoverNodeProfile

(* The keys that SymmetricEncrypt and SymmetricDecrypt take. *)
UsableKeys ==
    {key \in {SymKey[c] : c \in Conn} \cup {SecretKey[c] : c \in Conn} : UsableKey(key)}

-----------------------------------------------------------------------------
(* What a node answers *)

CoversOf(n) ==
    {c \in Conn : link[c] # None /\ link[c].to = n /\ link[c].handler # "off"}

(* handleVerifyCoverReq at m: is n one of its covers, of whichever tree. *)
IsCover(n, m) == \E c \in CoversOf(m) : link[c].from = n

(* handleQueryPathReq at m, and what QueryPath makes of it: a node with a   *)
(* path of the tree goes on only if m is the next-next hop of it.          *)
Offers(m, n) == path[m] # None /\ (path[n] # None => path[n].next2 = m)

(* handleConnectPathReq and handleCreateProxyReq at m refuse a node that is *)
(* their cover already, and any when the table is full.                    *)
Admits(m, n) == ~IsCover(n, m) /\ Cardinality(CoversOf(m)) < MaxCovers

(* The bounds leave room for another task or report. *)
MayStart ==
    Cardinality({n \in Node : task[n] # Idle \/ admitted[n] # None})
        + Cardinality({n \in Node : report[n] # None}) < MaxBusy
MayAsk(n) == task[n] = Idle /\ MayStart /\ n \notin restarted \ MayReturn

(* They leave a connection for another request. *)
ConnLeft ==
    Cardinality({n \in Node : admitted[n] # None}) < Cardinality({c \in Conn : link[c] = None})

IsNext(c) == link[c] = None /\ \A d \in Conn : d < c => link[d] # None

-----------------------------------------------------------------------------
(* Joining *)

(* POST /path without arguments, at the proxy. *)
OpenTree ==
    /\ Proxy \notin member
    /\ path' = [path EXCEPT ![Proxy] = OwnPath]
    /\ member' = {Proxy}
    /\ UNCHANGED <<open, task, report, admitted, link, rejoined, restarted>>

(* handleCreateProxyReq at the proxy: it opens the tree on request of n.    *)
(* Its checks come before there is a tree that others could ask for.       *)
AskProxy(n) ==
    /\ MayAsk(n) /\ n # Proxy /\ admitted[n] = None
    /\ Proxy \notin member /\ Admits(Proxy, n) /\ ConnLeft
    /\ path' = [path EXCEPT ![Proxy] = OwnPath]
    /\ admitted' = [admitted EXCEPT ![n] = [to |-> Proxy, forward |-> RouteOf(OwnPath)]]
    /\ task' = [task EXCEPT ![n] =
          TaskAt("asked", [next |-> Proxy, next2 |-> ImmutableStorage], None, FALSE)]
    /\ member' = {Proxy}
    /\ UNCHANGED <<open, report, link, rejoined, restarted>>

(* Mutant: the peer and the hop behind it are taken for each other. *)
GoForSwapped(n, m, old) ==
    task' = [task EXCEPT ![n] =
        TaskAt(IF path[m].next = ImmutableStorage THEN "connect" ELSE "verify",
               [next |-> path[m].next, next2 |-> m], old,
               old = None /\ path[n] = None /\ n \in member)]

(* QueryPath: the hop behind m is asked unless it is ImmutableStorage.      *)
GoFor(n, m, old) ==
    task' = [task EXCEPT ![n] =
        TaskAt(IF path[m].next = ImmutableStorage THEN "connect" ELSE "verify",
               [next |-> m, next2 |-> path[m].next], old,
               old = None /\ path[n] = None /\ n \in member)]

(* Mutant: a tree the node has a path of is not skipped. *)
QueryAny(n, m) ==
    /\ MayAsk(n) /\ m # n /\ path[m] # None
    /\ GoFor(n, m, None)
    /\ UNCHANGED <<path, open, report, admitted, link, member, rejoined, restarted>>

(* getMorePaths or POST /path: QueryPath finds the tree at m. *)
Query(n, m) ==
    /\ MayAsk(n) /\ m # n /\ Offers(m, n)
    /\ GoFor(n, m, None)
    /\ UNCHANGED <<path, open, report, admitted, link, member, rejoined, restarted>>

(* POST /path: ConnectPath asks m also when QueryPath found nothing to take. *)
QueryInVain(n, m) ==
    /\ n \in AsksInVain /\ MayAsk(n) /\ m # n /\ ~Offers(m, n)
    /\ task' = [task EXCEPT ![n] = TaskAt("connect", Unverified(m), None, FALSE)]
    /\ UNCHANGED <<path, open, report, admitted, link, member, rejoined, restarted>>

(* QueryPath: the hop behind the peer counts it as a cover. *)
Verify(n) ==
    /\ task[n].stage = "verify" /\ IsCover(task[n].offer.next, task[n].offer.next2)
    /\ task' = [task EXCEPT ![n].stage = "connect"]
    /\ UNCHANGED <<path, open, report, admitted, link, member, rejoined, restarted>>

(* It does not, or does not answer: the profile is not kept, the peer still *)
(* asked by POST /path and MoveUp.                                         *)
NotVerified(n) ==
    /\ task[n].stage = "verify"
    /\ task' = [task EXCEPT ![n].stage = "connect", ![n].offer = Unverified(@.next)]
    /\ UNCHANGED <<path, open, report, admitted, link, member, rejoined, restarted>>

(* handleConnectPathReq at the parent looks at its covers.  Bound: a node   *)
(* has one request at a time that is being answered.                       *)
CheckCovers(n) ==
    /\ task[n].stage = "connect" /\ admitted[n] = None
    /\ Admits(task[n].offer.next, n) /\ ConnLeft
    /\ task' = [task EXCEPT ![n].stage = "asked"]
    /\ admitted' = [admitted EXCEPT ![n] = [to |-> task[n].offer.next, forward |-> None]]
    /\ UNCHANGED <<path, open, report, link, member, rejoined, restarted>>

(* It looks for the path, and refuses when there is none. *)
CheckPath(n) ==
    /\ admitted[n] # None /\ admitted[n].forward = None
    /\ admitted' = [admitted EXCEPT ![n] =
          IF path[@.to] = None THEN None ELSE [to |-> @.to, forward |-> RouteOf(path[@.to])]]
    /\ UNCHANGED <<path, open, task, report, link, member, rejoined, restarted>>

(* The record of the cover is inserted, the worker started.  The requester  *)
(* may have given up by now; then nobody closes the connection.            *)
Insert(n, c) ==
    /\ admitted[n] # None /\ admitted[n].forward # None /\ IsNext(c)
    /\ link' = [link EXCEPT ![c] =
          [from |-> n, to |-> admitted[n].to, forward |-> admitted[n].forward,
           sender |-> IF task[n].stage = "asked" THEN "asked" ELSE "off", handler |-> "on"]]
    /\ admitted' = [admitted EXCEPT ![n] = None]
    /\ UNCHANGED <<path, open, task, report, member, rejoined, restarted>>

Waits(n, c) == link[c] # None /\ link[c].from = n /\ link[c].sender = "asked"

(* ConnectPath, CreateProxy: accepted.  The path is set, over one that may  *)
(* be there, and its worker started.                                       *)
Accepted(n, c) ==
    LET offer == task[n].offer IN
    /\ task[n].stage = "asked" /\ Waits(n, c) /\ offer.next2 # None
    /\ link' = [link EXCEPT ![c].sender = "on"]
    /\ path' = [path EXCEPT ![n] = [next |-> offer.next, next2 |-> offer.next2, conn |-> c]]
    /\ task' = [task EXCEPT ![n] =
          [TaskAt("setOpen", None, @.old, FALSE) EXCEPT !.conn = c]]
    /\ member' = member \cup {n}
    /\ rejoined' = IF task[n].again THEN rejoined \cup {n} ELSE rejoined
    /\ UNCHANGED <<open, report, admitted, restarted>>

(* ConnectPath, CreateProxy: openConnections is written after the path. *)
SetOpen(n) ==
    /\ task[n].stage = "setOpen"
    /\ open' = [open EXCEPT ![n] = task[n].conn]
    /\ task' = [task EXCEPT ![n] = Idle]
    /\ UNCHANGED <<path, report, admitted, link, member, rejoined, restarted>>

(* MoveUp, when it could not connect: the covers of the tree are cancelled. *)
(* The tree of its own that the node opens then is another one.            *)
CoversCanceled(n, links) ==
    [c \in Conn |->
        IF c \in CoversOf(n) /\ links[c].handler = "on"
        THEN [links[c] EXCEPT !.handler = "canceled"] ELSE links[c]]

(* A connection whose answer nobody will take. *)
Unheard(n) ==
    [c \in Conn |-> IF Waits(n, c) THEN [link[c] EXCEPT !.sender = "off"] ELSE link[c]]

(* A task ends without a path: refused, without an answer in time, or       *)
(* accepted for a tree of which there is no half-open profile.             *)
Fail(n) ==
    /\ task[n].stage \in {"query", "verify", "connect", "asked"}
    /\ task' = [task EXCEPT ![n] = Idle]
    /\ link' = IF task[n].old = None THEN Unheard(n) ELSE CoversCanceled(n, Unheard(n))
    /\ UNCHANGED <<path, open, report, admitted, member, rejoined, restarted>>

-----------------------------------------------------------------------------
(* Path health *)

HasRelayPath(n) == path[n] # None /\ path[n].conn # None

CancelSender(c) ==
    link' = [link EXCEPT ![c].sender = IF @ = "on" THEN "canceled" ELSE @]

(* The path has failed too often: its worker is cancelled, MoveUp starts.   *)
(* It returns at once when the next hop is the proxy.                      *)
Blacklist(n) ==
    /\ HasRelayPath(n) /\ task[n] = Idle /\ report[n] = None /\ MayStart
    /\ CancelSender(path[n].conn)
    /\ IF path[n].next2 = ImmutableStorage
       THEN UNCHANGED task
       ELSE task' = [task EXCEPT ![n] = TaskAt("moveUp", None, path[n], FALSE)]
    /\ UNCHANGED <<path, open, report, admitted, member, rejoined, restarted>>

(* MoveUp: the next-next hop confirms the next hop. *)
MoveUpVerifies(n) ==
    /\ task[n].stage = "moveUp" /\ IsCover(task[n].old.next, task[n].old.next2)
    /\ task' = [task EXCEPT ![n].stage = "query"]
    /\ UNCHANGED <<path, open, report, admitted, link, member, rejoined, restarted>>

(* MoveUp: it does not. *)
MoveUpFails(n) ==
    /\ task[n].stage = "moveUp" /\ ~IsCover(task[n].old.next, task[n].old.next2)
    /\ task' = [task EXCEPT ![n] = Idle]
    /\ link' = CoversCanceled(n, link)
    /\ UNCHANGED <<path, open, report, admitted, member, rejoined, restarted>>

(* MoveUp: no answer from the next-next hop, nothing else is done. *)
MoveUpGivesUp(n) ==
    /\ task[n].stage = "moveUp"
    /\ task' = [task EXCEPT ![n] = Idle]
    /\ UNCHANGED <<path, open, report, admitted, link, member, rejoined, restarted>>

(* ConnectPath of MoveUp: the next-next hop offers the tree, or it does not *)
(* and is asked nevertheless.                                              *)
MoveUpQuery(n) ==
    LET m == task[n].old.next2 IN
    /\ task[n].stage = "query"
    /\ IF Offers(m, n) THEN GoFor(n, m, task[n].old)
       ELSE task' = [task EXCEPT ![n] =
                        TaskAt("connect", Unverified(m), task[n].old, FALSE)]
    /\ UNCHANGED <<path, open, report, admitted, link, member, rejoined, restarted>>

(* invalidPathProfiles looks at the path once no MoveUp is left from the     *)
(* round before; the read lock keeps the path as it is until its next hop   *)
(* has answered.                                                           *)
Examines(n) ==
    HasRelayPath(n) /\ report[n] = None /\ task[n].old = None /\ MayStart

Reports(n, how, profile) ==
    /\ report' = [report EXCEPT ![n] = [how |-> how, profile |-> profile]]
    /\ UNCHANGED <<path, open, task, admitted, link, member, rejoined, restarted>>

(* Mutant: a next hop that still serves the node is left in peace. *)
FindUnserved(n) ==
    /\ Examines(n) /\ path[path[n].next] = None /\ ~IsCover(n, path[n].next)
    /\ Reports(n, "clean", path[n])

(* The next hop has no such path. *)
FindAbandoned(n) == Examines(n) /\ path[path[n].next] = None /\ Reports(n, "clean", path[n])

(* The next hop does not answer in time. *)
FindUnanswered(n) == Examines(n) /\ Reports(n, "clean", path[n])

(* The next hop has another next hop by now. *)
FindChanged(n) ==
    LET hop == path[path[n].next] IN
    /\ Examines(n) /\ hop # None /\ path[n].next2 # hop.next
    /\ Reports(n, "fix", [path[n] EXCEPT !.next2 = hop.next])

(* The worker of the profile that was found invalid is cancelled. *)
CleanPath(n) ==
    /\ report[n] # None /\ report[n].how = "clean"
    /\ CancelSender(report[n].profile.conn)
    /\ report' = [report EXCEPT ![n] = None]
    /\ UNCHANGED <<path, open, task, admitted, member, rejoined, restarted>>

(* The profile that was read is written back as a whole, over whatever the  *)
(* path has become.                                                        *)
FixPath(n) ==
    /\ report[n] # None /\ report[n].how = "fix"
    /\ path' = [path EXCEPT ![n] = report[n].profile]
    /\ report' = [report EXCEPT ![n] = None]
    /\ UNCHANGED <<open, task, admitted, link, member, rejoined, restarted>>

-----------------------------------------------------------------------------
(* The ends of a connection *)

HasWorker(c) == link[c].sender \in {"on", "canceled"}

(* Mutant: a worker that cannot encrypt tries again. *)
SenderTries(c) ==
    /\ link[c] # None /\ HasWorker(c)
    /\ link[c].sender = "canceled" \/ link[c].handler = "off"
    /\ link' = [link EXCEPT ![c].sender = "off"]
    /\ path' = IF path[link[c].from] # None /\ path[link[c].from].next = link[c].to
               THEN [path EXCEPT ![link[c].from] = None] ELSE path
    /\ UNCHANGED <<open, task, report, admitted, member, rejoined, restarted>>

(* Mutant: only the connection that is open takes its path with it. *)
SenderEndsIfOpen(c) ==
    /\ link[c] # None /\ HasWorker(c)
    /\ \/ link[c].sender = "canceled" \/ link[c].handler = "off" \/ SymKey[c] \notin UsableKeys
    /\ link' = [link EXCEPT ![c].sender = "off"]
    /\ path' = [path EXCEPT ![link[c].from] = IF open[link[c].from] = c THEN None ELSE @]
    /\ UNCHANGED <<open, task, report, admitted, member, rejoined, restarted>>

(* sendCoverMessageWorker ends: it is cancelled, the connection is closed,  *)
(* or its key does not encrypt.  It deletes the path if that still leads   *)
(* to the same parent.                                                     *)
SenderEnds(c) ==
    /\ link[c] # None /\ HasWorker(c)
    /\ \/ link[c].sender = "canceled" \/ link[c].handler = "off" \/ SymKey[c] \notin UsableKeys
    /\ link' = [link EXCEPT ![c].sender = "off"]
    /\ path' = IF path[link[c].from] # None /\ path[link[c].from].next = link[c].to
               THEN [path EXCEPT ![link[c].from] = None] ELSE path
    /\ UNCHANGED <<open, task, report, admitted, member, rejoined, restarted>>

(* handleApplicationMessageWorker ends: it is cancelled, the connection is  *)
(* closed, or silent for too long.  The cover record goes with it.         *)
HandlerEnds(c) ==
    /\ link[c] # None /\ link[c].handler # "off"
    /\ link[c].handler = "canceled" \/ link[c].sender = "off"
    /\ link' = [link EXCEPT ![c].handler = "off"]
    /\ UNCHANGED <<path, open, task, report, admitted, member, rejoined, restarted>>

(* A node ends and starts anew, without its memory. *)
Restart(n) ==
    /\ n \in MayRestart \ restarted
    /\ restarted' = restarted \cup {n}
    /\ path' = [path EXCEPT ![n] = None]
    /\ open' = [open EXCEPT ![n] = None]
    /\ task' = [task EXCEPT ![n] = Idle]
    /\ report' = [report EXCEPT ![n] = None]
    /\ admitted' = [r \in Node |->
          IF admitted[r] # None /\ admitted[r].to = n THEN None ELSE admitted[r]]
    /\ link' = [c \in Conn |->
          IF link[c] = None THEN None
          ELSE [link[c] EXCEPT !.sender = IF link[c].from = n THEN "off" ELSE @,
                               !.handler = IF link[c].to = n THEN "off" ELSE @]]
    /\ UNCHANGED <<member, rejoined>>

-----------------------------------------------------------------------------
(* A task that has asked goes on until it has its answers. *)
TaskGoesOn(n) ==
    \/ Verify(n) \/ NotVerified(n) \/ CheckCovers(n) \/ Fail(n) \/ SetOpen(n)
    \/ \E c \in Conn : Accepted(n, c)
    \/ MoveUpVerifies(n) \/ MoveUpFails(n) \/ MoveUpGivesUp(n) \/ MoveUpQuery(n)

TaskStarts(n) == AskProxy(n) \/ \E m \in Node : Query(n, m) \/ QueryInVain(n, m)

Answers(n) == CheckPath(n) \/ \E c \in Conn : Insert(n, c)

HealthStep(n) ==
    \/ Blacklist(n) \/ FindAbandoned(n) \/ FindUnanswered(n) \/ FindChanged(n)
    \/ CleanPath(n) \/ FixPath(n)

OverlayNext ==
    \/ OpenTree
    \/ \E n \in Node :
          TaskStarts(n) \/ TaskGoesOn(n) \/ Answers(n) \/ HealthStep(n) \/ Restart(n)
    \/ \E c \in Conn : SenderEnds(c) \/ HandlerEnds(c)

OverlaySpec == OverlayInit /\ [][OverlayNext]_overlayVars

-----------------------------------------------------------------------------
(* Properties *)

OverlayTypeOK ==
    /\ path \in [Node -> Profile \cup {None}]
    /\ open \in [Node -> Conn \cup {None}]
    /\ task \in [Node -> Task]
    /\ report \in [Node -> Report \cup {None}]
    /\ admitted \in [Node -> Admission \cup {None}]
    /\ link \in [Conn -> Link \cup {None}]
    /\ member \subseteq Node /\ rejoined \subseteq Node /\ restarted \subseteq Node

(* Next hops make a tree: any nodes that have a next hop among the nodes    *)
(* include one whose next hop is not one of them.                          *)
Acyclic ==
    \A S \in (SUBSET {n \in Node : path[n] # None}) \ {{}} :
        \E n \in S : path[n].next \notin S

(* However nodes connect, move up, fix their next-next hops, leave and      *)
(* restart: the next hops make a loop only after some node that had lost   *)
(* the tree has joined it again.                                           *)
TreeUnlessRejoined == rejoined = {} => Acyclic

(* The worker of a path takes it away when it ends.  A path that has none,  *)
(* and so would stay for ever, is one that a fix has written back after     *)
(* its worker had ended (see Paths).                                       *)
Tended(n) == HasRelayPath(n) /\ HasWorker(path[n].conn)
OnlyFixRevives ==
    [][\A n \in Node :
          HasRelayPath(n)' /\ ~Tended(n)' =>
             \/ HasRelayPath(n) /\ ~Tended(n)
             \/ report[n] # None /\ path'[n] = report[n].profile]_overlayVars
=============================================================================

------------------------------- MODULE Covers -------------------------------
(***************************************************************************)
(* How one node admits cover nodes and lets go of them: the parent side of *)
(* a path.  Modelled are handleConnectPathReq and handleCreateProxyReq     *)
(* (p2p/handlers_tcp.go) and handleApplicationMessageWorker                *)
(* (p2p/workers.go), with the steps by which the rest of the node touches  *)
(* the tables they share: the node's own paths come and go, a user makes   *)
(* the node a proxy, and MoveUp cancels the covers of an abandoned path.   *)
(*                                                                         *)
(* Every MutexMap operation is atomic and takes its lock for that call     *)
(* only, so each call is a step of its own and the steps of the handlers   *)
(* of different connections interleave.  The table maps an address to the  *)
(* connection whose handler wrote the record; the rest of the record is    *)
(* kept per connection (from, tree, canceled).                             *)
(***************************************************************************)
EXTENDS Naturals, FiniteSets

CONSTANTS
    Conn,          \* the incoming connections the node can serve at once
    IP,            \* the addresses of the peers
    RelayTree,     \* trees in which this node has a next hop
    ProxyTree,     \* trees of which this node is the proxy
    MaxCovers,     \* MAXIMUM_NUMBER_OF_COVER_NODES
    MaxHandlers,   \* bound: admission handlers running at the same time
    MaxOwnProxies, \* bound: proxy trees the node opens for itself
    None

Tree == RelayTree \cup ProxyTree

ASSUME CoversAssumption ==
    /\ IsFiniteSet(Conn) /\ IsFiniteSet(IP) /\ IsFiniteSet(ProxyTree)
    /\ RelayTree \cap ProxyTree = {}
    /\ MaxCovers \in Nat /\ MaxHandlers \in Nat \ {0} /\ MaxOwnProxies \in Nat
    /\ None \notin Conn \cup IP \cup Tree

VARIABLES
    covers,    \* n.covers: address -> the connection that wrote its record
    paths,     \* n.paths: tree -> how the node takes part in it
    moveUp,    \* tree -> the progress of MoveUp on it
    pc,        \* connection -> where its goroutine is
    from,      \* connection -> coverIp
    tree,      \* connection -> requestedPathID or newPathID; a CreateProxy
               \* request has none until AddPath
    canceled,  \* connection -> the record's cancelFunc was called
    peerGone,  \* connection -> the peer closed it, crashed or fell silent
    contended  \* history: the addresses of which a handler found no record
               \* while another one that had found none was about to insert

vars == <<covers, paths, moveUp, pc, from, tree, canceled, peerGone, contended>>

PathKinds == {"absent", "relay", "own", "requested"}
MoveUpStages == {"idle", "verify", "becomeProxy", "done"}
Checking == {"getCover", "getSize", "getPath"}
Adding == {"addPath", "addCover"}
Handling == Checking \cup Adding \cup {"reply", "deny"}
Stages == {"free"} \cup Handling \cup {"work", "cleanup", "failed"}

Handlers == {c \in Conn : pc[c] \in Handling}
Deciding == {c \in Conn : pc[c] \in {"getSize", "getPath"} \cup Adding}
Members == {ip \in IP : covers[ip] # None}
SelfProxies == {t \in ProxyTree : paths[t] \in {"own", "requested"}}
OwnProxies == {t \in ProxyTree : paths[t] = "own"}

Init ==
    /\ covers = [ip \in IP |-> None]
    /\ paths = [t \in Tree |-> "absent"]
    /\ moveUp = [t \in RelayTree |-> "idle"]
    /\ pc = [c \in Conn |-> "free"]
    /\ from = [c \in Conn |-> None]
    /\ tree = [c \in Conn |-> None]
    /\ canceled = [c \in Conn |-> FALSE]
    /\ peerGone = [c \in Conn |-> FALSE]
    /\ contended = {}

(* The slot of a finished connection; its goroutine's locals are gone. *)
Free(c) ==
    /\ pc' = [pc EXCEPT ![c] = "free"]
    /\ from' = [from EXCEPT ![c] = None]
    /\ tree' = [tree EXCEPT ![c] = None]
    /\ canceled' = [canceled EXCEPT ![c] = FALSE]
    /\ peerGone' = [peerGone EXCEPT ![c] = FALSE]

Goto(c, stage) == pc' = [pc EXCEPT ![c] = stage]

(* Some steps touch nothing but the place of their goroutine. *)
OnlyMoves == UNCHANGED <<covers, paths, moveUp, from, tree, canceled, peerGone, contended>>

-----------------------------------------------------------------------------
(* Mistakes the properties below must notice.  Each takes the place of one  *)
(* action when the strength of a property is tested; none is part of Next. *)

SizeOffByOne(c) ==
    /\ pc[c] = "getSize"
    /\ Goto(c, IF Cardinality(Members) <= MaxCovers THEN "getPath" ELSE "deny")
    /\ OnlyMoves

WaitForRoom(c) ==
    /\ pc[c] = "getSize"
    /\ Goto(c, IF Cardinality(Members) < MaxCovers THEN "getPath" ELSE "getSize")
    /\ OnlyMoves

SkipProxyCheck(c) ==
    /\ pc[c] = "getPath" /\ tree[c] = None
    /\ Goto(c, "addPath")
    /\ OnlyMoves

DenyCleansUp(c) ==
    /\ pc[c] = "deny"
    /\ covers' = [covers EXCEPT ![from[c]] = None]
    /\ Free(c)
    /\ UNCHANGED <<paths, moveUp, contended>>

CleanupForgetsRecord(c) ==
    /\ pc[c] = "cleanup"
    /\ Free(c)
    /\ UNCHANGED <<covers, paths, moveUp, contended>>

IgnoreCancel(c) ==
    /\ pc[c] = "work" /\ peerGone[c]
    /\ Goto(c, "cleanup")
    /\ OnlyMoves

MoveUpKeepsTree(t, new) ==
    /\ moveUp[t] = "becomeProxy"
    /\ paths' = [paths EXCEPT ![t] = "own"]
    /\ moveUp' = [moveUp EXCEPT ![t] = "done"]
    /\ UNCHANGED <<covers, pc, from, tree, canceled, peerGone, contended>>

-----------------------------------------------------------------------------
(* The handler of one request. *)

(* StartTCP accepts and starts the handler; the request is decoded. *)
ReceiveConnectPath(c, ip, t) ==
    /\ pc[c] = "free" /\ Cardinality(Handlers) < MaxHandlers
    /\ Goto(c, "getCover")
    /\ from' = [from EXCEPT ![c] = ip]
    /\ tree' = [tree EXCEPT ![c] = t]
    /\ UNCHANGED <<covers, paths, moveUp, canceled, peerGone, contended>>

ReceiveCreateProxy(c, ip) ==
    /\ pc[c] = "free" /\ Cardinality(Handlers) < MaxHandlers
    /\ Goto(c, "getCover")
    /\ from' = [from EXCEPT ![c] = ip]
    /\ UNCHANGED <<covers, paths, moveUp, tree, canceled, peerGone, contended>>

(* _, alreadyMyCover := n.covers.getValue(coverIp).  The code makes all its *)
(* reads before it decides; one that speaks against the requester settles   *)
(* the answer, so the model goes to "deny" at once.                         *)
CheckCover(c) ==
    /\ pc[c] = "getCover"
    /\ Goto(c, IF covers[from[c]] = None THEN "getSize" ELSE "deny")
    /\ contended' = IF covers[from[c]] = None /\ \E d \in Deciding : from[d] = from[c]
                    THEN contended \cup {from[c]} ELSE contended
    /\ UNCHANGED <<covers, paths, moveUp, from, tree, canceled, peerGone>>

(* tooManyCovers := n.covers.getSize() >= MAXIMUM_NUMBER_OF_COVER_NODES *)
CheckSize(c) ==
    /\ pc[c] = "getSize"
    /\ Goto(c, IF Cardinality(Members) < MaxCovers THEN "getPath" ELSE "deny")
    /\ OnlyMoves

(* handleConnectPathReq: n.paths.getValue(requestedPathID) *)
CheckPath(c) ==
    /\ pc[c] = "getPath" /\ tree[c] # None
    /\ Goto(c, IF paths[tree[c]] # "absent" THEN "addCover" ELSE "deny")
    /\ OnlyMoves

(* handleCreateProxyReq: n.paths.iterate looks for a self proxy path *)
CheckProxy(c) ==
    /\ pc[c] = "getPath" /\ tree[c] = None
    /\ Goto(c, IF SelfProxies = {} THEN "addPath" ELSE "deny")
    /\ OnlyMoves

(* n.paths.setValue(newPathID, newPath) under a fresh uuid *)
AddPath(c, t) ==
    /\ pc[c] = "addPath" /\ paths[t] = "absent"
    /\ paths' = [paths EXCEPT ![t] = "requested"]
    /\ tree' = [tree EXCEPT ![c] = t]
    /\ Goto(c, "addCover")
    /\ UNCHANGED <<covers, moveUp, from, canceled, peerGone, contended>>

(* n.covers.setValue(coverIp, newCover) *)
AddCover(c) ==
    /\ pc[c] = "addCover"
    /\ covers' = [covers EXCEPT ![from[c]] = c]
    /\ Goto(c, "reply")
    /\ UNCHANGED <<paths, moveUp, from, tree, canceled, peerGone, contended>>

(* The response is written and the worker started. *)
Reply(c) ==
    /\ pc[c] = "reply"
    /\ Goto(c, "work")
    /\ OnlyMoves

(* The response cannot be written: conn.Close() and return, and the record *)
(* stays.  The slot is not reused, the record still names it.              *)
ReplyFails(c) ==
    /\ pc[c] = "reply" /\ peerGone[c]
    /\ Goto(c, "failed")
    /\ OnlyMoves

(* The refusal is written, or cannot be; the connection is closed. *)
Deny(c) ==
    /\ pc[c] = "deny"
    /\ Free(c)
    /\ UNCHANGED <<covers, paths, moveUp, contended>>

-----------------------------------------------------------------------------
(* handleApplicationMessageWorker *)

(* Decode fails, or the context was cancelled. *)
WorkerStops(c) ==
    /\ pc[c] = "work" /\ (peerGone[c] \/ canceled[c])
    /\ Goto(c, "cleanup")
    /\ OnlyMoves

(* No message for APPLICATION_MESSAGE_RECEIVING_INTERVAL. *)
WorkerTimesOut(c) ==
    /\ pc[c] = "work"
    /\ Goto(c, "cleanup")
    /\ OnlyMoves

(* The deferred function: conn.Close(), then *)
(* node.covers.deleteValue(coverProfile.cover).           *)
WorkerCleanup(c) ==
    /\ pc[c] = "cleanup"
    /\ covers' = [covers EXCEPT ![from[c]] = None]
    /\ Free(c)
    /\ UNCHANGED <<paths, moveUp, contended>>

-----------------------------------------------------------------------------
(* The rest of the node and its surroundings. *)

(* The requester closes the connection, crashes or stops sending.  The     *)
(* node looks at the connection from the reply on, so a peer that left     *)
(* earlier is one that leaves then.                                        *)
PeerLeaves(c) ==
    /\ pc[c] \in {"reply", "work"} /\ ~peerGone[c]
    /\ peerGone' = [peerGone EXCEPT ![c] = TRUE]
    /\ UNCHANGED <<covers, paths, moveUp, pc, from, tree, canceled, contended>>

(* ConnectPath or CreateProxy of this node succeeds: n.paths.setValue *)
PathConnected(t) ==
    /\ paths[t] = "absent"
    /\ paths' = [paths EXCEPT ![t] = "relay"]
    /\ moveUp' = [moveUp EXCEPT ![t] = IF @ = "done" THEN "idle" ELSE @]
    /\ UNCHANGED <<covers, pc, from, tree, canceled, peerGone, contended>>

(* sendCoverMessageWorker of this node ends: n.paths.deleteValue *)
PathRemoved(t) ==
    /\ paths[t] = "relay"
    /\ paths' = [paths EXCEPT ![t] = "absent"]
    /\ UNCHANGED <<covers, moveUp, pc, from, tree, canceled, peerGone, contended>>

(* POST /path with an empty body: no check precedes the setValue. *)
BecomeProxy(t) ==
    /\ paths[t] = "absent" /\ Cardinality(OwnProxies) < MaxOwnProxies
    /\ paths' = [paths EXCEPT ![t] = "own"]
    /\ UNCHANGED <<covers, moveUp, pc, from, tree, canceled, peerGone, contended>>

(* maintainPathsHealthWorker blacklists a path and starts MoveUp on it. *)
Blacklist(t) ==
    /\ paths[t] = "relay" /\ moveUp[t] = "idle"
    /\ moveUp' = [moveUp EXCEPT ![t] = "verify"]
    /\ UNCHANGED <<covers, paths, pc, from, tree, canceled, peerGone, contended>>

(* MoveUp returns early: the next hop was the proxy, the next-next hop did *)
(* not answer, or it took this node as a cover.                            *)
MoveUpReturns(t) ==
    /\ moveUp[t] = "verify"
    /\ moveUp' = [moveUp EXCEPT ![t] = "idle"]
    /\ UNCHANGED <<covers, paths, pc, from, tree, canceled, peerGone, contended>>

(* MoveUp, step 3: under the lock, cancel every cover of the path. *)
MoveUpCancels(t) ==
    /\ moveUp[t] = "verify"
    /\ canceled' = [c \in Conn |->
                      \/ canceled[c]
                      \/ \E ip \in IP : covers[ip] = c /\ tree[c] = t]
    /\ moveUp' = [moveUp EXCEPT ![t] = "becomeProxy"]
    /\ UNCHANGED <<covers, paths, pc, from, tree, peerGone, contended>>

(* MoveUp's last step: a fresh path of which this node is the proxy. *)
MoveUpBecomesProxy(t, new) ==
    /\ moveUp[t] = "becomeProxy"
    /\ paths[new] = "absent" /\ Cardinality(OwnProxies) < MaxOwnProxies
    /\ paths' = [paths EXCEPT ![new] = "own"]
    /\ moveUp' = [moveUp EXCEPT ![t] = "done"]
    /\ UNCHANGED <<covers, pc, from, tree, canceled, peerGone, contended>>

(* The process dies and is started again.  Nothing is kept on disk; the    *)
(* handlers' unlocked reads of n.covers.data for the log                   *)
(* (handlers_tcp.go:186 and 267) are one way for it to die, the runtime    *)
(* stops a program that iterates a map another goroutine writes.           *)
Restart ==
    /\ covers' = [ip \in IP |-> None]
    /\ paths' = [t \in Tree |-> "absent"]
    /\ moveUp' = [t \in RelayTree |-> "idle"]
    /\ pc' = [c \in Conn |-> "free"]
    /\ from' = [c \in Conn |-> None]
    /\ tree' = [c \in Conn |-> None]
    /\ canceled' = [c \in Conn |-> FALSE]
    /\ peerGone' = [c \in Conn |-> FALSE]
    /\ contended' = {}

-----------------------------------------------------------------------------
HandlerStep(c) ==
    \/ CheckCover(c) \/ CheckSize(c) \/ CheckPath(c) \/ CheckProxy(c)
    \/ \E t \in ProxyTree : AddPath(c, t)
    \/ AddCover(c) \/ Reply(c) \/ ReplyFails(c) \/ Deny(c)

WorkerStep(c) == WorkerStops(c) \/ WorkerCleanup(c)

NodeStep ==
    \/ \E t \in RelayTree :
          \/ PathConnected(t) \/ PathRemoved(t) \/ Blacklist(t)
          \/ MoveUpReturns(t) \/ MoveUpCancels(t)
          \/ \E new \in ProxyTree : MoveUpBecomesProxy(t, new)
    \/ \E t \in ProxyTree : BecomeProxy(t)

Next ==
    \/ \E c \in Conn :
          \/ HandlerStep(c) \/ WorkerStep(c) \/ WorkerTimesOut(c) \/ PeerLeaves(c)
          \/ \E ip \in IP : \/ ReceiveCreateProxy(c, ip)
                            \/ \E t \in Tree : ReceiveConnectPath(c, ip, t)
    \/ NodeStep
    \/ Restart

Spec == Init /\ [][Next]_vars

(* Goroutines that can run do run.  Nothing is assumed of the peers, of    *)
(* timers, of the user or of the node's own paths.                         *)
Fairness == \A c \in Conn : WF_vars(HandlerStep(c)) /\ WF_vars(WorkerStep(c))

FairSpec == Spec /\ Fairness

-----------------------------------------------------------------------------
(* Properties *)

(* Every variable keeps the shape the code gives it. *)
TypeOK ==
    /\ covers \in [IP -> Conn \cup {None}]
    /\ paths \in [Tree -> PathKinds]
    /\ \A t \in RelayTree : paths[t] \in {"absent", "relay"}
    /\ \A t \in ProxyTree : paths[t] # "relay"
    /\ moveUp \in [RelayTree -> MoveUpStages]
    /\ pc \in [Conn -> Stages]
    /\ from \in [Conn -> IP \cup {None}]
    /\ tree \in [Conn -> Tree \cup {None}]
    /\ canceled \in [Conn -> BOOLEAN]
    /\ peerGone \in [Conn -> BOOLEAN]
    /\ contended \subseteq IP \cup {None}

(* A record of the cover table never outlives its owner: the connection    *)
(* that wrote it comes from that address and is still being answered,      *)
(* served or cleaned up (or its answer failed, see GhostsGo).  The cleanup *)
(* deletes by address only, after checks that other handlers may have      *)
(* passed meanwhile, so this is not the shape of one function.             *)
RecordHasOwner ==
    \A ip \in IP : covers[ip] # None =>
        /\ from[covers[ip]] = ip
        /\ tree[covers[ip]] \in Tree
        /\ pc[covers[ip]] \in {"reply", "work", "cleanup", "failed"}

(* The limit on covers can be overshot, but by no more than the number of  *)
(* handlers that run at once, less one: "deny if the number of covers has  *)
(* reached the threshold" is a check made before the insertion.            *)
CoverBound == Cardinality(Members) <= MaxCovers + MaxHandlers - 1

(* Likewise for "deny if already have a self proxy path": at most one      *)
(* proxy path on request for each handler that runs at once.               *)
RequestedProxies == {t \in ProxyTree : paths[t] = "requested"}
RequestedProxyBound == Cardinality(RequestedProxies) <= MaxHandlers

(* A connection that is being served has its record in the table, so that  *)
(* the peer is verified by VerifyCover, counts towards canPublish and can  *)
(* be cancelled by MoveUp.  Only two requests of one address, each looked  *)
(* up before the other's insertion, can leave one without; refusals,       *)
(* cleanups by address and requests of other peers never do.               *)
ServedHasRecord ==
    \A c \in Conn :
        pc[c] \in {"work", "cleanup"} /\ from[c] \notin contended => covers[from[c]] = c

(* The table is what CoverTable promises, with a place more for each        *)
(* handler that runs beside another; with one at a time, exactly that.     *)
Table ==
    INSTANCE CoverTable WITH
        members <- Members, MaxCovers <- MaxCovers + MaxHandlers - 1
ImplementsCoverTable == Table!Spec

(* A served peer that leaves, or whose record is cancelled, is released.   *)
DepartedIsReleased ==
    \A ip \in IP, c \in Conn :
        (covers[ip] = c /\ pc[c] = "work" /\ (peerGone[c] \/ canceled[c]))
            ~> (covers[ip] # c)

(* Every request is decided: the connection is closed or served.           *)
RequestIsDecided ==
    \A c \in Conn : pc[c] \in Handling ~> pc[c] \notin Handling

-----------------------------------------------------------------------------
(* What a test says of the program, and the code does not keep. *)

(* cover_node_test.go, TestCoverCrash: a crashed cover leaves the table.   *)
GhostsGo ==
    \A ip \in IP, c \in Conn :
        (covers[ip] = c /\ peerGone[c]) ~> (covers[ip] # c)
=============================================================================

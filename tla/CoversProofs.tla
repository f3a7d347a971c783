---------------------------- MODULE CoversProofs ----------------------------
(***************************************************************************)
(* Proofs about Covers for every set of connections, addresses and trees   *)
(* and every value of the limits.                                          *)
(***************************************************************************)
EXTENDS Covers, FiniteSetTheorems, TLAPS

LEMMA InitTypeOK == Init => TypeOK
  BY CoversAssumption DEF Init, TypeOK, PathKinds, MoveUpStages, Stages, Tree

LEMMA NextTypeOK == TypeOK /\ [Next]_vars => TypeOK'
<1> SUFFICES ASSUME TypeOK, [Next]_vars PROVE TypeOK'
  OBVIOUS
<1> USE CoversAssumption
    DEF TypeOK, PathKinds, MoveUpStages, Stages, Tree, Handling, Checking, Adding
<1>1. ASSUME NEW c \in Conn, HandlerStep(c) PROVE TypeOK'
  <2>1. CASE CheckSize(c) \/ CheckPath(c) \/ CheckProxy(c)
    BY <2>1 DEF CheckSize, CheckPath, CheckProxy, Goto, OnlyMoves
  <2>6. CASE CheckCover(c)
    BY <2>6 DEF CheckCover, Goto
  <2>2. ASSUME NEW t \in ProxyTree, AddPath(c, t) PROVE TypeOK'
    BY <2>2 DEF AddPath, Goto
  <2>3. CASE AddCover(c)
    BY <2>3 DEF AddCover, Goto
  <2>4. CASE Reply(c) \/ ReplyFails(c)
    BY <2>4 DEF Reply, ReplyFails, Goto, OnlyMoves
  <2>5. CASE Deny(c)
    BY <2>5 DEF Deny, Free
  <2> QED BY <1>1, <2>1, <2>2, <2>3, <2>4, <2>5, <2>6 DEF HandlerStep
<1>2. ASSUME NEW c \in Conn, WorkerStops(c) \/ WorkerTimesOut(c) PROVE TypeOK'
  BY <1>2 DEF WorkerStops, WorkerTimesOut, Goto, OnlyMoves
<1>3. ASSUME NEW c \in Conn, WorkerCleanup(c) PROVE TypeOK'
  BY <1>3 DEF WorkerCleanup, Free
<1>4. ASSUME NEW c \in Conn, PeerLeaves(c) PROVE TypeOK'
  BY <1>4 DEF PeerLeaves
<1>5. ASSUME NEW c \in Conn, NEW ip \in IP, ReceiveCreateProxy(c, ip)
      PROVE  TypeOK'
  BY <1>5 DEF ReceiveCreateProxy, Goto
<1>6. ASSUME NEW c \in Conn, NEW ip \in IP, NEW t \in Tree,
             ReceiveConnectPath(c, ip, t)
      PROVE  TypeOK'
  BY <1>6 DEF ReceiveConnectPath, Goto
<1>7. CASE NodeStep
  <2>1. ASSUME NEW t \in RelayTree, PathConnected(t) \/ PathRemoved(t)
        PROVE  TypeOK'
    BY <2>1 DEF PathConnected, PathRemoved
  <2>2. ASSUME NEW t \in RelayTree, Blacklist(t) \/ MoveUpReturns(t)
        PROVE  TypeOK'
    BY <2>2 DEF Blacklist, MoveUpReturns
  <2>3. ASSUME NEW t \in RelayTree, MoveUpCancels(t) PROVE TypeOK'
    BY <2>3 DEF MoveUpCancels
  <2>4. ASSUME NEW t \in RelayTree, NEW new \in ProxyTree,
               MoveUpBecomesProxy(t, new)
        PROVE  TypeOK'
    BY <2>4 DEF MoveUpBecomesProxy
  <2>5. ASSUME NEW t \in ProxyTree, BecomeProxy(t) PROVE TypeOK'
    BY <2>5 DEF BecomeProxy
  <2> QED BY <1>7, <2>1, <2>2, <2>3, <2>4, <2>5 DEF NodeStep
<1>8. CASE Restart
  BY <1>8 DEF Restart
<1>9. CASE UNCHANGED vars
  BY <1>9 DEF vars
<1> QED
  BY <1>1, <1>2, <1>3, <1>4, <1>5, <1>6, <1>7, <1>8, <1>9 DEF Next, WorkerStep

(* Every reachable state has the shape TypeOK gives it.                    *)
THEOREM TypeCorrect == Spec => []TypeOK
  BY InitTypeOK, NextTypeOK, PTL DEF Spec

-----------------------------------------------------------------------------
(* Most invariants speak of the connections and the cover table only; the  *)
(* steps of the rest of the node do not touch these.                       *)
table == <<covers, pc, from, tree, contended>>

LEMMA OtherSteps ==
  ASSUME NodeStep \/ UNCHANGED vars \/ \E c \in Conn : PeerLeaves(c)
  PROVE  UNCHANGED table
BY DEF NodeStep, vars, table, PeerLeaves, PathConnected, PathRemoved, Blacklist,
       MoveUpReturns, MoveUpCancels, MoveUpBecomesProxy, BecomeProxy

(* A goroutine that runs knows whom it serves, and past AddPath the tree.   *)
Located ==
    \A c \in Conn : pc[c] # "free" =>
        /\ from[c] \in IP
        /\ pc[c] \in {"addCover", "reply", "work", "cleanup", "failed"}
              => tree[c] \in Tree

OwnerInv == TypeOK /\ Located /\ RecordHasOwner

LEMMA InitOwnerInv == Init => OwnerInv
  BY InitTypeOK DEF Init, OwnerInv, Located, RecordHasOwner

LEMMA NextOwnerInv == OwnerInv /\ [Next]_vars => OwnerInv'
<1> SUFFICES ASSUME OwnerInv, [Next]_vars
             PROVE  Located' /\ RecordHasOwner'
  BY NextTypeOK DEF OwnerInv
<1> USE CoversAssumption DEF OwnerInv, TypeOK, Located, RecordHasOwner, Tree
<1>1. ASSUME NEW c \in Conn, HandlerStep(c)
      PROVE  Located' /\ RecordHasOwner'
  <2>1. CASE CheckCover(c) \/ CheckSize(c) \/ CheckPath(c) \/ CheckProxy(c)
    BY <2>1 DEF CheckCover, CheckSize, CheckPath, CheckProxy, Goto, OnlyMoves
  <2>2. ASSUME NEW t \in ProxyTree, AddPath(c, t)
        PROVE  Located' /\ RecordHasOwner'
    BY <2>2 DEF AddPath, Goto
  <2>3. CASE AddCover(c)
    BY <2>3 DEF AddCover, Goto
  <2>4. CASE Reply(c) \/ ReplyFails(c)
    BY <2>4 DEF Reply, ReplyFails, Goto, OnlyMoves
  <2>5. CASE Deny(c)
    BY <2>5 DEF Deny, Free
  <2> QED BY <1>1, <2>1, <2>2, <2>3, <2>4, <2>5 DEF HandlerStep
<1>2. ASSUME NEW c \in Conn, WorkerStops(c) \/ WorkerTimesOut(c)
      PROVE  Located' /\ RecordHasOwner'
  BY <1>2 DEF WorkerStops, WorkerTimesOut, Goto, OnlyMoves
<1>3. ASSUME NEW c \in Conn, WorkerCleanup(c)
      PROVE  Located' /\ RecordHasOwner'
  BY <1>3 DEF WorkerCleanup, Free
<1>4. ASSUME NEW c \in Conn, NEW ip \in IP,
             \/ ReceiveCreateProxy(c, ip)
             \/ \E t \in Tree : ReceiveConnectPath(c, ip, t)
      PROVE  Located' /\ RecordHasOwner'
  BY <1>4 DEF ReceiveCreateProxy, ReceiveConnectPath, Goto
<1>5. CASE Restart
  BY <1>5 DEF Restart
<1>6. CASE UNCHANGED table
  BY <1>6 DEF table
<1> QED
  BY <1>1, <1>2, <1>3, <1>4, <1>5, <1>6, OtherSteps DEF Next, WorkerStep

(* A record never outlives the connection whose handler wrote it.          *)
THEOREM RecordsHaveOwners == Spec => []RecordHasOwner
<1>1. Spec => []OwnerInv
  BY InitOwnerInv, NextOwnerInv, PTL DEF Spec
<1>2. OwnerInv => RecordHasOwner
  BY DEF OwnerInv
<1> QED BY <1>1, <1>2, PTL

-----------------------------------------------------------------------------
(* Cardinalities of sets that differ by one element.                       *)

LEMMA NoMore ==
  ASSUME NEW S, IsFiniteSet(S), NEW T, T \subseteq S
  PROVE  /\ IsFiniteSet(T) /\ Cardinality(T) \in Nat /\ Cardinality(S) \in Nat
         /\ Cardinality(T) <= Cardinality(S)
BY FS_Subset, FS_CardinalityType

LEMMA OneMore ==
  ASSUME NEW S, IsFiniteSet(S), NEW x, NEW T, T \subseteq S \cup {x}
  PROVE  /\ IsFiniteSet(T) /\ Cardinality(T) \in Nat /\ Cardinality(S) \in Nat
         /\ Cardinality(T) <= Cardinality(S) + 1
<1>1. /\ IsFiniteSet(S \cup {x})
      /\ Cardinality(S \cup {x}) <= Cardinality(S) + 1
  <2>1. Cardinality(S) \in Nat
    BY FS_CardinalityType
  <2> QED BY <2>1, FS_AddElement
<1> QED BY <1>1, NoMore, FS_CardinalityType

LEMMA OneLess ==
  ASSUME NEW S, IsFiniteSet(S), NEW x \in S, NEW T, T \subseteq S \ {x}
  PROVE  /\ IsFiniteSet(T) /\ Cardinality(T) \in Nat /\ Cardinality(S) \in Nat
         /\ Cardinality(T) <= Cardinality(S) - 1
<1>1. /\ IsFiniteSet(S \ {x})
      /\ Cardinality(S \ {x}) = Cardinality(S) - 1
  BY FS_RemoveElement
<1> QED BY <1>1, NoMore, FS_CardinalityType

-----------------------------------------------------------------------------
(* The overshoot.  A handler past the size check will insert without       *)
(* looking again; it is charged to the table in advance.                   *)

Admitted == {c \in Conn : pc[c] \in {"getPath", "addPath", "addCover"}}
Openers == {c \in Conn : pc[c] = "addPath"}

BoundInv ==
    /\ Cardinality(Handlers) <= MaxHandlers
    /\ Cardinality(Members) + Cardinality(Admitted) <= MaxCovers + MaxHandlers - 1
    /\ Cardinality(RequestedProxies) + Cardinality(Openers) <= MaxHandlers

LEMMA Finiteness ==
  /\ IsFiniteSet(Handlers) /\ IsFiniteSet(Members) /\ IsFiniteSet(Admitted)
  /\ IsFiniteSet(RequestedProxies) /\ IsFiniteSet(Openers)
  /\ Admitted \subseteq Handlers /\ Openers \subseteq Handlers
BY CoversAssumption, FS_Subset
   DEF Handlers, Members, Admitted, RequestedProxies, Openers, Handling,
       Checking, Adding

LEMMA InitBoundInv == Init => BoundInv
<1> SUFFICES ASSUME Init PROVE BoundInv
  OBVIOUS
<1>1. /\ Handlers = {} /\ Members = {} /\ Admitted = {}
      /\ RequestedProxies = {} /\ Openers = {}
  BY DEF Init, Handlers, Members, Admitted, RequestedProxies, Openers, Handling,
         Checking, Adding, Tree
<1> QED BY <1>1, FS_EmptySet, CoversAssumption DEF BoundInv

LEMMA NextBoundInv == OwnerInv /\ BoundInv /\ [Next]_vars => BoundInv'
<1> SUFFICES ASSUME OwnerInv, BoundInv, [Next]_vars PROVE BoundInv'
  OBVIOUS
<1>0. /\ Cardinality(Handlers) \in Nat /\ Cardinality(Members) \in Nat
      /\ Cardinality(Admitted) \in Nat /\ Cardinality(RequestedProxies) \in Nat
      /\ Cardinality(Openers) \in Nat
  BY Finiteness, FS_CardinalityType
<1> USE CoversAssumption DEF OwnerInv, TypeOK
<1>1. ASSUME NEW c \in Conn, HandlerStep(c) PROVE BoundInv'
  <2>1. CASE CheckCover(c)
    <3>1. /\ Handlers' = Handlers /\ Members' = Members /\ Admitted' = Admitted
          /\ RequestedProxies' = RequestedProxies /\ Openers' = Openers
      BY <2>1 DEF CheckCover, Goto, OnlyMoves, Handlers, Members, Admitted,
                  RequestedProxies, Openers, Handling, Checking, Adding
    <3> QED BY <3>1 DEF BoundInv
  <2>2. CASE CheckSize(c)
    <3>1. /\ Handlers' = Handlers /\ Members' = Members
          /\ RequestedProxies' = RequestedProxies /\ Openers' = Openers
      BY <2>2 DEF CheckSize, Goto, OnlyMoves, Handlers, Members,
                  RequestedProxies, Openers, Handling, Checking, Adding
    <3>2. CASE Cardinality(Members) < MaxCovers
      <4>1. /\ Admitted' \subseteq Handlers
        BY <2>2, <3>1, Finiteness
           DEF CheckSize, Goto, OnlyMoves, Admitted, Handlers, Handling,
               Checking, Adding
      <4>2. /\ Cardinality(Admitted') <= MaxHandlers
            /\ Cardinality(Admitted') \in Nat
        BY <4>1, <1>0, NoMore, Finiteness DEF BoundInv
      <4> QED BY <3>1, <3>2, <4>2, <1>0 DEF BoundInv
    <3>3. CASE ~(Cardinality(Members) < MaxCovers)
      <4>1. Admitted' = Admitted
        BY <2>2, <3>3 DEF CheckSize, Goto, OnlyMoves, Admitted
      <4> QED BY <3>1, <4>1 DEF BoundInv
    <3> QED BY <3>2, <3>3
  <2>3. CASE CheckPath(c)
    <3>1. /\ Handlers' = Handlers /\ Members' = Members
          /\ RequestedProxies' = RequestedProxies /\ Openers' = Openers
          /\ Admitted' \subseteq Admitted
      BY <2>3 DEF CheckPath, Goto, OnlyMoves, Handlers, Members, Admitted,
                  RequestedProxies, Openers, Handling, Checking, Adding
    <3>2. /\ Cardinality(Admitted') <= Cardinality(Admitted)
          /\ Cardinality(Admitted') \in Nat
      BY <3>1, NoMore, Finiteness
    <3> QED BY <1>0, <3>1, <3>2 DEF BoundInv
  <2>4. CASE CheckProxy(c)
    <3>1. /\ Handlers' = Handlers /\ Members' = Members
          /\ RequestedProxies' = RequestedProxies
          /\ Admitted' \subseteq Admitted
      BY <2>4 DEF CheckProxy, Goto, OnlyMoves, Handlers, Members, Admitted,
                  RequestedProxies, Handling, Checking, Adding
    <3>2. /\ Cardinality(Admitted') <= Cardinality(Admitted)
          /\ Cardinality(Admitted') \in Nat
      BY <3>1, NoMore, Finiteness
    <3>3. CASE SelfProxies = {}
      <4>1. RequestedProxies = {}
        BY <3>3 DEF SelfProxies, RequestedProxies
      <4>2. Openers' \subseteq Handlers
        BY <2>4, Finiteness
           DEF CheckProxy, Goto, OnlyMoves, Openers, Handlers, Handling,
               Checking, Adding
      <4>3. /\ Cardinality(Openers') <= Cardinality(Handlers)
            /\ Cardinality(Openers') \in Nat
        BY <4>2, NoMore, Finiteness
      <4> QED BY <1>0, <3>1, <3>2, <4>1, <4>3, FS_EmptySet DEF BoundInv
    <3>4. CASE SelfProxies # {}
      <4>1. Openers' = Openers
        BY <2>4, <3>4 DEF CheckProxy, Goto, OnlyMoves, Openers
      <4> QED BY <1>0, <3>1, <3>2, <4>1 DEF BoundInv
    <3> QED BY <3>3, <3>4
  <2>5. ASSUME NEW t \in ProxyTree, AddPath(c, t) PROVE BoundInv'
    <3>1. /\ Handlers' = Handlers /\ Members' = Members /\ Admitted' = Admitted
      BY <2>5 DEF AddPath, Goto, Handlers, Members, Admitted, Handling, Checking,
                  Adding
    <3>2. RequestedProxies' \subseteq RequestedProxies \cup {t}
      BY <2>5 DEF AddPath, RequestedProxies, Tree
    <3>3. c \in Openers /\ Openers' \subseteq Openers \ {c}
      BY <2>5 DEF AddPath, Goto, Openers
    <3>4. /\ Cardinality(RequestedProxies') <= Cardinality(RequestedProxies) + 1
          /\ Cardinality(RequestedProxies') \in Nat
      BY <3>2, OneMore, Finiteness
    <3>5. /\ Cardinality(Openers') <= Cardinality(Openers) - 1
          /\ Cardinality(Openers') \in Nat
      BY <3>3, OneLess, Finiteness
    <3> QED BY <1>0, <3>1, <3>4, <3>5 DEF BoundInv
  <2>6. CASE AddCover(c)
    <3>1. /\ Handlers' = Handlers /\ RequestedProxies' = RequestedProxies
          /\ Openers' = Openers
      BY <2>6 DEF AddCover, Goto, Handlers, RequestedProxies, Openers, Handling,
                  Checking, Adding
    <3>2. Members' \subseteq Members \cup {from[c]}
      BY <2>6 DEF AddCover, Members
    <3>3. c \in Admitted /\ Admitted' \subseteq Admitted \ {c}
      BY <2>6 DEF AddCover, Goto, Admitted
    <3>4. /\ Cardinality(Members') <= Cardinality(Members) + 1
          /\ Cardinality(Members') \in Nat
      BY <3>2, OneMore, Finiteness
    <3>5. /\ Cardinality(Admitted') <= Cardinality(Admitted) - 1
          /\ Cardinality(Admitted') \in Nat
      BY <3>3, OneLess, Finiteness
    <3> QED BY <1>0, <3>1, <3>4, <3>5 DEF BoundInv
  <2>7. CASE Reply(c) \/ ReplyFails(c) \/ Deny(c)
    <3>1. /\ Members' = Members /\ RequestedProxies' = RequestedProxies
          /\ Admitted' = Admitted /\ Openers' = Openers
          /\ Handlers' \subseteq Handlers
      BY <2>7 DEF Reply, ReplyFails, Deny, Free, Goto, OnlyMoves, Handlers,
                  Members, Admitted, RequestedProxies, Openers, Handling,
                  Checking, Adding
    <3>2. /\ Cardinality(Handlers') <= Cardinality(Handlers)
          /\ Cardinality(Handlers') \in Nat
      BY <3>1, NoMore, Finiteness
    <3> QED BY <1>0, <3>1, <3>2 DEF BoundInv
  <2> QED BY <1>1, <2>1, <2>2, <2>3, <2>4, <2>5, <2>6, <2>7 DEF HandlerStep
<1>2. ASSUME NEW c \in Conn,
             WorkerStops(c) \/ WorkerTimesOut(c) \/ WorkerCleanup(c)
      PROVE  BoundInv'
  <2>1. /\ Handlers' = Handlers /\ Admitted' = Admitted /\ Openers' = Openers
        /\ RequestedProxies' = RequestedProxies /\ Members' \subseteq Members
    BY <1>2 DEF WorkerStops, WorkerTimesOut, WorkerCleanup, Free, Goto,
                OnlyMoves, Handlers, Members, Admitted, RequestedProxies,
                Openers, Handling, Checking, Adding
  <2>2. /\ Cardinality(Members') <= Cardinality(Members)
        /\ Cardinality(Members') \in Nat
    BY <2>1, NoMore, Finiteness
  <2> QED BY <1>0, <2>1, <2>2 DEF BoundInv
<1>3. ASSUME NEW c \in Conn, NEW ip \in IP,
             \/ ReceiveCreateProxy(c, ip)
             \/ \E t \in Tree : ReceiveConnectPath(c, ip, t)
      PROVE  BoundInv'
  <2>0. /\ pc' = [pc EXCEPT ![c] = "getCover"] /\ pc[c] = "free"
        /\ Cardinality(Handlers) < MaxHandlers /\ UNCHANGED <<covers, paths>>
    BY <1>3 DEF ReceiveCreateProxy, ReceiveConnectPath, Goto
  <2>1. /\ Members' = Members /\ Admitted' = Admitted /\ Openers' = Openers
        /\ RequestedProxies' = RequestedProxies
        /\ Handlers' \subseteq Handlers \cup {c}
        /\ Cardinality(Handlers) < MaxHandlers
    BY <2>0 DEF Handlers, Members, Admitted, RequestedProxies, Openers, Handling,
                Checking, Adding
  <2>2. /\ Cardinality(Handlers') <= Cardinality(Handlers) + 1
        /\ Cardinality(Handlers') \in Nat
    BY <2>1, OneMore, Finiteness
  <2> QED BY <1>0, <2>1, <2>2 DEF BoundInv
<1>4. CASE Restart
  <2>1. Init'
    BY <1>4 DEF Restart, Init
  <2> QED BY <2>1, InitBoundInv, PTL
<1>5. CASE NodeStep \/ UNCHANGED vars \/ \E c \in Conn : PeerLeaves(c)
  <2>1. /\ Handlers' = Handlers /\ Members' = Members /\ Admitted' = Admitted
        /\ Openers' = Openers
    BY <1>5, OtherSteps DEF table, Handlers, Members, Admitted, Openers
  <2>2. RequestedProxies' = RequestedProxies
    BY <1>5 DEF RequestedProxies, NodeStep, vars, PeerLeaves, PathConnected,
                PathRemoved, Blacklist, MoveUpReturns, MoveUpCancels,
                MoveUpBecomesProxy, BecomeProxy, Tree
  <2> QED BY <2>1, <2>2 DEF BoundInv
<1> QED
  BY <1>1, <1>2, <1>3, <1>4, <1>5 DEF Next, WorkerStep

LEMMA BoundInvariant == Spec => [](OwnerInv /\ BoundInv)
  BY InitOwnerInv, NextOwnerInv, InitBoundInv, NextBoundInv, PTL DEF Spec

(* The table exceeds its limit by less than the number of handlers that    *)
(* run at once.                                                            *)
THEOREM OvershootIsBounded == Spec => []CoverBound
<1>1. BoundInv => CoverBound
  BY Finiteness, FS_CardinalityType, CoversAssumption DEF BoundInv, CoverBound
<1> QED BY <1>1, BoundInvariant, PTL

(* Requests open at most one proxy path per handler that runs at once.     *)
THEOREM RequestedProxiesAreBounded == Spec => []RequestedProxyBound
<1>1. BoundInv => RequestedProxyBound
  BY Finiteness, FS_CardinalityType, CoversAssumption
     DEF BoundInv, RequestedProxyBound
<1> QED BY <1>1, BoundInvariant, PTL

-----------------------------------------------------------------------------
(* Addresses of which no two handlers have decided side by side.  What a    *)
(* handler has read of one then stays true until it inserts, because the    *)
(* workers of other addresses do not touch that record.                     *)

Clear(ip) == ip \notin contended

AloneInv ==
    \A c \in Conn :
        Clear(from[c]) =>
            /\ c \in Deciding =>
                  /\ covers[from[c]] = None
                  /\ \A d \in Deciding : from[d] = from[c] => d = c
            /\ pc[c] \in {"reply", "work", "cleanup", "failed"} => covers[from[c]] = c

LEMMA InitAloneInv == Init => AloneInv
  BY DEF Init, AloneInv, Deciding, Adding

LEMMA NextAloneInv == OwnerInv /\ AloneInv /\ [Next]_vars => AloneInv'
<1> SUFFICES ASSUME OwnerInv, AloneInv, [Next]_vars PROVE AloneInv'
  OBVIOUS
<1> USE CoversAssumption
    DEF OwnerInv, TypeOK, Located, RecordHasOwner, AloneInv, Clear, Deciding, Adding
<1>1. ASSUME NEW c \in Conn, HandlerStep(c) PROVE AloneInv'
  <2>1. CASE CheckCover(c)
    BY <2>1 DEF CheckCover, Goto
  <2>2. CASE CheckSize(c) \/ CheckPath(c) \/ CheckProxy(c)
    BY <2>2 DEF CheckSize, CheckPath, CheckProxy, Goto, OnlyMoves
  <2>3. ASSUME NEW t \in ProxyTree, AddPath(c, t) PROVE AloneInv'
    BY <2>3 DEF AddPath, Goto
  <2>4. CASE AddCover(c)
    BY <2>4 DEF AddCover, Goto
  <2>5. CASE Reply(c) \/ ReplyFails(c)
    BY <2>5 DEF Reply, ReplyFails, Goto, OnlyMoves
  <2>6. CASE Deny(c)
    BY <2>6 DEF Deny, Free
  <2> QED BY <1>1, <2>1, <2>2, <2>3, <2>4, <2>5, <2>6 DEF HandlerStep
<1>2. ASSUME NEW c \in Conn, WorkerStops(c) \/ WorkerTimesOut(c) PROVE AloneInv'
  BY <1>2 DEF WorkerStops, WorkerTimesOut, Goto, OnlyMoves
<1>3. ASSUME NEW c \in Conn, WorkerCleanup(c) PROVE AloneInv'
  BY <1>3 DEF WorkerCleanup, Free
<1>4. ASSUME NEW c \in Conn, NEW ip \in IP,
             \/ ReceiveCreateProxy(c, ip)
             \/ \E t \in Tree : ReceiveConnectPath(c, ip, t)
      PROVE  AloneInv'
  BY <1>4 DEF ReceiveCreateProxy, ReceiveConnectPath, Goto
<1>5. CASE Restart
  <2>1. Init'
    BY <1>5 DEF Restart, Init
  <2> QED BY <2>1, InitAloneInv, PTL
<1>6. CASE UNCHANGED table
  BY <1>6 DEF table
<1> QED
  BY <1>1, <1>2, <1>3, <1>4, <1>5, <1>6, OtherSteps DEF Next, WorkerStep

(* handleConnectPathReq, handleCreateProxyReq: however many handlers run   *)
(* at once, a served peer is missing from the table only if two requests   *)
(* of its own address were looked up before either was inserted.           *)
THEOREM ServedHaveRecords == Spec => []ServedHasRecord
<1>1. OwnerInv /\ AloneInv => ServedHasRecord
  BY DEF AloneInv, Clear, ServedHasRecord
<1> QED
  BY <1>1, InitOwnerInv, NextOwnerInv, InitAloneInv, NextAloneInv, PTL DEF Spec

-----------------------------------------------------------------------------
(* The admission code, whose checks and insertion are separate critical    *)
(* sections, implements the atomic table for every number of handlers that *)
(* run at once: an insertion is an admission with a place to spare, or     *)
(* takes over a record that is there.                                      *)

LEMMA AddCoverAdmits ==
  ASSUME OwnerInv, BoundInv, NEW c \in Conn, AddCover(c)
  PROVE  Table!Next \/ UNCHANGED Members
<1> USE CoversAssumption DEF OwnerInv, TypeOK, Located
<1>1. from[c] \in IP /\ Members' = Members \cup {from[c]}
  BY DEF AddCover, Members
<1>2. CASE from[c] \in Members
  BY <1>1, <1>2
<1>3. CASE from[c] \notin Members
  <2>1. Cardinality(Members) < MaxCovers + MaxHandlers - 1
    <3>1. c \in Admitted
      BY DEF AddCover, Admitted
    <3>2. /\ Cardinality(Admitted \ {c}) \in Nat /\ Cardinality(Admitted) \in Nat
          /\ Cardinality(Admitted \ {c}) <= Cardinality(Admitted) - 1
      BY <3>1, OneLess, Finiteness
    <3>3. Cardinality(Members) \in Nat
      BY Finiteness, FS_CardinalityType
    <3> QED BY <3>2, <3>3 DEF BoundInv
  <2>2. Table!Cardinality(Members) = Cardinality(Members)
    BY DEF Table!Cardinality, Cardinality
  <2>3. Table!Admit(from[c])
    BY <1>1, <1>3, <2>1, <2>2 DEF Table!Admit
  <2> QED BY <1>1, <2>3 DEF Table!Next
<1> QED BY <1>2, <1>3

LEMMA CleanupReleases ==
  ASSUME OwnerInv, NEW c \in Conn, WorkerCleanup(c)
  PROVE  Table!Next \/ UNCHANGED Members
<1> USE CoversAssumption DEF OwnerInv, TypeOK, Located
<1>1. from[c] \in IP /\ Members' = Members \ {from[c]}
  BY DEF WorkerCleanup, Members
<1>2. CASE from[c] \in Members
  BY <1>1, <1>2 DEF Table!Next, Table!Release
<1>3. CASE from[c] \notin Members
  BY <1>1, <1>3
<1> QED BY <1>2, <1>3

THEOREM CoverTableImplemented == Spec => ImplementsCoverTable
<1>1. Init => Table!Init
  BY DEF Init, Table!Init, Members
<1>2. ASSUME OwnerInv, BoundInv, [Next]_vars
      PROVE  Table!Next \/ UNCHANGED Members
  <2>1. \/ Restart \/ UNCHANGED covers
        \/ \E c \in Conn : AddCover(c) \/ WorkerCleanup(c)
    BY <1>2, OtherSteps
       DEF Next, HandlerStep, WorkerStep, CheckCover, CheckSize, CheckPath,
           CheckProxy, AddPath, Reply, ReplyFails, Deny, WorkerStops,
           WorkerTimesOut, ReceiveCreateProxy, ReceiveConnectPath, table,
           OnlyMoves
  <2>2. CASE Restart
    BY <2>2 DEF Restart, Members, Table!Next, Table!Lose
  <2>3. CASE UNCHANGED covers
    BY <2>3 DEF Members
  <2> QED BY <1>2, <2>1, <2>2, <2>3, AddCoverAdmits, CleanupReleases
<1>3. OwnerInv /\ BoundInv /\ [Next]_vars => [Table!Next]_Members
  BY <1>2
<1> QED
  BY <1>1, <1>3, BoundInvariant, PTL DEF Spec, ImplementsCoverTable, Table!Spec
=============================================================================

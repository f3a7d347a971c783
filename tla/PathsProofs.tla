----------------------------- MODULE PathsProofs -----------------------------
(***************************************************************************)
(* Proofs about Paths for every set of peers, trees, offers and            *)
(* connections, and any number of connecting tasks at the same time.       *)
(*                                                                         *)
(* The invariants of Paths are not inductive: what a call carries depends  *)
(* on its stage, and what the tables may hold on whether the tree is the   *)
(* node's own.  Shape says both; Served adds that a connection named by a  *)
(* path, a report or an open connection is one that a worker serves.  With *)
(* both, LoneConnectionKept is inductive.                                  *)
(***************************************************************************)
EXTENDS Paths, TLAPS

Beyond == Peer \cup {ImmutableStorage}
RelayPath == [next : Peer, next2 : Beyond, conn : Conn]
HalfOpenPath == [next : Peer, next2 : Beyond, conn : {None}]
RelayReport == [how : {"clean", "fix"}, profile : RelayPath]

(* What a call carries at its stage. *)
WellFormed(k) ==
    /\ k \in Call
    /\ k.stage \notin {"idle", "becomeProxy"} => k.ip \in Peer
    /\ k.stage \in {"moveUp", "lookup", "request", "getHalfOpen"} => k.tree \in Tree
    /\ k.stage \in {"delHalfOpen", "setPath", "setOpen", "done"} => k.tree \in RelayTree
    /\ k.stage = "verify" => k.offer \in Offers /\ k.offer.tree \in RelayTree
    /\ k.stage \in {"delHalfOpen", "setPath"} => k.profile \in HalfOpenPath
    /\ k.verified \subseteq RelayTree

(* A node's own trees enter no table but paths, and its relay paths always  *)
(* have a connection.                                                      *)
Shape ==
    /\ TypeOK
    /\ \A c \in Conn :
          /\ WellFormed(call[c])
          /\ worker[c] # "none" <=> call[c].stage \in {"setOpen", "done"}
    /\ \A t \in RelayTree :
          /\ paths[t] \in RelayPath \cup {None}
          /\ halfOpen[t] \in HalfOpenPath \cup {None}
          /\ report[t] \in RelayReport \cup {None}
    /\ \A t \in OwnTree :
          /\ paths[t] = IF t \in known THEN OwnProfile ELSE None
          /\ halfOpen[t] = None
          /\ report[t] = None

-----------------------------------------------------------------------------
LEMMA IdleIsWellFormed == WellFormed(Idle) /\ Idle.stage = "idle"
  BY DEF WellFormed, Call, Idle, Stages, Tree

LEMMA ProfileKinds ==
  /\ RelayPath \subseteq Profile /\ HalfOpenPath \subseteq Profile
  /\ OwnProfile \in Profile /\ OwnProfile \notin RelayPath
  /\ RelayReport \subseteq Report
  /\ \A p \in HalfOpenPath, c \in Conn : [p EXCEPT !.conn = c] \in RelayPath
  BY PathsAssumption
     DEF RelayPath, HalfOpenPath, Beyond, Profile, Hop, OwnProfile, RelayReport, Report

LEMMA InitShape == Init => Shape
<1> SUFFICES ASSUME Init PROVE Shape
  OBVIOUS
<1>1. TypeOK
  BY IdleIsWellFormed, PathsAssumption DEF Init, Boot, TypeOK, WellFormed, Workers, Tree
<1> QED
  BY <1>1, IdleIsWellFormed, PathsAssumption DEF Init, Boot, Shape, Tree

(* A step that changes one call, which no worker serves yet or which stays  *)
(* past SetPath, and neither paths nor half-open paths.                    *)
LEMMA CallChanges ==
  ASSUME Shape, NEW c \in Conn, NEW new, WellFormed(new),
         worker[c] # "none" <=> new.stage \in {"setOpen", "done"},
         Locally(c, new), UNCHANGED <<paths, halfOpen>>,
         open' \in [Tree -> Conn \cup {None}], keys' \subseteq Peer,
         known' \subseteq Tree, \A o \in OwnTree : o \in known' <=> o \in known
  PROVE  Shape'
<1> USE DEF Locally
<1>1. TypeOK'
  BY DEF Shape, TypeOK, WellFormed
<1>2. \A d \in Conn : /\ WellFormed(call'[d])
                      /\ worker'[d] # "none" <=> call'[d].stage \in {"setOpen", "done"}
  BY DEF Shape, TypeOK
<1> QED
  BY <1>1, <1>2 DEF Shape, WellFormed

(* Likewise when the call only goes to another stage. *)
LEMMA StageChanges ==
  ASSUME Shape, NEW c \in Conn, NEW s, WellFormed([call[c] EXCEPT !.stage = s]),
         call[c].stage \notin {"setOpen", "done"}, s \notin {"setOpen", "done"},
         Goto(c, s), UNCHANGED <<table, known>>
  PROVE  Shape'
<1>1. worker[c] = "none"
  BY DEF Shape
<1>2. /\ UNCHANGED <<paths, halfOpen, open, keys, known>>
      /\ open' \in [Tree -> Conn \cup {None}] /\ keys' \subseteq Peer
      /\ known' \subseteq Tree
  BY DEF table, Shape, TypeOK
<1> DEFINE new == [call[c] EXCEPT !.stage = s]
<1> HIDE DEF new
<1>3. Locally(c, new)
  BY DEF Goto, new
<1>4. WellFormed(new) /\ new.stage \notin {"setOpen", "done"}
  BY DEF new, Shape, WellFormed, Call
<1> QED
  BY <1>1, <1>2, <1>3, <1>4, CallChanges

LEMMA CallReturns ==
  ASSUME Shape, NEW c \in Conn, call[c].stage \notin {"setOpen", "done"},
         Locally(c, Idle), UNCHANGED <<table, known>>
  PROVE  Shape'
<1>1. worker[c] = "none"
  BY DEF Shape
<1>2. /\ UNCHANGED <<paths, halfOpen, open, keys, known>>
      /\ open' \in [Tree -> Conn \cup {None}] /\ keys' \subseteq Peer
      /\ known' \subseteq Tree
  BY DEF table, Shape, TypeOK
<1> QED
  BY <1>1, <1>2, IdleIsWellFormed, CallChanges DEF Idle

LEMMA CallFails ==
  ASSUME Shape, NEW c \in Conn, call[c].stage \notin {"setOpen", "done"},
         Fails(c), UNCHANGED <<table, known>>
  PROVE  Shape'
<1>1. CASE call[c].kind = "moveUp"
  <2>1. WellFormed([call[c] EXCEPT !.stage = "becomeProxy"])
    BY DEF Shape, WellFormed, Call, Stages
  <2> QED BY <1>1, <2>1, StageChanges DEF Fails
<1>2. CASE call[c].kind # "moveUp"
  BY <1>2, CallReturns DEF Fails
<1> QED BY <1>1, <1>2

LEMMA DownShape == ASSUME Shape, NEW how, Down(how),
                          how \in {"stopped", "panicInQueryPath", "nilCancelFunc"}
                   PROVE  Shape'
<1>1. TypeOK'
  BY IdleIsWellFormed DEF Down, Shape, TypeOK, WellFormed, Workers
<1> QED
  BY <1>1, IdleIsWellFormed DEF Down, Shape, Tree

-----------------------------------------------------------------------------
(* The steps of a call. *)

LEMMA StartShape ==
  ASSUME Shape, NEW c \in Conn, NEW ip \in Peer,
         StartGetMorePaths(c, ip) \/ \E t \in Tree : StartPost(c, ip, t)
  PROVE  Shape'
<1>0. call[c].stage = "idle"
  <2>1. call[c] = Idle
    BY DEF StartGetMorePaths, StartPost, CanStart
  <2> QED BY <2>1 DEF Idle
<1>1. worker[c] = "none" /\ open \in [Tree -> Conn \cup {None}]
      /\ keys \subseteq Peer /\ known \subseteq Tree
  BY <1>0 DEF Shape, TypeOK
<1>2. CASE StartGetMorePaths(c, ip)
  <2>1. /\ WellFormed([Idle EXCEPT !.stage = "query", !.kind = "getMorePaths", !.ip = ip])
        /\ [Idle EXCEPT !.stage = "query", !.kind = "getMorePaths", !.ip = ip].stage
             = "query"
    BY DEF WellFormed, Call, Idle, Stages, Kinds, Asking
  <2> QED BY <1>1, <1>2, <2>1, CallChanges DEF StartGetMorePaths, table
<1>3. ASSUME NEW t \in Tree, StartPost(c, ip, t) PROVE Shape'
  <2>1. /\ WellFormed([Idle EXCEPT !.stage = "lookup", !.kind = "post", !.ip = ip, !.tree = t])
        /\ [Idle EXCEPT !.stage = "lookup", !.kind = "post", !.ip = ip, !.tree = t].stage
             = "lookup"
    BY DEF WellFormed, Call, Idle, Stages, Kinds, Asking
  <2> QED BY <1>1, <1>3, <2>1, CallChanges DEF StartPost, table
<1> QED BY <1>2, <1>3

LEMMA AskingShape ==
  ASSUME Shape, NEW c \in Conn,
         \/ Lookup(c) \/ QueryAnswered(c) \/ QueryUnanswered(c)
         \/ OfferNotVerified(c) \/ ChoosePath(c)
  PROVE  Shape'
<1>1. WellFormed(call[c]) /\ open \in [Tree -> Conn \cup {None}]
      /\ keys \subseteq Peer /\ known \subseteq Tree
  BY DEF Shape, TypeOK
<1>2. call[c].stage \in {"lookup", "query", "offers", "verify"} => worker[c] = "none"
  BY DEF Shape
<1> USE DEF WellFormed, Call, Stages, Asking
<1>3. CASE Lookup(c)
  <2>1. /\ WellFormed([call[c] EXCEPT !.stage = "request"])
        /\ WellFormed([call[c] EXCEPT !.stage = "query"])
    BY <1>1, <1>3 DEF Lookup
  <2> QED BY <1>3, <2>1, StageChanges DEF Lookup
<1>4. CASE QueryAnswered(c)
  <2>1. WellFormed([call[c] EXCEPT !.stage = "offers"])
    BY <1>1, <1>4 DEF QueryAnswered
  <2>2. keys' \subseteq Peer
    BY <1>1, <1>4 DEF QueryAnswered
  <2> QED BY <1>1, <1>2, <1>4, <2>1, <2>2, CallChanges DEF QueryAnswered, Goto
<1>5. CASE QueryUnanswered(c)
  BY <1>5, CallReturns, DownShape DEF QueryUnanswered
<1>6. CASE OfferNotVerified(c)
  <2>1. WellFormed([call[c] EXCEPT !.stage = "offers", !.offer = None])
    BY <1>1, <1>6 DEF OfferNotVerified
  <2> QED BY <1>1, <1>2, <1>6, <2>1, CallChanges DEF OfferNotVerified, table
<1>7. CASE ChoosePath(c)
  <2>1. CASE call[c].tree # None
    <3>1. WellFormed([call[c] EXCEPT !.stage = "request", !.verified = {}])
      BY <1>1, <1>7, <2>1 DEF ChoosePath
    <3> QED BY <1>1, <1>2, <1>7, <2>1, <3>1, CallChanges DEF ChoosePath, table
  <2>2. CASE call[c].tree = None /\ Goto(c, "askProxy")
    <3>1. WellFormed([call[c] EXCEPT !.stage = "askProxy"])
      BY <1>1, <1>7 DEF ChoosePath
    <3> QED BY <1>7, <2>2, <3>1, StageChanges DEF ChoosePath
  <2>3. ASSUME NEW t \in call[c].verified,
               Locally(c, [call[c] EXCEPT !.stage = "lookup", !.tree = t, !.verified = {}])
        PROVE  Shape'
    <3>1. WellFormed([call[c] EXCEPT !.stage = "lookup", !.tree = t, !.verified = {}])
      BY <1>1, <1>7 DEF ChoosePath, Tree
    <3> QED BY <1>1, <1>2, <1>7, <2>3, <3>1, CallChanges DEF ChoosePath, table
  <2> QED BY <1>7, <2>1, <2>2, <2>3 DEF ChoosePath
<1> QED BY <1>3, <1>4, <1>5, <1>6, <1>7

(* The guard of QueryPath keeps the node's own trees out. *)
LEMMA CheckOfferShape ==
  ASSUME Shape, NEW c \in Conn, NEW o \in Offers, CheckOffer(c, o)
  PROVE  Shape'
<1>1. WellFormed(call[c]) /\ open \in [Tree -> Conn \cup {None}]
      /\ keys \subseteq Peer /\ known \subseteq Tree
  BY DEF Shape, TypeOK
<1>2. worker[c] = "none"
  BY DEF CheckOffer, Shape
<1>3. o.tree \in RelayTree
  <2>1. o.ip \in Peer /\ o.tree \in Tree
    BY PathsAssumption DEF Offer
  <2>2. ASSUME o.tree \in OwnTree PROVE FALSE
    <3>1. paths[o.tree] = OwnProfile
      BY <2>2 DEF CheckOffer, Shape
    <3>2. OwnProfile # None /\ OwnProfile.next2 = None
      BY PathsAssumption, ProfileKinds DEF OwnProfile
    <3> QED BY <2>1, <3>1, <3>2, PathsAssumption DEF CheckOffer
  <2> QED BY <2>1, <2>2 DEF Tree
<1>4. /\ WellFormed([call[c] EXCEPT !.stage = "verify", !.offer = o])
      /\ [call[c] EXCEPT !.stage = "verify", !.offer = o].stage = "verify"
  BY <1>1, <1>3 DEF CheckOffer, WellFormed, Call, Stages, Asking
<1> QED BY <1>1, <1>2, <1>4, CallChanges DEF CheckOffer, table

LEMMA OfferVerifiedShape ==
  ASSUME Shape, NEW c \in Conn, OfferVerified(c)
  PROVE  Shape'
<1> DEFINE o == call[c].offer
           h == [next |-> o.ip, next2 |-> o.next, conn |-> None]
           new == [call[c] EXCEPT !.stage = "offers", !.offer = None,
                                  !.verified = @ \cup {o.tree}]
<1>1. WellFormed(call[c]) /\ worker[c] = "none" /\ o \in Offers /\ o.tree \in RelayTree
  BY DEF OfferVerified, Shape, WellFormed
<1>2. h \in HalfOpenPath
  BY <1>1, PathsAssumption DEF Offer, HalfOpenPath, Beyond, Tree
<1>3. WellFormed(new) /\ new.stage = "offers"
  BY <1>1 DEF OfferVerified, WellFormed, Call, Stages, Asking, Tree
<1>4. TypeOK'
  BY <1>1, <1>2, <1>3, ProfileKinds DEF OfferVerified, Locally, Shape, TypeOK, WellFormed, Tree
<1>5. \A d \in Conn : /\ WellFormed(call'[d])
                      /\ worker'[d] # "none" <=> call'[d].stage \in {"setOpen", "done"}
  <2>1. call' = [call EXCEPT ![c] = new] /\ worker' = worker
    BY DEF OfferVerified, Locally
  <2> HIDE DEF new
  <2> QED BY <1>1, <1>3, <2>1 DEF Shape, TypeOK
<1>6. \A t \in Tree : halfOpen'[t] = IF t = o.tree THEN h ELSE halfOpen[t]
  BY <1>1 DEF OfferVerified, Shape, TypeOK, Tree
<1> HIDE DEF o, h
<1> QED
  BY <1>1, <1>2, <1>4, <1>5, <1>6, PathsAssumption
     DEF OfferVerified, Locally, Shape, Tree

LEMMA AnswerShape ==
  ASSUME Shape, NEW c \in Conn,
         \/ ConnectAccepted(c) \/ \E t \in RelayTree : ProxyAccepted(c, t)
         \/ Refused(c) \/ GetHalfOpen(c) \/ MoveUpVerifies(c)
  PROVE  Shape'
<1>1. WellFormed(call[c]) /\ open \in [Tree -> Conn \cup {None}]
      /\ keys \subseteq Peer /\ known \subseteq Tree
  BY DEF Shape, TypeOK
<1>2. call[c].stage \in {"request", "askProxy", "getHalfOpen", "moveUp"}
         => worker[c] = "none"
  BY DEF Shape
<1> USE DEF WellFormed, Call, Stages, Asking, Opening
<1>3. CASE ConnectAccepted(c)
  <2>1. WellFormed([call[c] EXCEPT !.stage = "getHalfOpen"])
    BY <1>1, <1>3 DEF ConnectAccepted
  <2> QED BY <1>3, <2>1, StageChanges DEF ConnectAccepted
<1>4. ASSUME NEW t \in RelayTree, ProxyAccepted(c, t) PROVE Shape'
  <2> DEFINE p == [next |-> call[c].ip, next2 |-> ImmutableStorage, conn |-> None]
             new == [call[c] EXCEPT !.stage = "setPath", !.tree = t, !.profile = p]
  <2>1. p \in HalfOpenPath
    BY <1>1, <1>4 DEF ProxyAccepted, HalfOpenPath, Beyond
  <2>2. WellFormed(new) /\ new.stage = "setPath"
    BY <1>1, <1>4, <2>1, ProfileKinds DEF ProxyAccepted, Tree
  <2>3. known' \subseteq Tree /\ \A o \in OwnTree : o \in known' <=> o \in known
    <3>1. known' = known \cup {t} /\ t \in Tree /\ t \notin OwnTree
      BY <1>4, PathsAssumption DEF ProxyAccepted, Tree
    <3> QED BY <1>1, <3>1
  <2> HIDE DEF new
  <2>4. Locally(c, new)
    BY <1>4 DEF ProxyAccepted, new
  <2> QED BY <1>1, <1>2, <1>4, <2>2, <2>3, <2>4, CallChanges DEF ProxyAccepted, table
<1>5. CASE Refused(c)
  BY <1>5, CallFails DEF Refused
<1>6. CASE GetHalfOpen(c)
  <2>1. CASE halfOpen[call[c].tree] = None
    BY <1>6, <2>1, CallFails DEF GetHalfOpen
  <2>2. CASE halfOpen[call[c].tree] # None
    <3> DEFINE p == halfOpen[call[c].tree]
               new == [call[c] EXCEPT !.stage = "delHalfOpen", !.profile = p]
    <3>1. call[c].tree \in RelayTree /\ p \in HalfOpenPath
      BY <1>1, <1>6, <2>2 DEF GetHalfOpen, Shape, Tree
    <3>2. WellFormed(new) /\ new.stage = "delHalfOpen"
      BY <1>1, <1>6, <3>1, ProfileKinds DEF GetHalfOpen
    <3> HIDE DEF new
    <3>3. Locally(c, new)
      BY <1>6, <2>2 DEF GetHalfOpen, new
    <3> QED BY <1>1, <1>2, <1>6, <3>2, <3>3, CallChanges DEF GetHalfOpen, table
  <2> QED BY <2>1, <2>2
<1>7. CASE MoveUpVerifies(c)
  <2>1. /\ WellFormed([call[c] EXCEPT !.stage = "lookup"])
        /\ WellFormed([call[c] EXCEPT !.stage = "becomeProxy"])
    BY <1>1, <1>7 DEF MoveUpVerifies
  <2> QED BY <1>7, <2>1, StageChanges, CallReturns DEF MoveUpVerifies
<1> QED BY <1>3, <1>4, <1>5, <1>6, <1>7

-----------------------------------------------------------------------------
(* The steps that write the tables. *)

LEMMA DelHalfOpenShape ==
  ASSUME Shape, NEW c \in Conn, DelHalfOpen(c)
  PROVE  Shape'
<1> DEFINE new == [call[c] EXCEPT !.stage = "setPath"]
<1>1. WellFormed(new) /\ worker[c] = "none" /\ new.stage = "setPath"
  BY DEF DelHalfOpen, Shape, WellFormed, Call, Stages, Opening
<1>2. TypeOK'
  BY <1>1 DEF DelHalfOpen, Goto, Locally, Shape, TypeOK, WellFormed
<1>3. \A d \in Conn : /\ WellFormed(call'[d])
                      /\ worker'[d] # "none" <=> call'[d].stage \in {"setOpen", "done"}
  <2>1. call' = [call EXCEPT ![c] = new] /\ worker' = worker
    BY DEF DelHalfOpen, Goto, Locally
  <2> HIDE DEF new
  <2> QED BY <1>1, <2>1 DEF Shape, TypeOK
<1>4. \A t \in Tree : halfOpen'[t] \in {halfOpen[t], None}
  BY DEF DelHalfOpen, Shape, TypeOK
<1> QED
  BY <1>2, <1>3, <1>4, PathsAssumption DEF DelHalfOpen, Goto, Locally, Shape, Tree

LEMMA SetPathShape ==
  ASSUME Shape, NEW c \in Conn, SetPath(c)
  PROVE  Shape'
<1> DEFINE t == call[c].tree
           p == [call[c].profile EXCEPT !.conn = c]
           new == [call[c] EXCEPT !.stage = "setOpen", !.profile = None]
<1>1. t \in RelayTree /\ p \in RelayPath
  BY ProfileKinds DEF SetPath, Shape, WellFormed
<1>2. WellFormed(new) /\ new.stage = "setOpen"
  BY DEF SetPath, Shape, WellFormed, Call, Stages, Opening
<1>3. call' = [call EXCEPT ![c] = new]
  BY DEF SetPath, Shape, TypeOK
<1>4. /\ paths' = [paths EXCEPT ![t] = p] /\ worker' = [worker EXCEPT ![c] = "send"]
      /\ UNCHANGED <<halfOpen, open, keys, canceled, broken, report, known, process>>
  BY DEF SetPath
<1> HIDE DEF new, t, p
<1>5. \A u \in Tree : paths'[u] = IF u = t THEN p ELSE paths[u]
  BY <1>4 DEF Shape, TypeOK
<1>6. \A d \in Conn : /\ WellFormed(call'[d])
                      /\ worker'[d] # "none" <=> call'[d].stage \in {"setOpen", "done"}
  <2>1. ASSUME NEW d \in Conn
        PROVE  /\ call'[d] = IF d = c THEN new ELSE call[d]
               /\ worker'[d] = IF d = c THEN "send" ELSE worker[d]
    BY <1>3, <1>4 DEF Shape, TypeOK
  <2> QED BY <1>2, <2>1 DEF Shape
<1>7. TypeOK'
  <2>1. paths' \in [Tree -> Profile \cup {None}]
    BY <1>1, <1>4, ProfileKinds DEF Shape, TypeOK
  <2>2. call' \in [Conn -> Call]
    BY <1>2, <1>3 DEF Shape, TypeOK, WellFormed
  <2>3. worker' \in [Conn -> Workers]
    BY <1>4 DEF Shape, TypeOK, Workers
  <2> QED BY <1>4, <2>1, <2>2, <2>3 DEF Shape, TypeOK
<1>8. t \notin OwnTree
  BY <1>1, PathsAssumption
<1> QED
  BY <1>1, <1>4, <1>5, <1>6, <1>7, <1>8 DEF Shape, Tree

LEMMA SetOpenShape ==
  ASSUME Shape, NEW c \in Conn, SetOpen(c)
  PROVE  Shape'
<1> DEFINE new == [Idle EXCEPT !.stage = "done", !.ip = call[c].ip, !.tree = call[c].tree]
<1>1. WellFormed(new) /\ new.stage = "done" /\ worker[c] # "none"
  BY DEF SetOpen, Shape, WellFormed, Call, Idle, Stages, Tree
<1>2. open' \in [Tree -> Conn \cup {None}] /\ keys' \subseteq Peer /\ known' \subseteq Tree
  BY DEF SetOpen, Shape, TypeOK
<1> HIDE DEF new
<1>3. Locally(c, new) /\ UNCHANGED <<paths, halfOpen, known>>
  BY DEF SetOpen, new
<1> QED BY <1>1, <1>2, <1>3, CallChanges

LEMMA OwnTreeShape ==
  ASSUME Shape, NEW t \in OwnTree,
         OpenOwnTree(t) \/ \E c \in Conn : MoveUpBecomesProxy(c, t)
  PROVE  Shape'
<1>1. /\ t \in Tree /\ known' = known \cup {t} /\ UNCHANGED <<halfOpen, report, worker>>
      /\ UNCHANGED <<open, keys, canceled, broken, process>>
      /\ paths' = [paths EXCEPT ![t] = OwnProfile]
  BY DEF OpenOwnTree, MoveUpBecomesProxy, Locally, Tree
<1>2. \A d \in Conn : /\ WellFormed(call'[d])
                      /\ worker'[d] # "none" <=> call'[d].stage \in {"setOpen", "done"}
  BY IdleIsWellFormed DEF OpenOwnTree, MoveUpBecomesProxy, Locally, Shape, TypeOK
<1>3. call' \in [Conn -> Call]
  BY IdleIsWellFormed DEF OpenOwnTree, MoveUpBecomesProxy, Locally, Shape, TypeOK, WellFormed
<1>4. TypeOK'
  BY <1>1, <1>3, ProfileKinds DEF Shape, TypeOK
<1>5. \A u \in Tree : paths'[u] = IF u = t THEN OwnProfile ELSE paths[u]
  BY <1>1 DEF Shape, TypeOK
<1> QED
  BY <1>1, <1>2, <1>4, <1>5, PathsAssumption DEF Shape, Tree

LEMMA WorkerShape ==
  ASSUME Shape, NEW c \in Conn, PeerCloses(c) \/ WorkerStep(c)
  PROVE  Shape'
<1> USE DEF WorkerStep, PeerCloses, WorkerStops, WorkerReads, WorkerDeletes, Workers
<1>1. TypeOK'
  <2>1. CASE PeerCloses(c)
    <3>1. broken' \in [Conn -> BOOLEAN]
      BY <2>1 DEF Shape, TypeOK
    <3> QED BY <2>1, <3>1 DEF Shape, TypeOK, table
  <2>3. CASE WorkerStops(c) \/ WorkerReads(c)
    BY <2>3 DEF Shape, TypeOK, table
  <2>2. CASE WorkerDeletes(c)
    BY <2>2 DEF Shape, TypeOK
  <2> QED BY <2>1, <2>2, <2>3
<1>2. /\ UNCHANGED <<halfOpen, call, report, known>>
      /\ \A d \in Conn : worker'[d] # "none" <=> worker[d] # "none"
  BY DEF Shape, TypeOK, table
<1>3. \A t \in RelayTree : paths'[t] \in {paths[t], None}
  BY DEF Shape, TypeOK, table, Tree
<1>4. worker[c] # "none" => call[c].tree \in RelayTree
  BY DEF Shape, WellFormed
<1>5. \A t \in OwnTree : paths'[t] = paths[t]
  <2>1. CASE PeerCloses(c) \/ WorkerStops(c) \/ WorkerReads(c)
    BY <2>1 DEF table
  <2>2. CASE WorkerDeletes(c)
    BY <1>4, <2>2, PathsAssumption DEF Shape, TypeOK, Tree
  <2> QED BY <2>1, <2>2
<1> QED
  BY <1>1, <1>2, <1>3, <1>5 DEF Shape

-----------------------------------------------------------------------------
(* The steps of the health worker. *)

LEMMA BlacklistShape ==
  ASSUME Shape, NEW t \in Tree, NEW c \in Conn, Blacklist(t, c)
  PROVE  Shape'
<1>1. t \in RelayTree /\ paths[t] \in RelayPath
  BY DEF Blacklist, Shape, OwnProfile, Tree
<1>2. canceled' \in [Conn -> BOOLEAN]
  BY <1>1 DEF Blacklist, Shape, TypeOK, RelayPath
<1>3. /\ call' \in [Conn -> Call]
      /\ \A d \in Conn : /\ WellFormed(call'[d])
                         /\ worker[d] # "none" <=> call'[d].stage \in {"setOpen", "done"}
  <2>1. CASE UNCHANGED call
    BY <2>1 DEF Shape, TypeOK
  <2>2. CASE paths[t].next2 # ImmutableStorage
    <3> DEFINE new == [Idle EXCEPT !.stage = "moveUp", !.kind = "moveUp",
                                   !.ip = paths[t].next2, !.tree = t]
    <3>1. WellFormed(new) /\ new.stage = "moveUp"
      BY <1>1, <2>2 DEF RelayPath, Beyond, WellFormed, Call, Idle, Stages, Kinds, Tree
    <3>2. call[c].stage = "idle"
      BY <2>2 DEF Blacklist, CanStart, Idle
    <3>3. call' = [call EXCEPT ![c] = new]
      BY <2>2 DEF Blacklist
    <3> HIDE DEF new
    <3> QED BY <3>1, <3>2, <3>3 DEF Shape, TypeOK, WellFormed
  <2> QED BY <2>1, <2>2 DEF Blacklist
<1>4. TypeOK'
  BY <1>2, <1>3 DEF Blacklist, Shape, TypeOK, table
<1> QED
  BY <1>3, <1>4 DEF Blacklist, Shape, table

LEMMA FindInvalidShape ==
  ASSUME Shape, FindInvalid
  PROVE  Shape'
<1>1. \A t \in RelayTree : Findings(t) \subseteq RelayReport \cup {None}
  <2> SUFFICES ASSUME NEW t \in RelayTree, NEW f \in Findings(t), f # None
               PROVE  f \in RelayReport
    OBVIOUS
  <2>1. paths[t] \in RelayPath /\ paths[t] # None
    BY DEF Shape, Findings
  <2>2. \A o \in Offers : o.tree = t => [paths[t] EXCEPT !.next2 = o.next] \in RelayPath
    BY <2>1, PathsAssumption DEF RelayPath, Beyond, Offer
  <2> QED BY <2>1, <2>2 DEF Findings, RelayReport
<1>2. \A t \in OwnTree : Findings(t) = {None}
  BY DEF Shape, Findings, OwnProfile
<1>3. \A t \in Tree : report'[t] \in Findings(t) /\ report' \in [Tree -> UNION {Findings(u) : u \in Tree}]
  BY DEF FindInvalid
<1>4. report' \in [Tree -> Report \cup {None}]
  BY <1>1, <1>2, <1>3, ProfileKinds DEF Tree, FindInvalid
<1>5. TypeOK'
  BY <1>4 DEF FindInvalid, Shape, TypeOK, table
<1> QED
  BY <1>1, <1>2, <1>3, <1>5 DEF FindInvalid, Shape, table, Tree

LEMMA HealthShape ==
  ASSUME Shape, NEW t \in Tree, HealthStep(t)
  PROVE  Shape'
<1>1. t \in RelayTree /\ report[t] \in RelayReport
  BY DEF HealthStep, CleanPath, FixPath, Shape, Tree
<1> DEFINE p == report[t].profile
<1>2. p \in RelayPath /\ p.conn \in Conn
  BY <1>1 DEF RelayReport, RelayPath
<1>3. TypeOK'
  BY <1>1, <1>2, ProfileKinds DEF HealthStep, CleanPath, FixPath, Shape, TypeOK, table, Tree
<1>4. /\ UNCHANGED <<halfOpen, call, worker, known>>
      /\ \A u \in Tree : report'[u] = IF u = t THEN None ELSE report[u]
      /\ \A u \in Tree : paths'[u] \in {paths[u], IF u = t THEN p ELSE paths[u]}
  BY <1>1 DEF HealthStep, CleanPath, FixPath, Shape, TypeOK, table
<1> HIDE DEF p
<1> QED
  BY <1>1, <1>2, <1>3, <1>4, PathsAssumption DEF Shape, Tree

-----------------------------------------------------------------------------
LEMMA NextShape == Shape /\ [Next]_vars => Shape'
<1> SUFFICES ASSUME Shape, [Next]_vars PROVE Shape'
  OBVIOUS
<1>1. ASSUME NEW c \in Conn, NEW ip \in Peer,
             StartGetMorePaths(c, ip) \/ \E t \in Tree : StartPost(c, ip, t)
      PROVE  Shape'
  BY <1>1, StartShape
<1>2. ASSUME NEW c \in Conn, CallStep(c) PROVE Shape'
  <2>1. ASSUME NEW t \in OwnTree, MoveUpBecomesProxy(c, t) PROVE Shape'
    BY <2>1, OwnTreeShape
  <2> QED
    BY <1>2, <2>1, AskingShape, CheckOfferShape, OfferVerifiedShape, AnswerShape,
       DelHalfOpenShape, SetPathShape, SetOpenShape DEF CallStep
<1>3. ASSUME NEW c \in Conn, PeerCloses(c) \/ WorkerStep(c) PROVE Shape'
  BY <1>3, WorkerShape
<1>4. ASSUME NEW t \in Tree,
             \/ HealthStep(t) \/ BlacklistOwn(t) \/ \E c \in Conn : Blacklist(t, c)
      PROVE  Shape'
  BY <1>4, HealthShape, BlacklistShape, DownShape DEF BlacklistOwn
<1>5. ASSUME NEW t \in OwnTree, OpenOwnTree(t) PROVE Shape'
  BY <1>5, OwnTreeShape
<1>6. CASE FindInvalid
  BY <1>6, FindInvalidShape
<1>7. CASE Stop
  BY <1>7, DownShape DEF Stop
<1>8. CASE Restart
  BY <1>8 DEF Restart, Shape, TypeOK, table
<1>9. CASE UNCHANGED vars
  BY <1>9 DEF vars, table, Shape, TypeOK
<1> QED
  BY <1>1, <1>2, <1>3, <1>4, <1>5, <1>6, <1>7, <1>8, <1>9 DEF Next

LEMMA AlwaysShape == Spec => []Shape
  BY InitShape, NextShape, PTL DEF Spec

(* Every reachable state has the shape TypeOK gives it. *)
THEOREM PathsTypeCorrect == Spec => []TypeOK
<1>1. Shape => TypeOK
  BY DEF Shape
<1> QED
  BY <1>1, AlwaysShape, PTL

LEMMA OwnTreesStep ==
  ASSUME Shape, Next, NEW t \in Tree, paths[t] = OwnProfile, process' = "running"
  PROVE  paths'[t] = OwnProfile
<1>1. t \in OwnTree /\ t \in known
  BY ProfileKinds, PathsAssumption DEF Shape, Tree, OwnProfile
<1>2. Shape'
  BY NextShape
<1>3. t \in known'
  <2>1. \A how \in {"stopped", "panicInQueryPath", "nilCancelFunc"} : ~Down(how)
    BY DEF Down
  <2>2. ASSUME NEW c \in Conn PROVE CallStep(c) => known \subseteq known'
    BY <2>1 DEF CallStep, Lookup, QueryAnswered, QueryUnanswered, CheckOffer, OfferVerified,
       OfferNotVerified, ChoosePath, ConnectAccepted, ProxyAccepted, Refused, GetHalfOpen,
       DelHalfOpen, SetPath, SetOpen, MoveUpVerifies, MoveUpBecomesProxy
  <2>3. ASSUME NEW c \in Conn
        PROVE  /\ PeerCloses(c) \/ WorkerStep(c) => known' = known
               /\ \A ip \in Peer : /\ StartGetMorePaths(c, ip) => known' = known
                                   /\ \A u \in Tree : StartPost(c, ip, u) => known' = known
               /\ \A u \in Tree : Blacklist(u, c) => known' = known
    BY DEF PeerCloses, WorkerStep, WorkerStops, WorkerReads, WorkerDeletes,
           StartGetMorePaths, StartPost, Blacklist
  <2>4. \A u \in Tree : /\ HealthStep(u) => known' = known
                        /\ ~BlacklistOwn(u)
    BY <2>1 DEF HealthStep, CleanPath, FixPath, BlacklistOwn
  <2>5. \A o \in OwnTree : OpenOwnTree(o) => known \subseteq known'
    BY DEF OpenOwnTree
  <2>6. /\ FindInvalid => known' = known
        /\ ~Stop
        /\ Restart => known' = known
    BY <2>1 DEF FindInvalid, Stop, Restart
  <2> QED BY <1>1, <2>2, <2>3, <2>4, <2>5, <2>6 DEF Next
<1> QED
  BY <1>1, <1>2, <1>3 DEF Shape

(* The trees the node is the proxy of are never lost nor given to another   *)
(* next hop: QueryPath, the workers' cleanup, the health worker's FIX and   *)
(* ConnectPath all leave them alone, whatever the peers offer.             *)
THEOREM OwnTreesAreKept == Spec => OwnTreesStay
<1>1. Shape /\ [Next]_vars =>
        [\A t \in Tree :
           paths[t] = OwnProfile => paths'[t] = OwnProfile \/ process' # "running"]_vars
  BY OwnTreesStep
<1> QED
  BY <1>1, AlwaysShape, PTL DEF Spec, OwnTreesStay

-----------------------------------------------------------------------------
(* ConnServesTree: what names a connection names one that a worker serves,  *)
(* for the tree it was opened for.                                         *)
Serves(c, t) == call[c].tree = t /\ worker[c] # "none"

Served ==
    /\ \A t \in Tree : paths[t] # None /\ paths[t].conn # None => Serves(paths[t].conn, t)
    /\ \A t \in Tree : report[t] # None => Serves(report[t].profile.conn, t)
    /\ \A t \in Tree, c \in Conn :
          open[t] = c => call[c].tree = t /\ worker[c] # "none"

(* Steps after which the process still runs. *)
StillRuns == \A how \in {"stopped", "panicInQueryPath", "nilCancelFunc"} : ~Down(how)

(* Once a worker serves a connection, only the end of the process changes   *)
(* that.                                                                   *)
LEMMA ServiceStays ==
  ASSUME Shape, Next, StillRuns, NEW c \in Conn, worker[c] # "none"
  PROVE  call'[c].tree = call[c].tree /\ call'[c].ip = call[c].ip /\ worker'[c] # "none"
<1>1. WellFormed(call[c]) /\ call \in [Conn -> Call] /\ worker \in [Conn -> Workers]
  BY DEF Shape, TypeOK
<1>2. ASSUME NEW d \in Conn, call[d].stage \notin {"setOpen", "done"},
             \E k : call' = [call EXCEPT ![d] = k],
             worker' = worker \/ worker' = [worker EXCEPT ![d] = "send"]
      PROVE  call'[c] = call[c] /\ worker'[c] = worker[c]
  BY <1>1, <1>2 DEF Shape
<1>3. ASSUME NEW d \in Conn, CallStep(d)
      PROVE  call'[c].tree = call[c].tree /\ call'[c].ip = call[c].ip /\ worker'[c] # "none"
  <2>1. CASE Lookup(d) \/ QueryAnswered(d) \/ QueryUnanswered(d) \/ OfferNotVerified(d)
             \/ OfferVerified(d) \/ ChoosePath(d) \/ \E o \in Offers : CheckOffer(d, o)
    BY <1>2, <2>1 DEF StillRuns, Lookup, QueryAnswered, QueryUnanswered, OfferNotVerified,
       OfferVerified, ChoosePath, CheckOffer, Goto, Locally
  <2>2. CASE ConnectAccepted(d) \/ Refused(d) \/ GetHalfOpen(d) \/ DelHalfOpen(d)
             \/ MoveUpVerifies(d) \/ (\E t \in RelayTree : ProxyAccepted(d, t))
             \/ \E t \in OwnTree : MoveUpBecomesProxy(d, t)
    BY <1>2, <2>2 DEF ConnectAccepted, Refused, GetHalfOpen, DelHalfOpen, MoveUpVerifies,
       ProxyAccepted, MoveUpBecomesProxy, Fails, Goto, Locally
  <2>3. CASE SetPath(d)
    <3>1. \E k : call' = [call EXCEPT ![d] = k]
      BY <2>3, <1>1 DEF SetPath
    <3> QED BY <1>2, <2>3, <3>1 DEF SetPath
  <2>4. CASE SetOpen(d)
    <3> DEFINE new == [Idle EXCEPT !.stage = "done", !.ip = call[d].ip, !.tree = call[d].tree]
    <3>1. new.tree = call[d].tree /\ new.ip = call[d].ip
      BY DEF Idle
    <3>2. call' = [call EXCEPT ![d] = new] /\ worker' = worker
      BY <2>4 DEF SetOpen, Locally
    <3> HIDE DEF new
    <3> QED BY <1>1, <3>1, <3>2
  <2> QED BY <1>3, <2>1, <2>2, <2>3, <2>4 DEF CallStep
<1>4. ASSUME NEW d \in Conn,
             \/ \E ip \in Peer : \/ StartGetMorePaths(d, ip)
                                 \/ \E t \in Tree : StartPost(d, ip, t)
             \/ \E t \in Tree : Blacklist(t, d)
      PROVE  call'[c] = call[c] /\ worker'[c] = worker[c]
  <2>1. CASE UNCHANGED <<call, worker>>
    BY <2>1
  <2>2. CASE CanStart(d) /\ worker' = worker /\ \E k : call' = [call EXCEPT ![d] = k]
    <3>1. call[d].stage = "idle"
      BY <2>2 DEF CanStart, Idle
    <3> QED BY <1>2, <2>2, <3>1
  <2> QED BY <1>4, <2>1, <2>2 DEF StartGetMorePaths, StartPost, Blacklist, Locally
<1>5. ASSUME NEW d \in Conn, PeerCloses(d) \/ WorkerStep(d)
      PROVE  call'[c] = call[c] /\ worker'[c] # "none"
  BY <1>1, <1>5 DEF PeerCloses, WorkerStep, WorkerStops, WorkerReads, WorkerDeletes, Workers
<1>6. ASSUME NEW t \in Tree, HealthStep(t) \/ BlacklistOwn(t)
      PROVE  UNCHANGED <<call, worker>>
  BY <1>6 DEF StillRuns, HealthStep, CleanPath, FixPath, BlacklistOwn
<1>7. ASSUME (\E t \in OwnTree : OpenOwnTree(t)) \/ FindInvalid \/ Stop \/ Restart
      PROVE  UNCHANGED <<call, worker>>
  BY <1>7 DEF StillRuns, OpenOwnTree, FindInvalid, Stop, Restart
<1> QED
  BY <1>3, <1>4, <1>5, <1>6, <1>7 DEF Next

LEMMA SetPathServes ==
  ASSUME Shape, NEW c \in Conn, SetPath(c), NEW t \in Tree, t = call[c].tree
  PROVE  /\ Serves(c, t)'
         /\ worker'[c] = "send" /\ call'[c].stage = "setOpen"
<1>1. WellFormed(call[c]) /\ call \in [Conn -> Call] /\ worker \in [Conn -> Workers]
  BY DEF Shape, TypeOK
<1> DEFINE new == [call[c] EXCEPT !.stage = "setOpen", !.profile = None]
<1>2. new.tree = call[c].tree /\ new.stage = "setOpen"
  BY <1>1 DEF WellFormed, Call
<1>3. call' = [call EXCEPT ![c] = new]
  BY <1>1 DEF SetPath
<1> HIDE DEF new
<1> QED BY <1>1, <1>2, <1>3 DEF SetPath, Serves

LEMMA InitServed == Init => Served
  BY PathsAssumption DEF Init, Boot, Served

(* Where the connections in the tables come from. *)
LEMMA TablesStep ==
  ASSUME Shape, Next, StillRuns, NEW t \in Tree
  PROVE  /\ \/ paths'[t] \in {None, paths[t], OwnProfile}
            \/ \E c \in Conn : SetPath(c) /\ t = call[c].tree /\ paths'[t].conn = c
            \/ report[t] # None /\ paths'[t] = report[t].profile
         /\ \/ report'[t] \in {None, report[t]}
            \/ paths[t] \in RelayPath /\ report'[t].profile.conn = paths[t].conn
         /\ \/ open'[t] = open[t]
            \/ \E c \in Conn : SetOpen(c) /\ t = call[c].tree /\ open'[t] = c
<1>1. /\ paths \in [Tree -> Profile \cup {None}] /\ report \in [Tree -> Report \cup {None}]
      /\ open \in [Tree -> Conn \cup {None}]
  BY DEF Shape, TypeOK
<1>2. ASSUME NEW c \in Conn, CallStep(c), ~SetPath(c), ~SetOpen(c)
      PROVE  UNCHANGED <<report, open>> /\ paths'[t] \in {paths[t], OwnProfile}
  <2>1. CASE \E o \in OwnTree : MoveUpBecomesProxy(c, o)
    BY <1>1, <2>1 DEF MoveUpBecomesProxy, Locally
  <2>2. CASE ~\E o \in OwnTree : MoveUpBecomesProxy(c, o)
    BY <1>2, <2>2 DEF StillRuns, CallStep, Lookup, QueryAnswered, QueryUnanswered, CheckOffer,
       OfferVerified, OfferNotVerified, ChoosePath, ConnectAccepted, ProxyAccepted, Refused,
       GetHalfOpen, DelHalfOpen, MoveUpVerifies, Fails, Goto, Locally, table
  <2> QED BY <2>1, <2>2
<1>3. ASSUME NEW c \in Conn, SetPath(c)
      PROVE  /\ UNCHANGED <<report, open>>
             /\ \/ paths'[t] = paths[t]
                \/ t = call[c].tree /\ paths'[t].conn = c
  <2>1. call[c].profile \in HalfOpenPath
    BY <1>3 DEF SetPath, Shape, WellFormed
  <2>2. [call[c].profile EXCEPT !.conn = c].conn = c
    BY <2>1 DEF HalfOpenPath
  <2> QED BY <1>1, <1>3, <2>2 DEF SetPath
<1>4. ASSUME NEW c \in Conn, SetOpen(c)
      PROVE  /\ UNCHANGED <<paths, report>>
             /\ \/ open'[t] = open[t]
                \/ t = call[c].tree /\ open'[t] = c
  BY <1>1, <1>4 DEF SetOpen, Locally
<1>5. ASSUME NEW c \in Conn,
             \/ \E ip \in Peer : \/ StartGetMorePaths(c, ip)
                                 \/ \E u \in Tree : StartPost(c, ip, u)
             \/ \E u \in Tree : Blacklist(u, c)
             \/ PeerCloses(c) \/ WorkerStep(c)
      PROVE  UNCHANGED <<report, open>> /\ paths'[t] \in {paths[t], None}
  BY <1>1, <1>5 DEF StartGetMorePaths, StartPost, Blacklist, Locally, PeerCloses, WorkerStep,
                    WorkerStops, WorkerReads, WorkerDeletes, table
<1>6. ASSUME NEW u \in Tree, HealthStep(u)
      PROVE  /\ UNCHANGED open
             /\ report'[t] \in {None, report[t]}
             /\ \/ paths'[t] = paths[t]
                \/ report[t] # None /\ paths'[t] = report[t].profile
  BY <1>1, <1>6 DEF HealthStep, CleanPath, FixPath, table
<1>7. CASE FindInvalid
  <2>1. UNCHANGED <<paths, open>> /\ report'[t] \in Findings(t)
    BY <1>7 DEF FindInvalid, table
  <2>2. ASSUME NEW f \in Findings(t), f # None
        PROVE  paths[t] \in RelayPath /\ f.profile.conn = paths[t].conn
    <3>1. paths[t] \in RelayPath
      BY <2>2 DEF Findings, Shape, OwnProfile, Tree
    <3>2. \A o : [paths[t] EXCEPT !.next2 = o].conn = paths[t].conn
      BY <3>1 DEF RelayPath
    <3>3. \/ f = [how |-> "clean", profile |-> paths[t]]
          \/ \E o \in Offers : f = [how |-> "fix",
                                   profile |-> [paths[t] EXCEPT !.next2 = o.next]]
      BY <2>2 DEF Findings
    <3>4. CASE f = [how |-> "clean", profile |-> paths[t]]
      BY <3>1, <3>4
    <3>5. ASSUME NEW o \in Offers,
                 f = [how |-> "fix", profile |-> [paths[t] EXCEPT !.next2 = o.next]]
          PROVE  f.profile.conn = paths[t].conn
      <4> DEFINE p == [paths[t] EXCEPT !.next2 = o.next]
      <4>1. p.conn = paths[t].conn
        BY <3>2
      <4> HIDE DEF p
      <4>2. f = [how |-> "fix", profile |-> p]
        BY <3>5 DEF p
      <4> QED BY <4>1, <4>2
    <3> QED BY <3>1, <3>3, <3>4, <3>5
  <2> QED BY <2>1, <2>2
<1>8. ASSUME NEW o \in OwnTree, OpenOwnTree(o)
      PROVE  UNCHANGED <<report, open>> /\ paths'[t] \in {paths[t], OwnProfile}
  BY <1>1, <1>8 DEF OpenOwnTree
<1>9. ASSUME Stop \/ Restart \/ \E u \in Tree : BlacklistOwn(u)
      PROVE  UNCHANGED <<paths, report, open>>
  BY <1>9 DEF StillRuns, Stop, Restart, BlacklistOwn, table
<1> QED
  BY <1>2, <1>3, <1>4, <1>5, <1>6, <1>7, <1>8, <1>9 DEF Next

LEMMA NextServed == Shape /\ Served /\ [Next]_vars => Served'
<1>1. ASSUME Shape, Served, Next, StillRuns PROVE Served'
  <2> USE <1>1
  <2>1. ASSUME NEW c \in Conn, NEW t \in Tree, Serves(c, t) PROVE Serves(c, t)'
    BY <2>1, ServiceStays DEF Serves
  <2>2. ASSUME NEW c \in Conn, SetPath(c), NEW t \in Tree, t = call[c].tree
        PROVE  Serves(c, t)'
    BY <2>2, SetPathServes
  <2>3. ASSUME NEW c \in Conn, SetOpen(c), NEW t \in Tree, t = call[c].tree
        PROVE  Serves(c, t)'
    <3>1. Serves(c, t)
      BY <2>3 DEF SetOpen, Shape, Serves
    <3> QED BY <2>1, <3>1
  <2>4. ASSUME NEW t \in Tree, paths'[t] # None, paths'[t].conn # None
        PROVE  Serves(paths[t].conn, t)'
    <3>1. CASE paths'[t] = paths[t]
      <4>1. paths[t].conn \in Conn
        BY <2>4, <3>1 DEF Shape, TypeOK, Profile
      <4> QED BY <2>1, <2>4, <3>1, <4>1 DEF Served, Serves
    <3>2. CASE paths'[t] = OwnProfile
      BY <2>4, <3>2 DEF OwnProfile
    <3>3. CASE \E c \in Conn : SetPath(c) /\ t = call[c].tree /\ paths'[t].conn = c
      BY <2>2, <3>3 DEF Serves
    <3>4. CASE report[t] # None /\ paths'[t] = report[t].profile
      <4>1. report[t].profile.conn \in Conn
        BY <3>4 DEF Shape, RelayReport, RelayPath, Tree
      <4> QED BY <2>1, <3>4, <4>1 DEF Served, Serves
    <3> QED BY <2>4, <3>1, <3>2, <3>3, <3>4, TablesStep
  <2>5. ASSUME NEW t \in Tree, report'[t] # None
        PROVE  Serves(report[t].profile.conn, t)'
    <3>1. CASE report'[t] = report[t]
      <4>1. report[t].profile.conn \in Conn
        BY <2>5, <3>1 DEF Shape, RelayReport, RelayPath, Tree
      <4> QED BY <2>1, <2>5, <3>1, <4>1 DEF Served, Serves
    <3>2. CASE paths[t] \in RelayPath /\ report'[t].profile.conn = paths[t].conn
      <4>1. paths[t] # None /\ paths[t].conn \in Conn /\ paths[t].conn # None
        BY <3>2, PathsAssumption, ProfileKinds DEF RelayPath
      <4> QED BY <2>1, <3>2, <4>1 DEF Served, Serves
    <3> QED BY <2>5, <3>1, <3>2, TablesStep
  <2>6. ASSUME NEW t \in Tree, NEW c \in Conn, open'[t] = c
        PROVE  Serves(c, t)'
    <3>1. CASE open[t] = c
      BY <2>1, <3>1 DEF Served, Serves
    <3>2. CASE SetOpen(c) /\ t = call[c].tree
      BY <2>3, <3>2 DEF Serves
    <3> QED BY <2>6, <3>1, <3>2, TablesStep
  <2> QED BY <2>4, <2>5, <2>6 DEF Served, Serves
<1>2. ASSUME ~StillRuns PROVE Served'
  BY <1>2, PathsAssumption DEF StillRuns, Down, Served
<1>3. ASSUME Served, UNCHANGED vars PROVE Served'
  BY <1>3 DEF vars, table, Served, Serves
<1> QED
  BY <1>1, <1>2, <1>3

(* The connection and key of a path, and the open connection of a tree, are  *)
(* those of a call that was accepted for that very tree: no stale half-open *)
(* path, late FIX or concurrent call mixes the keys of two trees.           *)
THEOREM ConnectionsServeTheirTree == Spec => []ConnServesTree
<1>1. Shape /\ Served => ConnServesTree
  <2> SUFFICES ASSUME Shape, Served, NEW t \in Tree, open[t] # None
               PROVE  call[open[t]].tree = t /\ worker[open[t]] # "none"
    BY DEF Served, Serves, ConnServesTree
  <2>1. open[t] \in Conn
    BY DEF Shape, TypeOK
  <2> QED BY <2>1 DEF Served
<1> QED
  BY <1>1, AlwaysShape, InitServed, NextServed, PTL DEF Spec

-----------------------------------------------------------------------------
(* LoneConnectionKept and OnlyFixStrands: who writes what a worker is       *)
(* responsible for.                                                        *)

(* How the worker of a connection and its call go on. *)
LEMMA WorkerStates ==
  ASSUME Shape, Next, StillRuns, NEW c \in Conn
  PROVE  /\ worker'[c] = "send" => worker[c] = "send" \/ SetPath(c)
         /\ worker'[c] = "closed" =>
               worker[c] = "closed" \/ WorkerReads(c) \/ WorkerDeletes(c)
         /\ canceled[c] => canceled'[c]
         /\ worker[c] # "none" /\ call'[c].stage = "done" =>
               call[c].stage = "done" \/ SetOpen(c)
<1>1. /\ WellFormed(call[c]) /\ call \in [Conn -> Call] /\ worker \in [Conn -> Workers]
      /\ canceled \in [Conn -> BOOLEAN]
      /\ worker[c] # "none" => call[c].stage \in {"setOpen", "done"}
  BY DEF Shape, TypeOK
<1>2. ASSUME NEW d \in Conn, UNCHANGED <<worker, canceled>>,
             call' = call \/ (/\ call[d].stage \notin {"setOpen", "done"}
                              /\ \E k : call' = [call EXCEPT ![d] = k])
      PROVE  /\ worker'[c] = worker[c] /\ canceled'[c] = canceled[c]
             /\ worker[c] # "none" => call'[c] = call[c]
  BY <1>1, <1>2
<1>3. ASSUME NEW d \in Conn, CallStep(d), ~SetPath(d), ~SetOpen(d)
      PROVE  /\ worker'[c] = worker[c] /\ canceled'[c] = canceled[c]
             /\ worker[c] # "none" => call'[c] = call[c]
  <2>1. CASE Lookup(d) \/ QueryAnswered(d) \/ QueryUnanswered(d) \/ OfferNotVerified(d)
             \/ OfferVerified(d) \/ ChoosePath(d) \/ \E o \in Offers : CheckOffer(d, o)
    BY <1>2, <2>1 DEF StillRuns, Lookup, QueryAnswered, QueryUnanswered, OfferNotVerified,
       OfferVerified, ChoosePath, CheckOffer, Goto, Locally
  <2>2. CASE ConnectAccepted(d) \/ Refused(d) \/ GetHalfOpen(d) \/ DelHalfOpen(d)
             \/ MoveUpVerifies(d) \/ (\E t \in RelayTree : ProxyAccepted(d, t))
             \/ \E t \in OwnTree : MoveUpBecomesProxy(d, t)
    BY <1>2, <2>2 DEF ConnectAccepted, Refused, GetHalfOpen, DelHalfOpen, MoveUpVerifies,
       ProxyAccepted, MoveUpBecomesProxy, Fails, Goto, Locally
  <2> QED BY <1>3, <2>1, <2>2 DEF CallStep
<1>4. ASSUME NEW d \in Conn, SetPath(d)
      PROVE  /\ d # c => worker'[c] = worker[c] /\ call'[c] = call[c]
             /\ canceled'[c] = canceled[c]
             /\ d = c => worker[c] = "none" /\ worker'[c] = "send"
  BY <1>1, <1>4 DEF SetPath
<1>5. ASSUME NEW d \in Conn, SetOpen(d)
      PROVE  /\ d # c => call'[c] = call[c]
             /\ worker'[c] = worker[c] /\ canceled'[c] = canceled[c]
  BY <1>1, <1>5 DEF SetOpen, Locally
<1>6. ASSUME NEW d \in Conn,
             \/ \E ip \in Peer : \/ StartGetMorePaths(d, ip)
                                 \/ \E t \in Tree : StartPost(d, ip, t)
             \/ \E t \in Tree : Blacklist(t, d)
      PROVE  /\ worker'[c] = worker[c] /\ (canceled[c] => canceled'[c])
             /\ worker[c] # "none" => call'[c] = call[c]
  <2>1. call' = call \/ (CanStart(d) /\ \E k : call' = [call EXCEPT ![d] = k])
    BY <1>6 DEF StartGetMorePaths, StartPost, Blacklist, Locally
  <2>2. worker' = worker /\ (canceled[c] => canceled'[c])
    BY <1>1, <1>6 DEF StartGetMorePaths, StartPost, Blacklist, Locally
  <2>3. CanStart(d) => call[d].stage = "idle"
    BY DEF CanStart, Idle
  <2> QED BY <1>1, <2>1, <2>2, <2>3
<1>7. ASSUME NEW d \in Conn, PeerCloses(d) \/ WorkerStep(d)
      PROVE  /\ call' = call /\ canceled' = canceled
             /\ worker'[c] = "send" => worker[c] = "send"
             /\ worker'[c] = "closed" =>
                   worker[c] = "closed" \/ WorkerReads(c) \/ WorkerDeletes(c)
  BY <1>1, <1>7 DEF PeerCloses, WorkerStep, WorkerStops, WorkerReads, WorkerDeletes, Workers
<1>8. ASSUME NEW t \in Tree, HealthStep(t) \/ BlacklistOwn(t)
      PROVE  UNCHANGED <<call, worker>> /\ (canceled[c] => canceled'[c])
  BY <1>1, <1>8 DEF StillRuns, HealthStep, CleanPath, FixPath, BlacklistOwn
<1>9. ASSUME (\E t \in OwnTree : OpenOwnTree(t)) \/ FindInvalid \/ Stop \/ Restart
      PROVE  UNCHANGED <<call, worker, canceled>>
  BY <1>9 DEF StillRuns, OpenOwnTree, FindInvalid, Stop, Restart
<1> DEFINE
  Goes == /\ worker'[c] = "send" => worker[c] = "send" \/ SetPath(c)
          /\ worker'[c] = "closed" =>
                worker[c] = "closed" \/ WorkerReads(c) \/ WorkerDeletes(c)
          /\ canceled[c] => canceled'[c]
          /\ worker[c] # "none" /\ call'[c].stage = "done" =>
                call[c].stage = "done" \/ SetOpen(c)
<1>10. ASSUME NEW d \in Conn, CallStep(d) PROVE Goes
  <2>1. CASE SetPath(d)
    <3>1. CASE d = c
      BY <1>4, <2>1, <3>1
    <3>2. CASE d # c
      BY <1>4, <2>1, <3>2
    <3> QED BY <3>1, <3>2
  <2>2. CASE SetOpen(d)
    <3>1. CASE d = c
      BY <1>5, <2>2, <3>1
    <3>2. CASE d # c
      BY <1>5, <2>2, <3>2
    <3> QED BY <3>1, <3>2
  <2>3. CASE ~SetPath(d) /\ ~SetOpen(d)
    BY <1>3, <1>10, <2>3
  <2> QED BY <2>1, <2>2, <2>3
<1>11. ASSUME NEW d \in Conn,
              \/ \E ip \in Peer : \/ StartGetMorePaths(d, ip)
                                  \/ \E t \in Tree : StartPost(d, ip, t)
              \/ \E t \in Tree : Blacklist(t, d)
       PROVE  Goes
  BY <1>6, <1>11
<1>12. ASSUME NEW d \in Conn, PeerCloses(d) \/ WorkerStep(d) PROVE Goes
  BY <1>7, <1>12
<1>13. ASSUME NEW t \in Tree, HealthStep(t) \/ BlacklistOwn(t) PROVE Goes
  BY <1>8, <1>13
<1>14. ASSUME (\E t \in OwnTree : OpenOwnTree(t)) \/ FindInvalid \/ Stop \/ Restart
       PROVE  Goes
  BY <1>9, <1>14
<1> HIDE DEF Goes
<1>15. Goes
  BY <1>10, <1>11, <1>12, <1>13, <1>14 DEF Next
<1> QED
  BY <1>15 DEF Goes

(* Only a worker of the tree takes a relay path away. *)
LEMMA WhoDeletes ==
  ASSUME Shape, Next, StillRuns, NEW t \in RelayTree, paths[t] # None, paths'[t] = None
  PROVE  \E d \in Conn : WorkerDeletes(d) /\ call[d].tree = t
<1>1. paths \in [Tree -> Profile \cup {None}] /\ t \in Tree
  BY DEF Shape, TypeOK, Tree
<1>2. ASSUME NEW c \in Conn, CallStep(c) PROVE FALSE
  <2>1. CASE SetPath(c)
    <3>1. call[c].profile \in HalfOpenPath
      BY <2>1 DEF SetPath, Shape, WellFormed
    <3>2. [call[c].profile EXCEPT !.conn = c] \in RelayPath
      BY <3>1, ProfileKinds
    <3> QED BY <1>1, <2>1, <3>2, PathsAssumption, ProfileKinds DEF SetPath
  <2>2. CASE \E o \in OwnTree : MoveUpBecomesProxy(c, o)
    BY <1>1, <2>2, PathsAssumption DEF MoveUpBecomesProxy
  <2>3. CASE ~SetPath(c) /\ ~\E o \in OwnTree : MoveUpBecomesProxy(c, o)
    <3>1. paths' = paths
      BY <1>2, <2>3 DEF StillRuns, CallStep, Lookup, QueryAnswered, QueryUnanswered, CheckOffer,
         OfferVerified, OfferNotVerified, ChoosePath, ConnectAccepted, ProxyAccepted, Refused,
         GetHalfOpen, DelHalfOpen, SetOpen, MoveUpVerifies, Fails, Goto, Locally, table
    <3> QED BY <3>1
  <2> QED BY <2>1, <2>2, <2>3
<1>3. ASSUME NEW c \in Conn,
             \/ \E ip \in Peer : \/ StartGetMorePaths(c, ip)
                                 \/ \E u \in Tree : StartPost(c, ip, u)
             \/ \E u \in Tree : Blacklist(u, c)
             \/ PeerCloses(c)
      PROVE  paths' = paths
  BY <1>3 DEF StartGetMorePaths, StartPost, Blacklist, PeerCloses, table
<1>4. ASSUME NEW c \in Conn, WorkerStep(c) PROVE WorkerDeletes(c) /\ call[c].tree = t
  BY <1>1, <1>4 DEF WorkerStep, WorkerStops, WorkerReads, WorkerDeletes, table
<1>5. ASSUME NEW u \in Tree, HealthStep(u) PROVE FALSE
  <2>1. CASE CleanPath(u)
    BY <2>1 DEF CleanPath, table
  <2>2. CASE FixPath(u)
    <3>1. u = t /\ report[t] # None /\ paths'[t] = report[t].profile
      BY <1>1, <2>2 DEF FixPath
    <3> QED
      BY <3>1, PathsAssumption, ProfileKinds DEF Shape, RelayReport
  <2> QED BY <1>5, <2>1, <2>2 DEF HealthStep
<1>6. \A u \in Tree : ~BlacklistOwn(u)
  BY DEF StillRuns, BlacklistOwn
<1>7. ASSUME NEW o \in OwnTree, OpenOwnTree(o) PROVE FALSE
  BY <1>1, <1>7, PathsAssumption DEF OpenOwnTree
<1>8. ASSUME FindInvalid \/ Stop \/ Restart PROVE paths' = paths
  BY <1>8 DEF StillRuns, FindInvalid, Stop, Restart, table
<1> QED
  BY <1>2, <1>3, <1>4, <1>5, <1>6, <1>7, <1>8 DEF Next

LEMMA NextKeeps ==
  Shape /\ Served /\ LoneConnectionKept /\ [Next]_vars => LoneConnectionKept'
<1>1. ASSUME Shape, Served, LoneConnectionKept, Next, StillRuns, NEW c \in Conn,
             worker'[c] = "send", ~canceled'[c], ~HasRival(c)'
      PROVE  /\ paths'[call'[c].tree] # None /\ paths'[call'[c].tree].conn = c
             /\ call'[c].stage = "done" => open'[call'[c].tree] = c
  <2>1. Shape'
    BY <1>1, NextShape
  <2> DEFINE t == call'[c].tree
  <2>2. t \in RelayTree /\ t \in Tree /\ call'[c].stage \in {"setOpen", "done"}
    BY <1>1, <2>1 DEF Shape, WellFormed, Tree
  <2> HIDE DEF t
  <2>3. ASSUME NEW d \in Conn, d # c, call'[d].tree = call'[c].tree, worker'[d] # "none"
        PROVE  FALSE
    BY <1>1, <2>3 DEF HasRival
  <2>4. ASSUME NEW d \in Conn, d # c, call[d].tree = call'[c].tree, worker[d] # "none"
        PROVE  FALSE
    BY <1>1, <2>3, <2>4, ServiceStays
  <2>5. ASSUME NEW d \in Conn, d # c, SetPath(d), t = call[d].tree
        PROVE  FALSE
    <3>1. \A u \in Tree : u = call[d].tree => Serves(d, u)'
      BY <1>1, <2>5, SetPathServes
    <3>2. call'[d].tree = t /\ worker'[d] # "none"
      BY <2>2, <2>5, <3>1 DEF Serves
    <3> QED BY <2>3, <2>5, <3>2 DEF t
  <2>6. CASE worker[c] = "none"
    <3>1. SetPath(c)
      BY <1>1, <2>6, WorkerStates
    <3>2. call[c].tree \in Tree /\ call[c].profile \in HalfOpenPath
      BY <1>1, <3>1 DEF SetPath, Shape, WellFormed, Tree
    <3>3. t = call[c].tree /\ call'[c].stage = "setOpen"
      BY <1>1, <3>1, <3>2, SetPathServes DEF Serves, t
    <3>4. [call[c].profile EXCEPT !.conn = c] \in RelayPath
          /\ [call[c].profile EXCEPT !.conn = c].conn = c
      BY <3>2, ProfileKinds DEF HalfOpenPath
    <3>5. paths'[t] = [call[c].profile EXCEPT !.conn = c]
      BY <1>1, <3>1, <3>2, <3>3 DEF SetPath, Shape, TypeOK
    <3> QED BY <3>3, <3>4, <3>5, PathsAssumption, ProfileKinds DEF t
  <2>7. CASE worker[c] # "none"
    <3>1. worker[c] = "send" /\ ~canceled[c]
      BY <1>1, <2>7, WorkerStates DEF Shape, SetPath
    <3>2. call[c].tree = t
      BY <1>1, <2>7, ServiceStays DEF t
    <3>3. ~HasRival(c)
      BY <2>4, <3>2 DEF HasRival, t
    <3>4. /\ paths[t] # None /\ paths[t].conn = c
          /\ call[c].stage = "done" => open[t] = c
      BY <1>1, <3>1, <3>2, <3>3 DEF LoneConnectionKept
    <3>5. paths'[t] # None
      <4> SUFFICES ASSUME paths'[t] = None PROVE FALSE
        OBVIOUS
      <4>1. PICK d \in Conn : WorkerDeletes(d) /\ call[d].tree = t
        BY <1>1, <2>2, <3>4, WhoDeletes
      <4>2. worker[d] = "delete"
        BY <4>1 DEF WorkerDeletes
      <4> QED BY <2>4, <3>1, <4>1, <4>2 DEF t
    <3>6. paths'[t].conn = c
      <4>1. paths'[t] \in RelayPath
        BY <2>1, <2>2, <3>5 DEF Shape
      <4>2. CASE paths'[t] = paths[t]
        BY <3>4, <4>2
      <4>3. CASE \E d \in Conn : SetPath(d) /\ t = call[d].tree /\ paths'[t].conn = d
        BY <2>5, <4>3
      <4>4. CASE report[t] # None /\ paths'[t] = report[t].profile
        <5>1. paths'[t].conn \in Conn
          BY <4>1 DEF RelayPath
        <5>2. Serves(paths'[t].conn, t)
          BY <1>1, <2>2, <4>4 DEF Served
        <5> QED BY <2>4, <5>1, <5>2 DEF Serves, t
      <4> QED BY <1>1, <2>2, <3>5, <4>1, <4>2, <4>3, <4>4, TablesStep, ProfileKinds
    <3>7. ASSUME call'[c].stage = "done" PROVE open'[t] = c
      <4>1. CASE SetOpen(c)
        BY <1>1, <2>2, <3>2, <4>1 DEF SetOpen, Shape, TypeOK
      <4>2. CASE call[c].stage = "done"
        <5>1. CASE open'[t] = open[t]
          BY <3>4, <4>2, <5>1
        <5>2. ASSUME NEW d \in Conn, SetOpen(d), t = call[d].tree, open'[t] = d
              PROVE  open'[t] = c
          <6>1. worker[d] # "none"
            BY <1>1, <5>2 DEF SetOpen, Shape
          <6> QED BY <2>4, <5>2, <6>1 DEF t
        <5> QED BY <1>1, <2>2, <5>1, <5>2, TablesStep
      <4> QED BY <1>1, <2>7, <3>7, <4>1, <4>2, WorkerStates
    <3> QED BY <3>5, <3>6, <3>7 DEF t
  <2> QED BY <2>6, <2>7
<1>2. ASSUME Shape, ~StillRuns PROVE LoneConnectionKept'
  BY <1>2 DEF StillRuns, Down, LoneConnectionKept, Shape, TypeOK
<1>3. ASSUME LoneConnectionKept, UNCHANGED vars PROVE LoneConnectionKept'
  BY <1>3 DEF vars, table, LoneConnectionKept, HasRival
<1> QED
  BY <1>1, <1>2, <1>3 DEF LoneConnectionKept

(* A connection in use keeps its path, and openConnections at it, as long   *)
(* as no other connection for the tree is made, whatever is cleaned, fixed, *)
(* blacklisted or cancelled for other reasons (workers.go:378-441).         *)
THEOREM LoneConnectionsAreKept == Spec => []LoneConnectionKept
<1>1. Init => LoneConnectionKept
  BY DEF Init, Boot, LoneConnectionKept
<1> QED
  BY <1>1, AlwaysShape, InitServed, NextServed, InitShape, NextShape, NextKeeps, PTL DEF Spec

LEMMA StrandsStep ==
  ASSUME Shape, Served, Next, NEW t \in Tree, Stranded(t)'
  PROVE  Stranded(t) \/ (report[t] # None /\ paths'[t] = report[t].profile)
<1>1. CASE ~StillRuns
  BY <1>1, PathsAssumption DEF StillRuns, Down, Stranded
<1>2. CASE StillRuns
  <2>1. Shape'
    BY NextShape
  <2>2. CASE paths'[t] = paths[t]
    <3> DEFINE c == paths[t].conn
    <3>1. c \in Conn /\ call[c].tree = t /\ worker[c] # "none"
      BY <2>2 DEF Stranded, Served, Serves, Shape, TypeOK, Profile
    <3> HIDE DEF c
    <3>2. call'[c].ip = call[c].ip /\ worker'[c] # "none"
      BY <1>2, <3>1, ServiceStays
    <3>3. worker'[c] = "closed"
      BY <2>1, <2>2, <3>1, <3>2 DEF Stranded, Shape, TypeOK, Workers, c
    <3>4. ~WorkerReads(c)
      BY <2>2, <3>1, <3>2, <3>3 DEF WorkerReads, Stranded, Shape, TypeOK, c
    <3>5. ~WorkerDeletes(c)
      BY <3>1 DEF WorkerDeletes, Stranded, Shape, TypeOK
    <3>6. worker[c] = "closed"
      BY <1>2, <3>1, <3>3, <3>4, <3>5, WorkerStates
    <3> QED BY <2>2, <3>2, <3>6 DEF Stranded, c
  <2>3. CASE \E c \in Conn : SetPath(c) /\ t = call[c].tree /\ paths'[t].conn = c
    <3>1. PICK c \in Conn : SetPath(c) /\ t = call[c].tree /\ paths'[t].conn = c
      BY <2>3
    <3>2. worker'[c] = "send"
      BY <3>1, SetPathServes
    <3> QED BY <3>1, <3>2 DEF Stranded
  <2>4. CASE paths'[t] = OwnProfile
    BY <2>4 DEF OwnProfile, Stranded
  <2>5. CASE paths'[t] = None
    BY <2>5 DEF Stranded
  <2> QED BY <1>2, <2>2, <2>3, <2>4, <2>5, TablesStep
<1> QED
  BY <1>1, <1>2

(* The cleanup of a worker (workers.go:431-437) deletes every path that      *)
(* would be left with nobody to remove it; FIX alone (workers.go:400) brings *)
(* one back.                                                                *)
THEOREM OnlyFixStrandsCorrect == Spec => OnlyFixStrands
<1>1. Shape /\ Served /\ [Next]_vars =>
        [\A t \in Tree :
           Stranded(t)' => \/ Stranded(t)
                           \/ report[t] # None /\ paths'[t] = report[t].profile]_vars
  BY StrandsStep
<1> QED
  BY <1>1, AlwaysShape, InitServed, NextServed, InitShape, NextShape, PTL
     DEF Spec, OnlyFixStrands
=============================================================================

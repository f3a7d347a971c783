----------------------------- MODULE RelayProofs -----------------------------
(***************************************************************************)
(* Proofs about Relay for every set of nodes, connections, keys and        *)
(* messages, queues of any length, and any restarts.                       *)
(***************************************************************************)
EXTENDS Relay, OverlayProofs

(* Relay moves messages through Overlay and never disturbs it. *)
LEMMA OverlayStep == [Next]_vars => [OverlayNext]_overlayVars
<1> SUFFICES ASSUME [Next]_vars PROVE [OverlayNext]_overlayVars
  OBVIOUS
<1>1. ASSUME NEW c \in Conn, SendCover(c) \/ Handle(c) PROVE UNCHANGED overlayVars
  BY <1>1 DEF SendCover, Handle, Unreadable, DiscardCover, Forward, StoreReal
<1>2. ASSUME NEW n \in Node, NEW m \in Msg, PublishStores(n, m) \/ PublishSends(n, m)
      PROVE  UNCHANGED overlayVars
  BY <1>2 DEF PublishStores, PublishSends
<1> QED
  BY <1>1, <1>2 DEF Next, vars

LEMMA SpecOverlay == Spec => OverlaySpec
<1>1. Init => OverlayInit
  BY DEF Init
<1> QED
  BY <1>1, OverlayStep, PTL DEF Spec, OverlaySpec

(* In the composition, too, next hops make no loop before a node that had   *)
(* lost the tree joins it again (QueryPath, ConnectPath, MoveUp,           *)
(* invalidPathProfiles).                                                   *)
THEOREM RelayTreeCorrect == Spec => []TreeUnlessRejoined
  BY SpecOverlay, TreeUnlessRejoinedCorrect, PTL

-----------------------------------------------------------------------------
(* Messages on connections *)

Wires == [Conn -> Seq(ApplicationMessage)]
On(w, m) == \E c \in Conn : \E i \in DOMAIN w[c] : w[c][i].msg = m
Once(w) ==
    \A m \in Msg, c, d \in Conn : \A i \in DOMAIN w[c], j \in DOMAIN w[d] :
        w[c][i].msg = m /\ w[d][j].msg = m => c = d /\ i = j
Behind(c) == [wire EXCEPT ![c] = Tail(@)]

LEMMA Single ==
  SingleCopy <=> Once(wire) /\ \A m \in Msg : On(wire, m) => fate[m] = "sent"
  BY DEF SingleCopy, Once, On

LEMMA Made ==
  /\ None \notin Msg
  /\ \A c \in Conn : /\ NewCoverMessage(SymKey[c]) \in ApplicationMessage
                     /\ NewCoverMessage(SymKey[c]).msg = None
                     /\ NewCoverMessage(SymKey[c]).key = SymKey[c]
  /\ \A c \in Conn, m \in Msg \cup {None} :
                                /\ NewRealMessage(m, SymKey[c]) \in ApplicationMessage
                                /\ NewRealMessage(m, SymKey[c]).msg = m
                                /\ NewRealMessage(m, SymKey[c]).key = SymKey[c]
  BY RelayAssumption DEF NewCoverMessage, NewRealMessage, ApplicationMessage

(* What is left behind the first message of a connection. *)
LEMMA BehindType ==
  ASSUME TypeOK, NEW c \in Conn, wire[c] # <<>>
  PROVE  /\ Behind(c) \in Wires /\ Head(wire[c]) \in ApplicationMessage
         /\ 1 \in DOMAIN wire[c] /\ wire[c][1] = Head(wire[c])
  BY DEF TypeOK, Wires, Behind

LEMMA BehindPlaces ==
  ASSUME TypeOK, NEW c \in Conn, wire[c] # <<>>,
         NEW d \in Conn, NEW i \in DOMAIN Behind(c)[d]
  PROVE  /\ i \in Nat
         /\ d # c => i \in DOMAIN wire[d] /\ Behind(c)[d][i] = wire[d][i]
         /\ d = c => i # 0 /\ i + 1 \in DOMAIN wire[d] /\ Behind(c)[d][i] = wire[d][i + 1]
<1>1. CASE d # c
  BY <1>1 DEF TypeOK, Behind
<1>2. CASE d = c
  <2>1. wire[c] \in Seq(ApplicationMessage) /\ Behind(c)[c] = Tail(wire[c])
    BY DEF TypeOK, Behind
  <2> QED BY <1>2, <2>1
<1> QED BY <1>1, <1>2

LEMMA BehindOnce ==
  ASSUME TypeOK, SingleCopy, NEW c \in Conn, wire[c] # <<>>
  PROVE  /\ Once(Behind(c))
         /\ \A m \in Msg : On(Behind(c), m) => fate[m] = "sent" /\ m # Head(wire[c]).msg
<1>1. Once(wire)
  BY Single
<1>2. ASSUME NEW m \in Msg, NEW d \in Conn, NEW e \in Conn,
             NEW i \in DOMAIN Behind(c)[d], NEW j \in DOMAIN Behind(c)[e],
             Behind(c)[d][i].msg = m, Behind(c)[e][j].msg = m
      PROVE  d = e /\ i = j
  <2>1. PICK k \in DOMAIN wire[d] : /\ wire[d][k].msg = m
                                    /\ k = IF d = c THEN i + 1 ELSE i
    BY <1>2, BehindPlaces
  <2>2. PICK l \in DOMAIN wire[e] : /\ wire[e][l].msg = m
                                    /\ l = IF e = c THEN j + 1 ELSE j
    BY <1>2, BehindPlaces
  <2>3. d = e /\ k = l
    BY <1>1, <2>1, <2>2 DEF Once
  <2>4. i \in Nat /\ j \in Nat
    BY BehindPlaces
  <2> QED BY <2>1, <2>2, <2>3, <2>4
<1>3. ASSUME NEW m \in Msg, On(Behind(c), m)
      PROVE  fate[m] = "sent" /\ m # Head(wire[c]).msg
  <2>1. PICK d \in Conn : \E i \in DOMAIN Behind(c)[d] : Behind(c)[d][i].msg = m
    BY <1>3 DEF On
  <2>2. PICK i \in DOMAIN Behind(c)[d] : Behind(c)[d][i].msg = m
    BY <2>1
  <2>3. PICK k \in DOMAIN wire[d] : wire[d][k].msg = m /\ (d = c => k = i + 1 /\ i # 0 /\ i \in Nat)
    BY <2>2, BehindPlaces
  <2>4. fate[m] = "sent"
    BY <2>3, Single DEF On
  <2>5. m # Head(wire[c]).msg
    <3>1. SUFFICES ASSUME m = Head(wire[c]).msg PROVE FALSE
      OBVIOUS
    <3>2. 1 \in DOMAIN wire[c] /\ wire[c][1].msg = m
      BY <3>1, BehindType
    <3>3. d = c /\ k = 1
      BY <1>1, <2>3, <3>2 DEF Once
    <3> QED BY <2>3, <3>3
  <2> QED BY <2>4, <2>5
<1> QED
  BY <1>2, <1>3 DEF Once

(* A message is added at the end of a connection. *)
LEMMA EncodedType ==
  ASSUME NEW w \in Wires, NEW o \in Conn, NEW am \in ApplicationMessage, Encoded(o, am, w)
  PROVE  wire' \in Wires
  BY DEF Encoded, Wires

LEMMA EncodedPlaces ==
  ASSUME NEW w \in Wires, NEW o \in Conn, NEW am \in ApplicationMessage, Encoded(o, am, w),
         NEW d \in Conn, NEW i \in DOMAIN wire'[d]
  PROVE  \/ i \in DOMAIN w[d] /\ wire'[d][i] = w[d][i]
         \/ /\ d = o /\ i = Len(w[o]) + 1 /\ wire'[d][i] = am
            /\ link[o].handler # "off"
<1>1. w[o] \in Seq(ApplicationMessage) /\ w[d] \in Seq(ApplicationMessage)
  BY DEF Wires
<1>2. CASE link[o].handler = "off" \/ d # o
  BY <1>2 DEF Encoded, Wires
<1>3. CASE link[o].handler # "off" /\ d = o
  <2>1. wire'[d] = Append(w[o], am)
    BY <1>3 DEF Encoded, Wires
  <2> QED BY <1>1, <1>3, <2>1
<1> QED BY <1>2, <1>3

LEMMA EncodedOnce ==
  ASSUME NEW w \in Wires, NEW o \in Conn, NEW am \in ApplicationMessage, Encoded(o, am, w),
         Once(w), am.msg \in Msg => ~On(w, am.msg)
  PROVE  /\ Once(wire')
         /\ \A m \in Msg : On(wire', m)
               => On(w, m) \/ (m = am.msg /\ link[o].handler # "off")
<1>1. ASSUME NEW m \in Msg, NEW d \in Conn, NEW e \in Conn,
             NEW i \in DOMAIN wire'[d], NEW j \in DOMAIN wire'[e],
             wire'[d][i].msg = m, wire'[e][j].msg = m
      PROVE  d = e /\ i = j
  <2>1. \/ i \in DOMAIN w[d] /\ w[d][i].msg = m
        \/ d = o /\ i = Len(w[o]) + 1 /\ m = am.msg
    BY <1>1, EncodedPlaces
  <2>2. \/ j \in DOMAIN w[e] /\ w[e][j].msg = m
        \/ e = o /\ j = Len(w[o]) + 1 /\ m = am.msg
    BY <1>1, EncodedPlaces
  <2>3. m = am.msg => ~(i \in DOMAIN w[d] /\ w[d][i].msg = m) /\ ~(j \in DOMAIN w[e] /\ w[e][j].msg = m)
    BY DEF On
  <2> QED BY <2>1, <2>2, <2>3 DEF Once
<1>2. ASSUME NEW m \in Msg, On(wire', m)
      PROVE  On(w, m) \/ (m = am.msg /\ link[o].handler # "off")
  <2>1. PICK d \in Conn : \E i \in DOMAIN wire'[d] : wire'[d][i].msg = m
    BY <1>2 DEF On
  <2>2. PICK i \in DOMAIN wire'[d] : wire'[d][i].msg = m
    BY <2>1
  <2> QED BY <2>2, EncodedPlaces DEF On
<1> QED
  BY <1>1, <1>2 DEF Once

-----------------------------------------------------------------------------
(* What is carried: well-formed messages, each once, with keys of the node  *)
(* that sent them, and none ignored.                                       *)
Own(c, key) ==
    /\ link[c] # None
    /\ \E d \in Conn : link[d] # None /\ link[d].from = link[c].from /\ key = SymKey[d]
OwnKeys(w) == \A c \in Conn : \A i \in DOMAIN w[c] : Own(c, w[c][i].key)

Carried == TypeOK /\ SingleCopy /\ OwnKeys(wire) /\ NothingIgnored

LEMMA CarriedKept ==
  ASSUME Shape, UNCHANGED overlayVars, wire' \in Wires, fate' \in [Msg -> Fates],
         Once(wire'), OwnKeys(wire'),
         \A m \in Msg : /\ fate'[m] # "ignored"
                        /\ On(wire', m) => fate'[m] = "sent"
  PROVE  Carried'
<1>1. TypeOK'
  BY DEF Shape, OverlayTypeOK, overlayVars, TypeOK, Wires
<1>2. SingleCopy'
  BY DEF SingleCopy, Once, On
<1>3. OwnKeys(wire)'
  BY DEF OwnKeys, Own, overlayVars
<1>4. NothingIgnored'
  BY DEF NothingIgnored
<1> QED BY <1>1, <1>2, <1>3, <1>4 DEF Carried

LEMMA BehindKeys ==
  ASSUME TypeOK, OwnKeys(wire), NEW c \in Conn, wire[c] # <<>> PROVE OwnKeys(Behind(c))
<1>1. ASSUME NEW d \in Conn, NEW i \in DOMAIN Behind(c)[d]
      PROVE  \E k \in DOMAIN wire[d] : Behind(c)[d][i] = wire[d][k]
  BY BehindPlaces
<1> QED BY <1>1 DEF OwnKeys

(* The first message is taken from its connection. *)
LEMMA Takes ==
  ASSUME Shape, Carried, NEW c \in Conn, wire[c] # <<>>, wire' = Behind(c),
         NEW f \in Fates \ {"ignored"},
         fate' \in {fate, [fate EXCEPT ![Head(wire[c]).msg] = f]},
         UNCHANGED overlayVars
  PROVE  Carried'
<1>1. TypeOK /\ SingleCopy /\ OwnKeys(wire) /\ NothingIgnored
  BY DEF Carried
<1>2. wire' \in Wires /\ OwnKeys(wire')
  BY <1>1, BehindType, BehindKeys
<1>3. Once(wire') /\ \A m \in Msg : On(wire', m) => fate[m] = "sent" /\ m # Head(wire[c]).msg
  BY <1>1, BehindOnce
<1>4. fate \in [Msg -> Fates]
  BY <1>1 DEF TypeOK
<1>5. /\ fate' \in [Msg -> Fates]
      /\ \A m \in Msg : fate'[m] \in {fate[m], f} /\ (m # Head(wire[c]).msg => fate'[m] = fate[m])
  BY <1>4
<1>6. \A m \in Msg : fate'[m] # "ignored"
  BY <1>1, <1>5 DEF NothingIgnored
<1> QED BY <1>2, <1>3, <1>5, <1>6, CarriedKept

(* A message is put on a connection. *)
LEMMA Puts ==
  ASSUME Shape, Carried, NEW w \in Wires, Once(w), OwnKeys(w),
         NEW o \in Conn, NEW am \in ApplicationMessage, Own(o, am.key),
         \A m \in Msg : On(w, m) => fate[m] = "sent" /\ m # am.msg,
         Encoded(o, am, w),
         Sent(o, am.msg) \/ (am.msg \notin Msg /\ fate' = fate),
         UNCHANGED overlayVars
  PROVE  Carried'
<1>1. TypeOK /\ NothingIgnored /\ fate \in [Msg -> Fates]
  BY DEF Carried, TypeOK
<1>2. wire' \in Wires
  BY EncodedType
<1>3. Once(wire') /\ \A m \in Msg : On(wire', m)
                          => On(w, m) \/ (m = am.msg /\ link[o].handler # "off")
  BY EncodedOnce
<1>4. OwnKeys(wire')
  BY EncodedPlaces DEF OwnKeys
<1>5. /\ fate' \in [Msg -> Fates]
      /\ \A m \in Msg : /\ m # am.msg => fate'[m] = fate[m]
                        /\ m = am.msg => fate'[m] = IF link[o].handler = "off"
                                                    THEN "lost" ELSE "sent"
  BY <1>1 DEF Sent, Fates
<1>6. \A m \in Msg : fate'[m] # "ignored"
  BY <1>1, <1>5 DEF NothingIgnored
<1>7. \A m \in Msg : On(wire', m) => fate'[m] = "sent"
  BY <1>3, <1>5
<1> QED BY <1>2, <1>3, <1>4, <1>5, <1>6, <1>7, CarriedKept

-----------------------------------------------------------------------------
(* The steps *)

LEMMA SendCoverCarried ==
  ASSUME Shape, Carried, NEW c \in Conn, SendCover(c) PROVE Carried'
<1> DEFINE am == NewCoverMessage(SymKey[c])
<1>1. am \in ApplicationMessage /\ am.msg \notin Msg /\ am.key = SymKey[c]
  BY Made
<1>2. wire \in Wires /\ Once(wire) /\ OwnKeys(wire) /\ \A m \in Msg : On(wire, m) => fate[m] = "sent"
  BY Single DEF Carried, TypeOK, Wires
<1>3. Own(c, am.key)
  BY <1>1 DEF SendCover, Own
<1>4. Encoded(c, am, wire) /\ fate' = fate /\ UNCHANGED overlayVars
  BY DEF SendCover
<1> HIDE DEF am
<1> QED BY <1>1, <1>2, <1>3, <1>4, Puts

LEMMA PublishStoresCarried ==
  ASSUME Shape, Carried, NEW n \in Node, NEW m \in Msg, PublishStores(n, m) PROVE Carried'
<1>1. /\ wire \in Wires /\ Once(wire) /\ OwnKeys(wire) /\ fate \in [Msg -> Fates]
      /\ \A k \in Msg : (On(wire, k) => fate[k] = "sent") /\ fate[k] # "ignored"
  BY Single DEF Carried, TypeOK, Wires, NothingIgnored
<1>2. fate[m] = "unsent" /\ fate' = [fate EXCEPT ![m] = "stored"] /\ wire' = wire
  BY DEF PublishStores
<1>3. fate' \in [Msg -> Fates] /\ \A k \in Msg : /\ fate'[k] # "ignored"
                                                 /\ On(wire, k) => fate'[k] = "sent"
  BY <1>1, <1>2 DEF Fates
<1> QED BY <1>1, <1>2, <1>3, CarriedKept DEF PublishStores

(* The profile of a relay path is the node's own. *)
LEMMA RelayPathOwn ==
  ASSUME Shape, NEW n \in Node, HasRelayPath(n)
  PROVE  ConnOf(n, path[n].conn)
  BY HeldTypes DEF HasRelayPath, Shape, Leads

LEMMA PublishSendsCarried ==
  ASSUME Shape, Carried, NEW n \in Node, NEW m \in Msg, PublishSends(n, m) PROVE Carried'
<1>1. ConnOf(n, path[n].conn)
  BY RelayPathOwn DEF PublishSends
<1>2. ConnOf(n, open[n])
  BY DEF PublishSends, IsOpen, Shape
<1>3. PICK o \in Conn : o = open[n]
  BY <1>2 DEF ConnOf
<1>4. PICK am : am = NewRealMessage(m, SymKey[path[n].conn])
  OBVIOUS
<1>5. am \in ApplicationMessage /\ am.msg = m /\ am.key = SymKey[path[n].conn]
  BY <1>1, <1>4, Made DEF ConnOf
<1>6. Own(o, am.key)
  BY <1>1, <1>2, <1>3, <1>5 DEF ConnOf, Own
<1>7. wire \in Wires /\ Once(wire) /\ OwnKeys(wire) /\ \A k \in Msg : On(wire, k) => fate[k] = "sent"
  BY Single DEF Carried, TypeOK, Wires
<1>8. fate[m] = "unsent" /\ Encoded(o, am, wire) /\ Sent(o, m) /\ UNCHANGED overlayVars
  BY <1>3, <1>4 DEF PublishSends
<1> QED BY <1>3, <1>5, <1>6, <1>7, <1>8, Puts

LEMMA ForwardCarried ==
  ASSUME Shape, Carried, NEW c \in Conn, Forward(c) PROVE Carried'
<1> DEFINE m == Head(wire[c]).msg
<1>1. wire[c] # <<>> /\ UNCHANGED overlayVars
  BY DEF Forward, RealArrives, Arrives
<1>2. TypeOK /\ SingleCopy /\ OwnKeys(wire)
  BY DEF Carried
<1>3. Head(wire[c]) \in ApplicationMessage /\ link[c] # None
  BY <1>1, <1>2, BehindType DEF OwnKeys, Own
<1>4. link[c].to \in Node /\ m \in Msg \cup {None}
  BY <1>3 DEF Shape, OverlayTypeOK, Link, ApplicationMessage
<1>5. PICK n \in Node : n = link[c].to
  BY <1>4
<1>6. PICK old : old = link[c].forward.conn
  OBVIOUS
<1>7. CASE old # None /\ SymKey[old] \in UsableKeys /\ IsOpen(open[n])
  <2>1. ConnOf(n, old)
    BY <1>3, <1>5, <1>6, <1>7 DEF Shape, Forwards
  <2>2. ConnOf(n, open[n])
    BY <1>7 DEF IsOpen, Shape
  <2>3. PICK o \in Conn : o = open[n]
    BY <2>2 DEF ConnOf
  <2>4. PICK am : am = NewRealMessage(m, SymKey[old])
    OBVIOUS
  <2>5. am \in ApplicationMessage /\ am.msg = m /\ am.key = SymKey[old]
    BY <1>4, <2>1, <2>4, Made DEF ConnOf
  <2>6. Own(o, am.key)
    BY <2>1, <2>2, <2>3, <2>5 DEF ConnOf, Own
  <2>7. PICK w : w = Behind(c)
    OBVIOUS
  <2>8. w \in Wires /\ Once(w) /\ OwnKeys(w) /\ \A k \in Msg : On(w, k) => fate[k] = "sent" /\ k # m
    BY <1>1, <1>2, <2>7, BehindType, BehindOnce, BehindKeys
  <2>9. Encoded(o, am, w) /\ Sent(o, am.msg)
    BY <1>5, <1>6, <1>7, <2>3, <2>4, <2>5, <2>7 DEF Forward, Behind
  <2> HIDE DEF m
  <2> QED BY <1>1, <2>3, <2>5, <2>6, <2>8, <2>9, Puts
<1>8. CASE ~(old # None /\ SymKey[old] \in UsableKeys /\ IsOpen(open[n]))
  <2>1. wire' = Behind(c) /\ fate' = [fate EXCEPT ![m] = "lost"]
    BY <1>5, <1>6, <1>8 DEF Forward, Behind
  <2> QED BY <1>1, <2>1, Takes DEF Fates
<1> QED BY <1>7, <1>8

LEMMA HandleCarried ==
  ASSUME Shape, ProxyLasts, Carried, NEW c \in Conn, Handle(c) PROVE Carried'
<1>1. CASE Unreadable(c)
  <2>1. wire[c] # <<>> /\ wire' = Behind(c) /\ UNCHANGED overlayVars
    BY <1>1 DEF Unreadable, Arrives, Consumed, Behind
  <2>2. fate' \in {fate, [fate EXCEPT ![Head(wire[c]).msg] = "lost"]}
    BY <1>1 DEF Unreadable
  <2> QED BY <2>1, <2>2, Takes DEF Fates
<1>2. CASE DiscardCover(c)
  <2>1. wire[c] # <<>> /\ wire' = Behind(c) /\ UNCHANGED overlayVars /\ fate' = fate
    BY <1>2 DEF DiscardCover, Arrives, Consumed, Behind
  <2> QED BY <2>1, Takes DEF Fates
<1>3. ASSUME NEW result \in {"stored", "notStored"}, StoreReal(c, result) PROVE Carried'
  <2>1. wire[c] # <<>> /\ wire' = Behind(c) /\ UNCHANGED overlayVars
    BY <1>3 DEF StoreReal, RealArrives, Arrives, Consumed, Behind
  <2>2. link[c] # None
    BY <2>1, BehindType DEF Carried, OwnKeys, Own
  <2>3. link[c].forward = RouteOf(OwnPath)
    BY <1>3, <2>2 DEF StoreReal, AsymmetricDecrypts, ProxyLasts
  <2>4. fate' = [fate EXCEPT ![Head(wire[c]).msg] = result]
    BY <1>3, <2>3 DEF StoreReal, OwnPath, RouteOf
  <2> QED BY <2>1, <2>4, Takes DEF Fates
<1> QED
  BY <1>1, <1>2, <1>3, ForwardCarried DEF Handle

(* Workers that have ended take their messages with them. *)
LEMMA LosesCarried ==
  ASSUME Shape, Shape', Kept, Carried, LosesClosed PROVE Carried'
<1>1. /\ wire \in Wires /\ fate \in [Msg -> Fates] /\ Once(wire) /\ OwnKeys(wire)
      /\ \A m \in Msg : fate[m] # "ignored" /\ (On(wire, m) => fate[m] = "sent")
  BY Single DEF Carried, TypeOK, Wires, NothingIgnored
<1>2. ASSUME NEW c \in Conn PROVE wire'[c] = <<>> \/ (wire'[c] = wire[c] /\ ~Closed(c)')
  BY DEF LosesClosed
<1>3. wire' \in Wires /\ fate' \in [Msg -> Fates]
  BY <1>1 DEF LosesClosed, Wires, Fates
<1>4. Once(wire')
  BY <1>1, <1>2 DEF Once
<1>5. ASSUME NEW m \in Msg, On(wire', m) PROVE fate'[m] = "sent"
  <2>1. PICK c \in Conn : \E i \in DOMAIN wire'[c] : wire'[c][i].msg = m
    BY <1>5 DEF On
  <2>2. ~Closed(c)' /\ \E i \in DOMAIN wire[c] : wire[c][i].msg = m
    BY <1>2, <2>1
  <2>3. fate[m] = "sent"
    BY <1>1, <2>2 DEF On
  <2>4. ASSUME NEW d \in Conn, Closed(d)', m \in OnWire(d) PROVE FALSE
    BY <1>1, <2>2, <2>4 DEF OnWire, Once
  <2> QED BY <2>3, <2>4 DEF LosesClosed
<1>6. \A m \in Msg : fate'[m] # "ignored"
  BY <1>1 DEF LosesClosed
<1>7. ASSUME NEW c \in Conn, NEW key, Own(c, key) PROVE Own(c, key)'
  BY <1>7 DEF Own, Kept
<1>8. OwnKeys(wire)'
  BY <1>1, <1>2, <1>7 DEF OwnKeys
<1> QED
  BY <1>3, <1>4, <1>5, <1>6, <1>8
     DEF Carried, Shape, TypeOK, Wires, SingleCopy, Once, On, NothingIgnored

LEMMA InitCarried == Init => Carried
<1> SUFFICES ASSUME Init PROVE Carried
  OBVIOUS
<1>1. OverlayTypeOK
  BY InitShape DEF Init, Shape
<1> QED
  BY <1>1 DEF Init, Carried, TypeOK, Fates, SingleCopy, OwnKeys, NothingIgnored

LEMMA CarriedStep ==
  ASSUME Shape, ProxyLasts, Carried, [Next]_vars PROVE Carried'
<1>1. CASE UNCHANGED vars
  BY <1>1 DEF vars, overlayVars, Carried, TypeOK, OverlayTypeOK, SingleCopy, OwnKeys, Own,
     NothingIgnored
<1>2. CASE OverlayNext /\ LosesClosed
  BY <1>2, ShapeStep, LinkStep, LosesCarried
<1>3. ASSUME NEW c \in Conn, SendCover(c) \/ Handle(c) PROVE Carried'
  BY <1>3, SendCoverCarried, HandleCarried
<1>4. ASSUME NEW n \in Node, NEW m \in Msg, PublishStores(n, m) \/ PublishSends(n, m)
      PROVE  Carried'
  BY <1>4, PublishStoresCarried, PublishSendsCarried
<1> QED
  BY <1>1, <1>2, <1>3, <1>4 DEF Next

Inv == Shape /\ Members /\ ProxyLasts /\ Older /\ Ties /\ Carried

(* The inductive invariant of the composition. *)
THEOREM InvCorrect == Spec => []Inv
<1>1. Init => Inv
  BY InitShape, InitMembers, InitProxyLasts, InitOlder, InitTies, InitCarried DEF Init, Inv
<1>2. Inv /\ [Next]_vars => Inv'
  BY OverlayStep, ShapeStep, MembersStep, ProxyStep, OlderStep, TiesStep, CarriedStep DEF Inv
<1> QED
  BY <1>1, <1>2, PTL DEF Spec

(* The types of Relay. *)
THEOREM TypeCorrect == Spec => []TypeOK
<1>1. Inv => TypeOK
  BY DEF Inv, Carried
<1> QED
  BY <1>1, InvCorrect, PTL

(* Forward (node.go) and handleRealMessage (workers.go): a message is at    *)
(* one place at a time, whatever ends, restarts or is replaced.            *)
THEOREM SingleCopyCorrect == Spec => []SingleCopy
<1>1. Inv => SingleCopy
  BY DEF Inv, Carried
<1> QED
  BY <1>1, InvCorrect, PTL

(* Publish and Forward: what is on a connection is encrypted with a key     *)
(* that its sender has agreed on, with the parent at the other end or one  *)
(* before or after it.                                                     *)
THEOREM KeysCorrect == Spec => []KeysOfTheSender
<1>1. Inv => KeysOfTheSender
  BY DEF Inv, Carried, OwnKeys, Own, KeysOfTheSender
<1> QED
  BY <1>1, InvCorrect, PTL

(* handleRealMessage at the proxy: no worker's path makes it ignore a       *)
(* message that it can decrypt.                                            *)
THEOREM NothingIgnoredCorrect == Spec => []NothingIgnored
<1>1. Inv => NothingIgnored
  BY DEF Inv, Carried
<1> QED
  BY <1>1, InvCorrect, PTL

-----------------------------------------------------------------------------
(* Messages descend. *)

(* No step puts a message on a further connection but Publish and Forward. *)
Spreads(m, c, d) == m \in OnWire(c) /\ m \notin OnWire(d) /\ Readable(m, d)'

LEMMA OnlyForwardSpreads ==
  ASSUME Inv, [Next]_vars, NEW m \in Msg, NEW c \in Conn, NEW d \in Conn, Spreads(m, c, d)
  PROVE  \E e \in Conn : Forward(e)
<1>1. TypeOK /\ SingleCopy /\ None \notin Msg
  BY RelayAssumption DEF Inv, Carried
<1>2. /\ m \in OnWire(c) /\ m \notin OnWire(d)
      /\ \E i \in DOMAIN wire'[d] : wire'[d][i].msg = m
  BY DEF Spreads, Readable
<1>3. fate[m] = "sent"
  BY <1>1, <1>2 DEF SingleCopy, OnWire
<1>4. CASE UNCHANGED wire
  BY <1>2, <1>4 DEF OnWire
<1>5. CASE LosesClosed
  BY <1>2, <1>5 DEF LosesClosed, OnWire
<1>6. ASSUME NEW e \in Conn, SendCover(e) PROVE FALSE
  <2>1. wire \in Wires /\ NewCoverMessage(SymKey[e]) \in ApplicationMessage
    BY <1>1, Made DEF TypeOK, Wires
  <2>2. PICK i \in DOMAIN wire'[d] : wire'[d][i].msg = m
    BY <1>2
  <2>3. i \in DOMAIN wire[d] /\ wire'[d][i] = wire[d][i]
    BY <1>1, <1>6, <2>1, <2>2, EncodedPlaces, Made DEF SendCover
  <2> QED BY <1>2, <2>2, <2>3 DEF OnWire
<1>7. ASSUME NEW n \in Node, NEW k \in Msg, PublishSends(n, k) PROVE FALSE
  <2>1. wire \in Wires /\ k # m
    BY <1>1, <1>3, <1>7 DEF TypeOK, Wires, PublishSends
  <2>2. ConnOf(n, path[n].conn) /\ ConnOf(n, open[n])
    BY <1>7, RelayPathOwn DEF PublishSends, IsOpen, Inv, Shape
  <2>3. PICK am : am = NewRealMessage(k, SymKey[path[n].conn])
    OBVIOUS
  <2>4. am \in ApplicationMessage /\ am.msg = k
    BY <2>2, <2>3, Made DEF ConnOf
  <2>5. open[n] \in Conn /\ Encoded(open[n], am, wire)
    BY <1>7, <2>2, <2>3 DEF PublishSends, ConnOf
  <2>6. PICK i \in DOMAIN wire'[d] : wire'[d][i].msg = m
    BY <1>2
  <2>7. i \in DOMAIN wire[d] /\ wire'[d][i] = wire[d][i]
    BY <2>1, <2>4, <2>5, <2>6, EncodedPlaces
  <2> QED BY <1>2, <2>6, <2>7 DEF OnWire
<1>8. ASSUME NEW e \in Conn, wire[e] # <<>>, wire' = Behind(e) PROVE FALSE
  <2>1. PICK i \in DOMAIN Behind(e)[d] : Behind(e)[d][i].msg = m
    BY <1>2, <1>8
  <2>2. \E k \in DOMAIN wire[d] : wire[d][k].msg = m
    BY <1>1, <1>8, <2>1, BehindPlaces
  <2> QED BY <1>2, <2>2 DEF OnWire
<1>9. ASSUME NEW e \in Conn, Unreadable(e) \/ DiscardCover(e) PROVE FALSE
  BY <1>8, <1>9 DEF Unreadable, DiscardCover, Arrives, Consumed, Behind
<1>10. ASSUME NEW e \in Conn, NEW result \in {"stored", "notStored"}, StoreReal(e, result)
       PROVE  FALSE
  BY <1>8, <1>10 DEF StoreReal, RealArrives, Arrives, Consumed, Behind
<1> QED
  BY <1>4, <1>5, <1>6, <1>7, <1>9, <1>10 DEF Next, vars, Handle, PublishStores

LEMMA ForwardDescends ==
  ASSUME Inv, DistinctKeys, NEW e \in Conn, Forward(e),
         NEW m \in Msg, NEW c \in Conn, NEW d \in Conn, Spreads(m, c, d)
  PROVE  d < c
<1>1. TypeOK /\ SingleCopy /\ OwnKeys(wire) /\ wire[e] # <<>>
  BY DEF Inv, Carried, Forward, RealArrives, Arrives
<1>2. PICK w : w = Behind(e)
  OBVIOUS
<1>3. w \in Wires /\ \A k \in Msg : On(w, k) => k # Head(wire[e]).msg
  BY <1>1, <1>2, BehindType, BehindOnce
<1>4. Head(wire[e]) \in ApplicationMessage /\ 1 \in DOMAIN wire[e] /\ wire[e][1] = Head(wire[e])
  BY <1>1, BehindType
<1>5. PICK i \in DOMAIN wire'[d] : wire'[d][i].msg = m /\ wire'[d][i].key = SecretKey[d]
  BY DEF Spreads, Readable
<1>6. m \in OnWire(c) /\ m \notin OnWire(d)
  BY DEF Spreads
<1>7. ~(i \in DOMAIN w[d] /\ w[d][i].msg = m)
  <2>1. SUFFICES ASSUME i \in DOMAIN w[d], w[d][i].msg = m PROVE FALSE
    OBVIOUS
  <2>2. \E k \in DOMAIN wire[d] : wire[d][k].msg = m
    BY <1>1, <1>2, <2>1, BehindPlaces
  <2> QED BY <1>6, <2>2 DEF OnWire
<1>8. PICK old, now : old = link[e].forward.conn /\ now = open[link[e].to]
  OBVIOUS
<1>9. /\ old # None /\ IsOpen(now)
      /\ Encoded(now, NewRealMessage(Head(wire[e]).msg, SymKey[old]), w)
  <2>1. CASE wire' = w
    BY <1>5, <1>7, <2>1
  <2> QED BY <1>2, <1>8, <2>1 DEF Forward, Behind
<1>10. link[e] # None /\ link[e].to \in Node /\ Head(wire[e]).msg \in Msg \cup {None}
  BY <1>1, <1>4 DEF OwnKeys, Own, TypeOK, OverlayTypeOK, Link, ApplicationMessage
<1>11. ConnOf(link[e].to, old) /\ ConnOf(link[e].to, now)
  BY <1>8, <1>9, <1>10 DEF IsOpen, Inv, Shape, Forwards
<1>12. old \in Conn /\ now \in Conn
  BY <1>11 DEF ConnOf
<1>13. PICK am : am = NewRealMessage(Head(wire[e]).msg, SymKey[old])
  OBVIOUS
<1>14. am \in ApplicationMessage /\ am.msg = Head(wire[e]).msg /\ am.key = SymKey[old]
  BY <1>10, <1>12, <1>13, Made
<1>15. d = now /\ wire'[d][i] = am
  BY <1>3, <1>5, <1>7, <1>9, <1>12, <1>13, <1>14, EncodedPlaces
<1>16. old = d
  BY <1>5, <1>12, <1>14, <1>15 DEF DistinctKeys
<1>17. c = e
  <2>1. wire[e][1].msg = m
    BY <1>4, <1>5, <1>14, <1>15
  <2> QED BY <1>1, <1>4, <1>6, <2>1 DEF SingleCopy, OnWire
<1> QED BY <1>8, <1>9, <1>10, <1>16, <1>17 DEF Inv, Older, ForwardIsOlder

(* Forward and MoveUp, ConnectPath: wherever next hops lead, a message that *)
(* can be read at the next hop has come there on an older connection than  *)
(* before, so it passes each connection at most once.                      *)
THEOREM HopsDescendCorrect == Spec => HopsDescend
<1> DEFINE Descends ==
      DistinctKeys => \A c, d \in Conn, m \in Msg :
        m \in OnWire(c) /\ m \notin OnWire(d) /\ Readable(m, d)' => d < c
<1>1. Inv /\ [Next]_vars => Descends
  BY OnlyForwardSpreads, ForwardDescends DEF Spreads
<1>2. Inv /\ [Next]_vars => [Descends]_vars
  BY <1>1
<1> HIDE DEF Descends
<1>3. Spec => [][Descends]_vars
  BY <1>2, InvCorrect, PTL DEF Spec
<1> QED BY <1>3 DEF HopsDescend, Descends

-----------------------------------------------------------------------------
(* An intact tree loses nothing. *)

(* With one connection each, all of them open, a node's path is that of its *)
(* connection, and what it sends carries the key that its parent has.      *)
LEMMA IntactPath ==
  ASSUME Inv, Intact, NEW n \in Node, NEW c, ConnOf(n, c)
  PROVE  /\ path[n] # None /\ path[n].conn = c /\ open[n] = c
         /\ c \in Conn /\ link[c].sender = "on" /\ link[c].handler = "on"
<1>1. Only(c) /\ c \in Conn /\ link[c].sender = "on" /\ link[c].handler = "on"
  BY DEF Intact, Only, ConnOf
<1>2. PathIs(n, c)
  BY <1>1 DEF Inv, Ties, OnlyHasPath, ConnOf, HasWorker
<1> QED BY <1>1, <1>2 DEF PathIs, Intact

LEMMA IntactReads ==
  ASSUME Inv, Intact, KeysEncrypt, NEW c \in Conn, wire[c] # <<>>
  PROVE  SymmetricDecrypts(Head(wire[c]), SecretKey[c])
<1>1. 1 \in DOMAIN wire[c] /\ wire[c][1] = Head(wire[c])
  BY BehindType DEF Inv, Carried
<1>2. PICK d \in Conn : /\ link[c] # None /\ link[d] # None /\ link[d].from = link[c].from
                        /\ Head(wire[c]).key = SymKey[d]
  BY <1>1 DEF Inv, Carried, OwnKeys, Own
<1>3. d = c
  BY <1>2 DEF Intact
<1> QED BY <1>2, <1>3, SameKeys DEF KeysEncrypt, SymmetricDecrypts

LEMMA IntactForwards ==
  ASSUME Inv, Intact, KeysEncrypt, NEW c \in Conn, Forward(c)
  PROVE  fate' = [fate EXCEPT ![Head(wire[c]).msg] = "sent"]
<1>1. wire[c] # <<>> /\ ~AsymmetricDecrypts(link[c].to)
  BY DEF Forward, RealArrives, Arrives
<1>2. 1 \in DOMAIN wire[c]
  BY <1>1, BehindType DEF Inv, Carried
<1>3. link[c] # None
  BY <1>2 DEF Inv, Carried, OwnKeys, Own
<1>4. PICK n \in Node : n = link[c].to
  BY <1>3 DEF Inv, Shape, OverlayTypeOK, Link
<1>5. n # Proxy
  BY <1>1, <1>4 DEF AsymmetricDecrypts, Intact
<1>6. PICK p : p = link[c].forward
  OBVIOUS
<1>7. p.conn # None /\ Forwards(n, p)
  BY <1>3, <1>4, <1>5, <1>6 DEF Inv, Shape, Ties, OwnAtProxy
<1>8. ConnOf(n, p.conn)
  BY <1>7 DEF Forwards
<1>9. open[n] = p.conn /\ p.conn \in Conn /\ link[p.conn].sender = "on"
      /\ link[p.conn].handler = "on"
  BY <1>8, IntactPath
<1>10. p.conn # None /\ SymKey[p.conn] \in UsableKeys /\ IsOpen(open[n])
  BY <1>9, Kinds DEF KeysEncrypt, IsOpen
<1>11. Sent(open[n], Head(wire[c]).msg)
  BY <1>4, <1>6, <1>10 DEF Forward
<1> QED BY <1>9, <1>11 DEF Sent

(* Publish, Forward and handleRealMessage: with one open connection for     *)
(* each node of the tree and keys of full length, no step makes a message  *)
(* that was accepted disappear before the proxy has given it to its        *)
(* storage.                                                                *)
THEOREM IntactLosesNothingCorrect == Spec => IntactLosesNothing
<1> DEFINE Safe == \A m \in Msg : fate'[m] \in {fate[m], "sent", "stored", "notStored"}
<1>1. ASSUME Inv, Inv', [Next]_vars, KeysEncrypt, Intact, Intact' PROVE Safe
  <2>1. fate \in [Msg -> Fates] /\ \A m \in Msg : fate'[m] # "ignored"
    BY <1>1 DEF Inv, Carried, TypeOK, NothingIgnored
  <2>2. CASE fate' = fate
    BY <2>2
  <2>3. ASSUME NEW k, NEW f \in {"sent", "stored", "notStored", "ignored"},
               fate' = [fate EXCEPT ![k] = f]
        PROVE  Safe
    BY <2>1, <2>3
  <2>4. CASE LosesClosed
    <3>1. \A c \in Conn : ~Closed(c)'
      BY <1>1 DEF Intact, Closed
    <3> QED BY <2>1, <2>2, <2>4, <3>1 DEF LosesClosed
  <2>5. ASSUME NEW n \in Node, NEW m \in Msg, PublishSends(n, m) PROVE Safe
    <3>1. ConnOf(n, open[n])
      BY <1>1, <2>5 DEF PublishSends, IsOpen, Inv, Shape
    <3>2. link[open[n]].handler = "on"
      BY <1>1, <3>1, IntactPath
    <3> QED BY <2>3, <2>5, <3>2 DEF PublishSends, Sent
  <2>6. ASSUME NEW c \in Conn, Handle(c) PROVE Safe
    <3>1. ~Unreadable(c)
      BY <1>1, IntactReads DEF Unreadable, Arrives
    <3>2. CASE DiscardCover(c)
      BY <2>2, <3>2 DEF DiscardCover
    <3>3. CASE Forward(c)
      BY <1>1, <2>3, <3>3, IntactForwards
    <3>4. ASSUME NEW result \in {"stored", "notStored"}, StoreReal(c, result) PROVE Safe
      BY <2>3, <3>4 DEF StoreReal
    <3> QED BY <2>6, <3>1, <3>2, <3>3, <3>4 DEF Handle
  <2>7. CASE UNCHANGED vars
    BY <2>2, <2>7 DEF vars
  <2>8. ASSUME NEW c \in Conn, SendCover(c) PROVE Safe
    BY <2>2, <2>8 DEF SendCover
  <2>9. ASSUME NEW n \in Node, NEW m \in Msg, PublishStores(n, m) PROVE Safe
    BY <2>3, <2>9 DEF PublishStores
  <2> QED BY <1>1, <2>4, <2>5, <2>6, <2>7, <2>8, <2>9 DEF Next
<1> HIDE DEF Safe
<1>2. Inv /\ Inv' /\ [Next]_vars => [KeysEncrypt /\ Intact /\ Intact' => Safe]_vars
  BY <1>1
<1>3. Spec => [][KeysEncrypt /\ Intact /\ Intact' => Safe]_vars
  BY <1>2, InvCorrect, PTL DEF Spec
<1> QED BY <1>3 DEF IntactLosesNothing, Safe

-----------------------------------------------------------------------------
(* Relay implements Delivery. *)

LEMMA InitPromised == Init => Promised!Init
  BY DEF Init, Promised!Init

LEMMA HeadSent ==
  ASSUME Inv, NEW c \in Conn, wire[c] # <<>>, NEW m \in Msg, m = Head(wire[c]).msg
  PROVE  fate[m] = "sent"
  BY BehindType, Single DEF Inv, Carried, On

(* The head of a connection is settled, or is no message. *)
LEMMA TakesPromised ==
  ASSUME Inv, NEW c \in Conn, wire[c] # <<>>, NEW f \in Fates \ {"unsent", "sent"},
         fate' \in {fate, [fate EXCEPT ![Head(wire[c]).msg] = f]}
  PROVE  Promised!Next \/ UNCHANGED Promised!vars
<1> DEFINE m == Head(wire[c]).msg
<1>1. fate \in [Msg -> Fates]
  BY DEF Inv, Carried, TypeOK
<1>2. CASE fate' = fate \/ m \notin Msg
  BY <1>1, <1>2 DEF Promised!vars
<1>3. CASE fate' = [fate EXCEPT ![m] = f] /\ m \in Msg
  <2>1. fate[m] = "sent"
    BY <1>3, HeadSent
  <2>2. \A k \in Msg : fate'[k] = IF k = m THEN f ELSE fate[k]
    BY <1>1, <1>3
  <2>3. f \notin {"unsent", "sent"}
    OBVIOUS
  <2> HIDE DEF m
  <2>4. CASE f = "stored"
    <3> QED BY <1>3, <2>1, <2>2, <2>4 DEF Promised!Next, Promised!Store
  <2>5. CASE f # "stored"
    <3>1. Promised!GiveUp({m})
      BY <1>3, <2>1, <2>2, <2>3, <2>5 DEF Promised!GiveUp
    <3>2. {m} \in SUBSET Msg
      BY <1>3
    <3> QED BY <3>1, <3>2 DEF Promised!Next, Promised!GiveUp
  <2> QED BY <2>4, <2>5
<1> QED BY <1>2, <1>3

LEMMA PublishPromised ==
  ASSUME Inv, NEW m \in Msg, fate[m] = "unsent", NEW f \in {"stored", "sent", "lost"},
         fate' = [fate EXCEPT ![m] = f]
  PROVE  Promised!Next
<1>1. \A k \in Msg : fate'[k] = IF k = m THEN f ELSE fate[k]
  BY DEF Inv, Carried, TypeOK
<1>2. CASE f = "sent"
  BY <1>1, <1>2 DEF Promised!Next, Promised!Accept
<1>3. CASE f # "sent"
  BY <1>1, <1>3 DEF Promised!Next, Promised!AcceptAndSettle
<1> QED BY <1>2, <1>3

LEMMA LosesPromised ==
  ASSUME Inv, LosesClosed PROVE Promised!Next
<1> DEFINE gone == {m \in Msg : \E c \in Conn : Closed(c)' /\ m \in OnWire(c)}
<1>1. \A m \in Msg : fate'[m] = IF m \in gone THEN "lost" ELSE fate[m]
  BY DEF LosesClosed
<1>2. \A m \in gone : fate[m] = "sent"
  BY Single DEF Inv, Carried, On, OnWire
<1>3. gone \in SUBSET Msg
  OBVIOUS
<1> HIDE DEF gone
<1>4. Promised!GiveUp(gone)
  BY <1>1, <1>2, <1>3 DEF Promised!GiveUp
<1> QED BY <1>3, <1>4 DEF Promised!Next, Promised!GiveUp

LEMMA NextPromised == Inv /\ [Next]_vars => [Promised!Next]_(Promised!vars)
<1> SUFFICES ASSUME Inv, [Next]_vars PROVE Promised!Next \/ UNCHANGED Promised!vars
  BY DEF Promised!vars
<1>1. CASE UNCHANGED vars
  BY <1>1 DEF vars, Promised!vars
<1>2. CASE OverlayNext /\ LosesClosed
  BY <1>2, LosesPromised
<1>3. ASSUME NEW c \in Conn, SendCover(c) PROVE UNCHANGED Promised!vars
  BY <1>3 DEF SendCover, Promised!vars
<1>4. ASSUME NEW n \in Node, NEW m \in Msg, PublishStores(n, m) \/ PublishSends(n, m)
      PROVE  Promised!Next
  BY <1>4, PublishPromised DEF PublishStores, PublishSends, Sent
<1>5. ASSUME NEW c \in Conn, Handle(c) PROVE Promised!Next \/ UNCHANGED Promised!vars
  <2>1. wire[c] # <<>>
    BY <1>5 DEF Handle, Unreadable, DiscardCover, StoreReal, Forward, RealArrives, Arrives
  <2>2. CASE Unreadable(c)
    BY <2>1, <2>2, TakesPromised DEF Unreadable, Fates
  <2>3. CASE DiscardCover(c)
    BY <2>3 DEF DiscardCover, Promised!vars
  <2>4. ASSUME NEW result \in {"stored", "notStored"}, StoreReal(c, result)
        PROVE  Promised!Next \/ UNCHANGED Promised!vars
    <3>1. \E f \in {"stored", "notStored", "ignored"} : fate' = [fate EXCEPT ![Head(wire[c]).msg] = f]
      BY <2>4 DEF StoreReal
    <3> QED BY <2>1, <3>1, TakesPromised DEF Fates
  <2>5. CASE Forward(c)
    <3>1. \E f \in {"lost", "sent"} : fate' = [fate EXCEPT ![Head(wire[c]).msg] = f]
      BY <2>5 DEF Forward, Sent
    <3>2. CASE fate' = [fate EXCEPT ![Head(wire[c]).msg] = "sent"]
      <4>1. fate' = fate
        BY <2>1, <3>2, HeadSent DEF Inv, Carried, TypeOK
      <4> QED BY <4>1 DEF Promised!vars
    <3> QED BY <2>1, <3>1, <3>2, TakesPromised DEF Fates
  <2> QED BY <1>5, <2>2, <2>3, <2>4, <2>5 DEF Handle
<1> QED
  BY <1>1, <1>2, <1>3, <1>4, <1>5 DEF Next

(* Whatever the nodes do, a message that Publish has accepted is stored or  *)
(* given up at most once, and that is never revised.                       *)
THEOREM DeliveryCorrect == Spec => ImplementsDelivery
  BY InitPromised, InvCorrect, NextPromised, PTL DEF Spec, ImplementsDelivery, Promised!Spec
=============================================================================

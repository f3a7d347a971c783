---------------------------- MODULE OverlayProofs ----------------------------
(***************************************************************************)
(* Proofs about Overlay for every set of nodes, connections and keys, any  *)
(* number of covers, and any restarts.                                     *)
(*                                                                         *)
(* LinkStep says what a step does to connections, TableStep what it does to *)
(* the tables of each node; the invariants rest on the two.                *)
(* Shape says what profiles, tasks, reports and connections look like: a   *)
(* node's connections are its own and lead to the next hop of their path.  *)
(* Members says that only nodes that have been in the tree are named in    *)
(* it.  Ranked is the reason why next hops make no loop: the nodes can be  *)
(* numbered so that whatever a node has for a next or next-next hop, has   *)
(* read, is about to write back, or will connect to, has a smaller number. *)
(* ProxyLasts says that the proxy's own path stays until it restarts,      *)
(* Older that a connection's worker was started with the path of an older  *)
(* one, Ties that a node's only connection, while it has a worker, is its  *)
(* path.                                                                   *)
(***************************************************************************)
EXTENDS Overlay, KeyExchangeProofs, FiniteSetTheorems

(* handleConnectPathReq, ConnectPath, CreateProxy (node.go, handlers_tcp.go): *)
(* the keys at the two ends of a connection are the same.                  *)
THEOREM SameKeys == \A c \in Conn : SymKey[c] = SecretKey[c]
<1> SUFFICES ASSUME NEW c \in Conn PROVE SymKey[c] = SecretKey[c]
  OBVIOUS
<1>1. PICK x \in [g : Nat, p : Nat \ {0}, mine : Nat, theirs : Nat] : x = Exchange[c]
  BY OverlayAssumption
<1>2. PICK request : request = NewKeyExchange(x.g, x.p, x.mine)
  OBVIOUS
<1>3. Request(c) = request /\ Answer(c) = GenerateReturn(request, x.theirs)
  BY <1>1, <1>2 DEF Request, Answer
<1>4. SymKey[c] = GetSymKey(GenerateReturn(request, x.theirs), x.mine)
  BY <1>1, <1>3 DEF SymKey
<1>5. SecretKey[c] = GetSymKey(request, x.theirs)
  BY <1>1, <1>3 DEF SecretKey
<1>6. x.g \in Nat /\ x.p \in Nat \ {0} /\ x.mine \in Nat /\ x.theirs \in Nat
  OBVIOUS
<1> QED BY <1>2, <1>4, <1>5, <1>6, EndsAgree

-----------------------------------------------------------------------------
(* What the proofs say of profiles, tasks and connections *)

RelayPath == [next : Node, next2 : Node \cup {ImmutableStorage}, conn : Conn]

ConnOf(n, c) == c \in Conn /\ link[c] # None /\ link[c].from = n
Leads(n, p) == p \in RelayPath /\ ConnOf(n, p.conn) /\ link[p.conn].to = p.next
Held(n, p) == p = OwnPath \/ Leads(n, p)
Forwards(m, f) == f.conn = None \/ ConnOf(m, f.conn)

Asking == {"verify", "connect", "asked"}

TaskOf(n, t) ==
    /\ t \in Task
    /\ t.conn = None \/ ConnOf(n, t.conn)
    /\ t.old = None \/ (t.old \in RelayPath /\ t.old.next2 \in Node)
    /\ t.stage \in Asking => t.offer # None
    /\ t.stage \in {"moveUp", "query"} => t.old # None

(* The answer a node waits for is that of the peer it has asked. *)
Answered(n) ==
    /\ admitted[n] # None =>
          /\ task[n].stage = "asked" => admitted[n].to = task[n].offer.next
          /\ \A c \in Conn : ~Waits(n, c)
    /\ \A c \in Conn : Waits(n, c) =>
          /\ task[n].stage = "asked" /\ link[c].to = task[n].offer.next
          /\ \A d \in Conn : Waits(n, d) => c = d

Shape ==
    /\ OverlayTypeOK
    /\ \A n \in Node :
          /\ path[n] = None \/ Held(n, path[n])
          /\ open[n] = None \/ ConnOf(n, open[n])
          /\ TaskOf(n, task[n])
          /\ report[n] = None \/ Leads(n, report[n].profile)
          /\ \/ admitted[n] = None \/ admitted[n].forward = None
             \/ Forwards(admitted[n].to, admitted[n].forward)
          /\ Answered(n)
    /\ \A c \in Conn : link[c] # None => Forwards(link[c].to, link[c].forward)

-----------------------------------------------------------------------------
LEMMA Kinds ==
  /\ OwnPath \in Profile /\ RelayPath \subseteq Profile /\ OwnPath \notin RelayPath
  /\ None \notin Profile /\ None \notin Link /\ None \notin Offer
  /\ None \notin Route /\ None \notin Admission /\ None \notin Report
  /\ Idle \in Task /\ Idle.stage = "idle" /\ Idle.conn = None /\ Idle.old = None
  /\ None \notin Node /\ None \notin Conn /\ ImmutableStorage \notin Node
  /\ ImmutableStorage # None /\ Proxy \in Node
  /\ OwnPath.conn = None /\ OwnPath.next = ImmutableStorage /\ OwnPath.next2 = None
<1>1. OwnPath \in Profile /\ RelayPath \subseteq Profile /\ OwnPath \notin RelayPath
  BY OverlayAssumption DEF OwnPath, Profile, RelayPath
<1>2. Idle \in Task /\ Idle.stage = "idle" /\ Idle.conn = None /\ Idle.old = None
  BY DEF Idle, TaskAt, Task, TaskStage
<1> QED
  BY <1>1, <1>2, OverlayAssumption DEF OwnPath

(* The parts of a state that a step may change at several nodes at once.   *)
OnNodes(f) == f = [n \in Node |-> f[n]]

(* Of connections a step keeps the ends and the forward path, and it adds   *)
(* none unless a handler inserts its cover.                                *)
Kept ==
    /\ link' \in [Conn -> Link \cup {None}]
    /\ \A c \in Conn :
          link[c] # None =>
            /\ link'[c] # None /\ link'[c].from = link[c].from
            /\ link'[c].to = link[c].to /\ link'[c].forward = link[c].forward
            /\ link[c].sender = "off" => link'[c].sender = "off"
            /\ link'[c].sender = "asked" => link[c].sender = "asked"

OpensNone == \A c \in Conn : link[c] = None => link'[c] = None
Inserts == \E n \in Node, c \in Conn : Insert(n, c)

LEMMA ConnStays ==
  ASSUME Kept, NEW n, NEW c, ConnOf(n, c)
  PROVE  ConnOf(n, c)'
  BY DEF Kept, ConnOf

LEMMA LeadsStays ==
  ASSUME Kept, NEW n, NEW p, Leads(n, p)
  PROVE  Leads(n, p)'
  BY DEF Kept, Leads, ConnOf

LEMMA HeldStays ==
  ASSUME Kept, NEW n, NEW p, Held(n, p)
  PROVE  Held(n, p)'
  BY LeadsStays DEF Held

LEMMA ForwardsStays ==
  ASSUME Kept, NEW m, NEW f, Forwards(m, f)
  PROVE  Forwards(m, f)'
  BY ConnStays DEF Forwards

LEMMA TaskStays ==
  ASSUME Kept, NEW n, NEW t, TaskOf(n, t)
  PROVE  TaskOf(n, t)'
  BY ConnStays DEF TaskOf

-----------------------------------------------------------------------------
(* What a step does to connections *)

LEMMA Canceled ==
  ASSUME NEW n, NEW links \in [Conn -> Link \cup {None}],
         \A c \in CoversOf(n) : links[c] # None
  PROVE  /\ CoversCanceled(n, links) \in [Conn -> Link \cup {None}]
         /\ \A c \in Conn :
               LET l == CoversCanceled(n, links)[c] IN
               IF links[c] = None THEN l = None
               ELSE /\ l # None /\ l.from = links[c].from /\ l.to = links[c].to
                    /\ l.forward = links[c].forward /\ l.sender = links[c].sender
<1> DEFINE hit(c) == c \in CoversOf(n) /\ links[c].handler = "on"
           off(c) == [links[c] EXCEPT !.handler = "canceled"]
<1>1. ASSUME NEW c \in Conn, hit(c)
      PROVE  /\ links[c] # None /\ off(c) \in Link
             /\ off(c).from = links[c].from /\ off(c).to = links[c].to
             /\ off(c).forward = links[c].forward /\ off(c).sender = links[c].sender
  BY <1>1 DEF Link, Stage
<1>2. CoversCanceled(n, links) = [c \in Conn |-> IF hit(c) THEN off(c) ELSE links[c]]
  BY DEF CoversCanceled
<1> HIDE DEF hit, off
<1> QED
  BY <1>1, <1>2, Kinds

LEMMA UnheardLinks ==
  ASSUME OverlayTypeOK, NEW n
  PROVE  /\ Unheard(n) \in [Conn -> Link \cup {None}]
         /\ \A c \in Conn :
               LET l == Unheard(n)[c] IN
               IF link[c] = None THEN l = None
               ELSE /\ l # None /\ l.from = link[c].from /\ l.to = link[c].to
                    /\ l.forward = link[c].forward
                    /\ l.sender = IF Waits(n, c) THEN "off" ELSE link[c].sender
<1> DEFINE off(c) == [link[c] EXCEPT !.sender = "off"]
<1>1. ASSUME NEW c \in Conn, link[c] # None
      PROVE  /\ off(c) \in Link /\ off(c).from = link[c].from /\ off(c).to = link[c].to
             /\ off(c).forward = link[c].forward /\ off(c).sender = "off"
  BY <1>1 DEF OverlayTypeOK, Link, Stage
<1>2. Unheard(n) = [c \in Conn |-> IF Waits(n, c) THEN off(c) ELSE link[c]]
  BY DEF Unheard
<1> HIDE DEF off
<1> QED
  BY <1>1, <1>2, Kinds DEF OverlayTypeOK, Waits

(* A connection of which one end changes. *)
LEMMA OneLink ==
  ASSUME OverlayTypeOK, NEW c \in Conn, link[c] # None, NEW s \in Stage, NEW h \in Stage,
         link' = [link EXCEPT ![c] = [link[c] EXCEPT !.sender = s, !.handler = h]],
         link[c].sender = "off" => s = "off",
         s = "asked" => link[c].sender = "asked"
  PROVE  Kept /\ OpensNone
<1>1. PICK l : l = [link[c] EXCEPT !.sender = s, !.handler = h]
  OBVIOUS
<1>2. /\ l \in Link /\ l # None /\ l.from = link[c].from /\ l.to = link[c].to
      /\ l.forward = link[c].forward /\ l.sender = s
  <2>1. link[c] \in Link
    BY DEF OverlayTypeOK
  <2> QED BY <1>1, <2>1, Kinds DEF Link
<1>3. link' \in [Conn -> Link \cup {None}] /\ \A d \in Conn : link'[d] = IF d = c THEN l ELSE link[d]
  BY <1>1, <1>2 DEF OverlayTypeOK
<1> QED
  BY <1>2, <1>3 DEF Kept, OpensNone

LEMMA SameLinks ==
  ASSUME OverlayTypeOK, link' = link PROVE Kept /\ OpensNone
  BY DEF OverlayTypeOK, Kept, OpensNone

LEMMA CancelSenderLinks ==
  ASSUME OverlayTypeOK, NEW c \in Conn, link[c] # None, CancelSender(c)
  PROVE  Kept /\ OpensNone
<1>1. PICK s : s = IF link[c].sender = "on" THEN "canceled" ELSE link[c].sender
  OBVIOUS
<1>2. PICK h : h = link[c].handler
  OBVIOUS
<1>3. link[c] \in Link /\ s \in Stage /\ h \in Stage
  BY <1>1, <1>2 DEF OverlayTypeOK, Link, Stage
<1>4. link' = [link EXCEPT ![c] = [link[c] EXCEPT !.sender = s]]
  BY <1>1 DEF CancelSender, OverlayTypeOK
<1>5. [link[c] EXCEPT !.sender = s] = [link[c] EXCEPT !.sender = s, !.handler = h]
  BY <1>2, <1>3 DEF Link
<1>6. link' = [link EXCEPT ![c] = [link[c] EXCEPT !.sender = s, !.handler = h]]
  BY <1>4, <1>5
<1>7. (link[c].sender = "off" => s = "off") /\ (s = "asked" => link[c].sender = "asked")
  BY <1>1
<1> QED
  BY <1>3, <1>6, <1>7, OneLink

LEMMA FailLinks ==
  ASSUME OverlayTypeOK, NEW n \in Node, Fail(n)
  PROVE  Kept /\ OpensNone /\ \A c \in Conn : ~Waits(n, c)'
<1>1. PICK links : links = Unheard(n)
  OBVIOUS
<1>2. /\ links \in [Conn -> Link \cup {None}]
      /\ \A c \in Conn :
            IF link[c] = None THEN links[c] = None
            ELSE /\ links[c] # None /\ links[c].from = link[c].from /\ links[c].to = link[c].to
                 /\ links[c].forward = link[c].forward
                 /\ links[c].sender = IF Waits(n, c) THEN "off" ELSE link[c].sender
  BY <1>1, UnheardLinks
<1>3. \A c \in CoversOf(n) : links[c] # None
  BY <1>2 DEF CoversOf
<1>4. link' = links \/ link' = CoversCanceled(n, links)
  BY <1>1 DEF Fail
<1>5. /\ link' \in [Conn -> Link \cup {None}]
      /\ \A c \in Conn :
            IF links[c] = None THEN link'[c] = None
            ELSE /\ link'[c] # None /\ link'[c].from = links[c].from
                 /\ link'[c].to = links[c].to /\ link'[c].forward = links[c].forward
                 /\ link'[c].sender = links[c].sender
  BY <1>2, <1>3, <1>4, Canceled
<1>6. Kept /\ OpensNone
  BY <1>2, <1>5 DEF Kept, OpensNone
<1>7. ASSUME NEW c \in Conn PROVE ~Waits(n, c)'
  BY <1>2, <1>5 DEF Waits
<1> QED BY <1>6, <1>7

LEMMA MoveUpFailsLinks ==
  ASSUME OverlayTypeOK, NEW n \in Node, MoveUpFails(n)
  PROVE  Kept /\ OpensNone
<1>1. \A c \in CoversOf(n) : link[c] # None
  BY DEF CoversOf
<1>2. link' = CoversCanceled(n, link) /\ link \in [Conn -> Link \cup {None}]
  BY DEF MoveUpFails, OverlayTypeOK
<1>3. PICK links : links = link
  OBVIOUS
<1>4. /\ link' \in [Conn -> Link \cup {None}]
      /\ \A c \in Conn :
            IF links[c] = None THEN link'[c] = None
            ELSE /\ link'[c] # None /\ link'[c].from = links[c].from
                 /\ link'[c].to = links[c].to /\ link'[c].forward = links[c].forward
                 /\ link'[c].sender = links[c].sender
  BY <1>1, <1>2, <1>3, Canceled
<1> QED BY <1>3, <1>4 DEF Kept, OpensNone

LEMMA RestartLinks ==
  ASSUME OverlayTypeOK, NEW n \in Node, Restart(n)
  PROVE  /\ Kept /\ OpensNone
         /\ \A c \in Conn : link[c] # None /\ link[c].from = n => link'[c].sender = "off"
<1> DEFINE from(c) == IF link[c].from = n THEN "off" ELSE link[c].sender
           to(c) == IF link[c].to = n THEN "off" ELSE link[c].handler
           ended(c) == [link[c] EXCEPT !.sender = from(c), !.handler = to(c)]
<1>1. ASSUME NEW c \in Conn, link[c] # None
      PROVE  /\ ended(c) \in Link /\ ended(c) # None /\ ended(c).from = link[c].from
             /\ ended(c).to = link[c].to /\ ended(c).forward = link[c].forward
             /\ ended(c).sender = from(c)
  <2>1. link[c] \in Link
    BY <1>1 DEF OverlayTypeOK
  <2>2. from(c) \in Stage /\ to(c) \in Stage
    BY <2>1 DEF Link, Stage
  <2> HIDE DEF from, to
  <2> QED BY <2>1, <2>2, Kinds DEF Link
<1>2. link' = [c \in Conn |-> IF link[c] = None THEN None ELSE ended(c)]
  BY DEF Restart
<1>3. \A c \in Conn : from(c) = IF link[c].from = n THEN "off" ELSE link[c].sender
  OBVIOUS
<1> HIDE DEF ended, from
<1>4. link' \in [Conn -> Link \cup {None}]
  BY <1>1, <1>2
<1>5. ASSUME NEW c \in Conn
      PROVE  IF link[c] = None THEN link'[c] = None
             ELSE /\ link'[c] # None /\ link'[c].from = link[c].from
                  /\ link'[c].to = link[c].to /\ link'[c].forward = link[c].forward
                  /\ link'[c].sender = IF link[c].from = n THEN "off" ELSE link[c].sender
  BY <1>1, <1>2, <1>3
<1> QED
  BY <1>4, <1>5 DEF Kept, OpensNone

LEMMA InsertLinks ==
  ASSUME Shape, NEW n \in Node, NEW c \in Conn, Insert(n, c)
  PROVE  /\ Kept /\ link[c] = None
         /\ link'[c] # None /\ link'[c].from = n /\ link'[c].to = admitted[n].to
         /\ link'[c].forward = admitted[n].forward
         /\ link'[c].sender = IF task[n].stage = "asked" THEN "asked" ELSE "off"
         /\ \A d \in Conn : d # c => link'[d] = link[d]
<1>1. OverlayTypeOK
  BY DEF Shape
<1>2. PICK s : s = IF task[n].stage = "asked" THEN "asked" ELSE "off"
  OBVIOUS
<1>3. PICK l : l = [from |-> n, to |-> admitted[n].to, forward |-> admitted[n].forward,
                    sender |-> s, handler |-> "on"]
  OBVIOUS
<1>4. admitted[n] \in Admission /\ admitted[n].forward # None
  BY <1>1 DEF OverlayTypeOK, Insert
<1>5. s \in Stage /\ "on" \in Stage
  BY <1>2 DEF Stage
<1>6. l \in Link /\ l # None
  BY <1>3, <1>4, <1>5, Kinds DEF Admission, Link
<1>7. link' = [link EXCEPT ![c] = l] /\ link[c] = None
  BY <1>2, <1>3 DEF Insert, IsNext
<1>8. link' \in [Conn -> Link \cup {None}] /\ \A d \in Conn : link'[d] = IF d = c THEN l ELSE link[d]
  BY <1>1, <1>6, <1>7 DEF OverlayTypeOK
<1> QED
  BY <1>2, <1>3, <1>6, <1>7, <1>8 DEF Kept

(* The worker of a path, or of a profile that was read, is cancelled. *)
LEMMA CancelHeld ==
  ASSUME Shape, NEW n \in Node,
         \/ HasRelayPath(n) /\ CancelSender(path[n].conn)
         \/ report[n] # None /\ CancelSender(report[n].profile.conn)
  PROVE  Kept /\ OpensNone
<1>1. PICK c : /\ CancelSender(c)
               /\ \/ HasRelayPath(n) /\ c = path[n].conn
                  \/ report[n] # None /\ c = report[n].profile.conn
  OBVIOUS
<1>2. c \in Conn /\ link[c] # None
  BY <1>1, Kinds DEF Shape, Held, Leads, ConnOf, HasRelayPath
<1> QED
  BY <1>1, <1>2, CancelSenderLinks DEF Shape

LEMMA LinkStep ==
  ASSUME Shape, [OverlayNext]_overlayVars PROVE Kept /\ (OpensNone \/ Inserts)
<1>1. OverlayTypeOK
  BY DEF Shape
<1>2. CASE link' = link
  BY <1>1, <1>2, SameLinks
<1>3. CASE UNCHANGED overlayVars \/ OpenTree
  BY <1>2, <1>3 DEF overlayVars, OpenTree
<1>4. ASSUME NEW n \in Node, TaskStarts(n) PROVE link' = link
  BY <1>4 DEF TaskStarts, AskProxy, Query, QueryInVain
<1>5. ASSUME NEW n \in Node, NEW c \in Conn, Accepted(n, c) PROVE Kept /\ OpensNone
  <2>1. PICK s : s = "on"
    OBVIOUS
  <2>2. PICK h : h = link[c].handler
    OBVIOUS
  <2>3. link[c] \in Link /\ link[c].sender = "asked" /\ s \in Stage /\ h \in Stage
    BY <1>1, <1>5, <2>1, <2>2 DEF OverlayTypeOK, Accepted, Waits, Link, Stage
  <2>4. [link[c] EXCEPT !.sender = s] = [link[c] EXCEPT !.sender = s, !.handler = h]
    BY <2>2, <2>3 DEF Link
  <2>5. link' = [link EXCEPT ![c] = [link[c] EXCEPT !.sender = s]]
    BY <1>1, <1>5, <2>1 DEF Accepted, OverlayTypeOK
  <2>6. link' = [link EXCEPT ![c] = [link[c] EXCEPT !.sender = s, !.handler = h]]
    BY <2>4, <2>5
  <2>7. link[c] # None
    BY <1>5 DEF Accepted, Waits
  <2> QED BY <1>1, <2>1, <2>3, <2>6, <2>7, OneLink
<1>6. ASSUME NEW n \in Node, TaskGoesOn(n) PROVE Kept /\ OpensNone
  <2>1. CASE Fail(n)
    BY <1>1, <2>1, FailLinks
  <2>2. CASE MoveUpFails(n)
    BY <1>1, <2>2, MoveUpFailsLinks
  <2>3. CASE \/ Verify(n) \/ NotVerified(n) \/ CheckCovers(n) \/ SetOpen(n)
             \/ MoveUpVerifies(n) \/ MoveUpGivesUp(n) \/ MoveUpQuery(n)
    <3>1. link' = link
      BY <2>3 DEF Verify, NotVerified, CheckCovers, SetOpen, MoveUpVerifies, MoveUpGivesUp,
         MoveUpQuery
    <3> QED BY <1>1, <3>1, SameLinks
  <2> QED BY <1>5, <1>6, <2>1, <2>2, <2>3 DEF TaskGoesOn
<1>7. ASSUME NEW n \in Node, Answers(n) PROVE Kept /\ (OpensNone \/ Inserts)
  <2>1. CASE CheckPath(n)
    BY <1>1, <2>1, SameLinks DEF CheckPath
  <2>2. ASSUME NEW c \in Conn, Insert(n, c) PROVE Kept /\ Inserts
    BY <2>2, InsertLinks DEF Inserts
  <2> QED BY <1>7, <2>1, <2>2 DEF Answers
<1>8. ASSUME NEW n \in Node, HealthStep(n) PROVE Kept /\ OpensNone
  <2>1. CASE FindAbandoned(n) \/ FindUnanswered(n) \/ FindChanged(n) \/ FixPath(n)
    <3>1. link' = link
      BY <2>1 DEF FindAbandoned, FindUnanswered, FindChanged, Reports, FixPath
    <3> QED BY <1>1, <3>1, SameLinks
  <2>2. CASE Blacklist(n) \/ CleanPath(n)
    <3>1. \/ HasRelayPath(n) /\ CancelSender(path[n].conn)
          \/ report[n] # None /\ CancelSender(report[n].profile.conn)
      BY <2>2 DEF Blacklist, CleanPath
    <3> QED BY <3>1, CancelHeld
  <2> QED BY <1>8, <2>1, <2>2 DEF HealthStep
<1>9. ASSUME NEW n \in Node, Restart(n) PROVE Kept /\ OpensNone
  BY <1>1, <1>9, RestartLinks
<1>10. ASSUME NEW c \in Conn, SenderEnds(c) \/ HandlerEnds(c) PROVE Kept /\ OpensNone
  <2>1. PICK s : s = IF SenderEnds(c) THEN "off" ELSE link[c].sender
    OBVIOUS
  <2>2. PICK h : h = IF SenderEnds(c) THEN link[c].handler ELSE "off"
    OBVIOUS
  <2>3. link[c] \in Link /\ link[c] # None
    BY <1>1, <1>10 DEF OverlayTypeOK, SenderEnds, HandlerEnds
  <2>4. s \in Stage /\ h \in Stage
    BY <2>1, <2>2, <2>3 DEF Link, Stage
  <2>5. link' = [link EXCEPT ![c] = IF SenderEnds(c) THEN [link[c] EXCEPT !.sender = "off"]
                                    ELSE [link[c] EXCEPT !.handler = "off"]]
    <3>1. SenderEnds(c) => link' = [link EXCEPT ![c] = [link[c] EXCEPT !.sender = "off"]]
      BY <1>1 DEF SenderEnds, OverlayTypeOK
    <3>2. HandlerEnds(c) => link' = [link EXCEPT ![c] = [link[c] EXCEPT !.handler = "off"]]
      BY <1>1 DEF HandlerEnds, OverlayTypeOK
    <3> QED BY <1>10, <3>1, <3>2
  <2>6. (IF SenderEnds(c) THEN [link[c] EXCEPT !.sender = "off"]
         ELSE [link[c] EXCEPT !.handler = "off"])
            = [link[c] EXCEPT !.sender = s, !.handler = h]
    BY <2>1, <2>2, <2>3 DEF Link
  <2>7. (link[c].sender = "off" => s = "off") /\ (s = "asked" => link[c].sender = "asked")
    BY <2>1
  <2>8. link' = [link EXCEPT ![c] = [link[c] EXCEPT !.sender = s, !.handler = h]]
    BY <2>5, <2>6
  <2> QED BY <1>1, <2>3, <2>4, <2>7, <2>8, OneLink
<1> QED
  BY <1>3, <1>2, <1>4, <1>6, <1>7, <1>8, <1>9, <1>10 DEF OverlayNext

-----------------------------------------------------------------------------
(* What a step does to the tables of a node *)

TreeOpens == OpenTree \/ \E n \in Node : AskProxy(n)

PathMoves(n) ==
    \/ path'[n] \in {path[n], None}
    \/ TreeOpens /\ n = Proxy /\ path'[n] = OwnPath
    \/ FixPath(n)
    \/ \E c \in Conn : Accepted(n, c)

OpenMoves(n) == open'[n] \in {open[n], None} \/ SetOpen(n)

TaskMoves(n) ==
    \/ task'[n] = task[n]
    \/ task'[n] = Idle /\ \A c \in Conn : ~Waits(n, c)'
    \/ AskProxy(n) \/ \E m \in Node : Query(n, m) \/ QueryInVain(n, m)
    \/ Verify(n) \/ NotVerified(n) \/ CheckCovers(n)
    \/ \E c \in Conn : Accepted(n, c)
    \/ Blacklist(n) \/ MoveUpVerifies(n) \/ MoveUpQuery(n)

Finds(n) == FindAbandoned(n) \/ FindUnanswered(n) \/ FindChanged(n)
ReportMoves(n) == report'[n] \in {report[n], None} \/ Finds(n)

AdmittedMoves(n) ==
    \/ admitted'[n] \in {admitted[n], None}
    \/ AskProxy(n) \/ CheckCovers(n) \/ CheckPath(n)

HistoryMoves ==
    /\ \/ member' = member
       \/ TreeOpens /\ member' = {Proxy} /\ Proxy \notin member
       \/ \E n \in Node, c \in Conn : Accepted(n, c) /\ member' = member \cup {n}
    /\ rejoined \subseteq rejoined' /\ rejoined' \subseteq Node
    /\ restarted \subseteq restarted' /\ restarted' \subseteq Node

TablesMove ==
    /\ OnNodes(path') /\ OnNodes(open') /\ OnNodes(task') /\ OnNodes(report')
    /\ OnNodes(admitted')
    /\ \A n \in Node :
          PathMoves(n) /\ OpenMoves(n) /\ TaskMoves(n) /\ ReportMoves(n) /\ AdmittedMoves(n)
    /\ HistoryMoves

(* A function that changes at one node, if at all. *)
AtOnly(n, f, g) == g = f \/ g = [f EXCEPT ![n] = g[n]]

LEMMA AtOnlyMeans ==
  ASSUME NEW f, NEW g, NEW n \in Node, OnNodes(f), AtOnly(n, f, g)
  PROVE  OnNodes(g) /\ \A k \in Node : k # n => g[k] = f[k]
<1>1. CASE g = f
  BY <1>1
<1>2. CASE g = [f EXCEPT ![n] = g[n]]
  <2>1. \A k \in Node : k # n => g[k] = f[k]
    BY <1>2 DEF OnNodes
  <2>2. g = [k \in Node |-> IF k = n THEN g[n] ELSE f[k]]
    BY <1>2 DEF OnNodes
  <2>3. g = [k \in Node |-> g[k]]
    BY <2>1, <2>2
  <2> QED BY <2>1, <2>3 DEF OnNodes
<1> QED BY <1>1, <1>2 DEF AtOnly

LEMMA NodeTables ==
  OverlayTypeOK => /\ OnNodes(path) /\ OnNodes(open) /\ OnNodes(task)
                   /\ OnNodes(report) /\ OnNodes(admitted)
  BY DEF OverlayTypeOK, OnNodes

(* A step of one node. *)
LEMMA OneMoves ==
  ASSUME OverlayTypeOK, NEW n \in Node,
         AtOnly(n, path, path'), AtOnly(n, open, open'), AtOnly(n, task, task'),
         AtOnly(n, report, report'), AtOnly(n, admitted, admitted'),
         PathMoves(n), OpenMoves(n), TaskMoves(n), ReportMoves(n), AdmittedMoves(n),
         HistoryMoves
  PROVE  TablesMove
<1>1. /\ OnNodes(path') /\ OnNodes(open') /\ OnNodes(task') /\ OnNodes(report')
      /\ OnNodes(admitted')
      /\ \A k \in Node : k # n =>
            /\ path'[k] = path[k] /\ open'[k] = open[k] /\ task'[k] = task[k]
            /\ report'[k] = report[k] /\ admitted'[k] = admitted[k]
  BY NodeTables, AtOnlyMeans
<1>2. ASSUME NEW k \in Node, k # n
      PROVE  PathMoves(k) /\ OpenMoves(k) /\ TaskMoves(k) /\ ReportMoves(k) /\ AdmittedMoves(k)
  BY <1>1, <1>2 DEF PathMoves, OpenMoves, TaskMoves, ReportMoves, AdmittedMoves
<1> QED BY <1>1, <1>2 DEF TablesMove

(* A step of which the history says nothing. *)
LEMMA NoHistory ==
  ASSUME OverlayTypeOK, UNCHANGED <<member, rejoined, restarted>> PROVE HistoryMoves
  BY DEF OverlayTypeOK, HistoryMoves

(* The task of a node that waits for no answer ends. *)
LEMMA IdleMoves ==
  ASSUME Shape, NEW n \in Node, task[n].stage # "asked", Kept, OpensNone, task'[n] = Idle
  PROVE  TaskMoves(n)
<1>1. ASSUME NEW c \in Conn PROVE ~Waits(n, c)'
  <2>1. ~Waits(n, c)
    BY DEF Shape, Answered
  <2> QED BY <2>1 DEF Waits, Kept, OpensNone
<1> QED BY <1>1 DEF TaskMoves

LEMMA StartsMove ==
  ASSUME OverlayTypeOK, NEW n \in Node,
         \/ \E m \in Node : Query(n, m) \/ QueryInVain(n, m)
         \/ Verify(n) \/ NotVerified(n) \/ MoveUpVerifies(n) \/ MoveUpQuery(n)
  PROVE  TablesMove
<1>1. /\ UNCHANGED <<path, open, report, admitted, member, rejoined, restarted>>
      /\ task' = [task EXCEPT ![n] = task'[n]]
  BY DEF OverlayTypeOK, Query, QueryInVain, Verify, NotVerified, MoveUpVerifies, MoveUpQuery, GoFor
<1>2. TaskMoves(n)
  BY DEF TaskMoves
<1>3. PathMoves(n) /\ OpenMoves(n) /\ ReportMoves(n) /\ AdmittedMoves(n) /\ HistoryMoves
  BY <1>1, NoHistory DEF PathMoves, OpenMoves, ReportMoves, AdmittedMoves
<1> QED
  BY <1>1, <1>2, <1>3, OneMoves DEF AtOnly

LEMMA AdmissionMoves ==
  ASSUME OverlayTypeOK, NEW n \in Node,
         CheckCovers(n) \/ CheckPath(n) \/ \E c \in Conn : Insert(n, c)
  PROVE  TablesMove
<1>1. /\ UNCHANGED <<path, open, report, member, rejoined, restarted>>
      /\ admitted' = [admitted EXCEPT ![n] = admitted'[n]]
      /\ task' = task \/ task' = [task EXCEPT ![n] = task'[n]]
  BY DEF OverlayTypeOK, CheckCovers, CheckPath, Insert
<1>2. TaskMoves(n)
  BY DEF TaskMoves, CheckPath, Insert
<1>3. AdmittedMoves(n)
  BY DEF OverlayTypeOK, AdmittedMoves, Insert
<1>4. PathMoves(n) /\ OpenMoves(n) /\ ReportMoves(n) /\ HistoryMoves
  BY <1>1, NoHistory DEF PathMoves, OpenMoves, ReportMoves
<1> QED
  BY <1>1, <1>2, <1>3, <1>4, OneMoves DEF AtOnly

LEMMA AcceptedMoves ==
  ASSUME OverlayTypeOK, NEW n \in Node, NEW c \in Conn, Accepted(n, c)
  PROVE  TablesMove
<1>1. /\ UNCHANGED <<open, report, admitted, restarted>>
      /\ path' = [path EXCEPT ![n] = path'[n]] /\ task' = [task EXCEPT ![n] = task'[n]]
      /\ member' = member \cup {n} /\ rejoined \subseteq rejoined' /\ rejoined' \subseteq Node
  BY DEF OverlayTypeOK, Accepted
<1>2. TaskMoves(n) /\ PathMoves(n)
  BY DEF TaskMoves, PathMoves
<1>3. HistoryMoves
  BY <1>1 DEF OverlayTypeOK, HistoryMoves
<1>4. OpenMoves(n) /\ ReportMoves(n) /\ AdmittedMoves(n)
  BY <1>1 DEF OpenMoves, ReportMoves, AdmittedMoves
<1> QED
  BY <1>1, <1>2, <1>3, <1>4, OneMoves DEF AtOnly

LEMMA EndsMove ==
  ASSUME Shape, Kept, OpensNone, NEW n \in Node,
         SetOpen(n) \/ Fail(n) \/ MoveUpFails(n) \/ MoveUpGivesUp(n)
  PROVE  TablesMove
<1>1. OverlayTypeOK
  BY DEF Shape
<1>2. /\ UNCHANGED <<path, report, admitted, member, rejoined, restarted>>
      /\ open' = open \/ open' = [open EXCEPT ![n] = open'[n]]
      /\ task' = [task EXCEPT ![n] = Idle]
  BY <1>1 DEF OverlayTypeOK, SetOpen, Fail, MoveUpFails, MoveUpGivesUp
<1>3. task'[n] = Idle /\ task' = [task EXCEPT ![n] = task'[n]]
  BY <1>1, <1>2 DEF OverlayTypeOK
<1>4. TaskMoves(n)
  <2>1. CASE Fail(n)
    BY <1>1, <1>3, <2>1, FailLinks DEF TaskMoves
  <2>2. CASE ~Fail(n)
    BY <1>3, <2>2, IdleMoves DEF SetOpen, MoveUpFails, MoveUpGivesUp
  <2> QED BY <2>1, <2>2
<1>5. OpenMoves(n)
  BY DEF OpenMoves, Fail, MoveUpFails, MoveUpGivesUp
<1>6. PathMoves(n) /\ ReportMoves(n) /\ AdmittedMoves(n) /\ HistoryMoves
  BY <1>1, <1>2, NoHistory DEF PathMoves, ReportMoves, AdmittedMoves
<1> QED
  BY <1>1, <1>2, <1>3, <1>4, <1>5, <1>6, OneMoves DEF AtOnly

LEMMA HealthMoves ==
  ASSUME OverlayTypeOK, NEW n \in Node, HealthStep(n)
  PROVE  TablesMove
<1>1. UNCHANGED <<open, admitted, member, rejoined, restarted>>
  BY DEF HealthStep, Blacklist, FindAbandoned, FindUnanswered, FindChanged, Reports,
     CleanPath, FixPath
<1>2. OpenMoves(n) /\ AdmittedMoves(n) /\ HistoryMoves
  BY <1>1, NoHistory DEF OpenMoves, AdmittedMoves
<1>3. CASE Blacklist(n)
  <2>1. UNCHANGED <<path, report>> /\ (task' = task \/ task' = [task EXCEPT ![n] = task'[n]])
    BY <1>3 DEF Blacklist, OverlayTypeOK
  <2>2. TaskMoves(n) /\ PathMoves(n) /\ ReportMoves(n)
    BY <1>3, <2>1 DEF TaskMoves, PathMoves, ReportMoves
  <2> QED BY <1>1, <1>2, <2>1, <2>2, OneMoves DEF AtOnly
<1>4. CASE Finds(n)
  <2>1. UNCHANGED <<path, task>> /\ report' = [report EXCEPT ![n] = report'[n]]
    BY <1>4 DEF Finds, FindAbandoned, FindUnanswered, FindChanged, Reports, OverlayTypeOK
  <2>2. TaskMoves(n) /\ PathMoves(n) /\ ReportMoves(n)
    BY <1>4, <2>1 DEF TaskMoves, PathMoves, ReportMoves
  <2> QED BY <1>1, <1>2, <2>1, <2>2, OneMoves DEF AtOnly
<1>5. CASE CleanPath(n) \/ FixPath(n)
  <2>1. /\ UNCHANGED task /\ report' = [report EXCEPT ![n] = None]
        /\ path' = path \/ path' = [path EXCEPT ![n] = path'[n]]
    BY <1>5 DEF CleanPath, FixPath, OverlayTypeOK
  <2>2. report'[n] = None /\ report' = [report EXCEPT ![n] = report'[n]]
    BY <2>1 DEF OverlayTypeOK
  <2>3. TaskMoves(n) /\ PathMoves(n) /\ ReportMoves(n)
    BY <1>5, <2>1, <2>2 DEF TaskMoves, PathMoves, ReportMoves, CleanPath
  <2> QED BY <1>1, <1>2, <2>1, <2>2, <2>3, OneMoves DEF AtOnly
<1> QED BY <1>3, <1>4, <1>5 DEF HealthStep, Finds

LEMMA OpensMove ==
  ASSUME OverlayTypeOK, TreeOpens PROVE TablesMove
<1>1. /\ UNCHANGED <<open, report, rejoined, restarted>>
      /\ member' = {Proxy} /\ Proxy \notin member
  BY DEF TreeOpens, OpenTree, AskProxy
<1>2. path' = [path EXCEPT ![Proxy] = OwnPath]
  BY DEF TreeOpens, OpenTree, AskProxy
<1>3. \A n \in Node : path'[n] = IF n = Proxy THEN OwnPath ELSE path[n]
  BY <1>2 DEF OverlayTypeOK
<1>4. OnNodes(path') /\ \A n \in Node : PathMoves(n)
  BY <1>2, <1>3 DEF OverlayTypeOK, OnNodes, PathMoves
<1>5. HistoryMoves
  BY <1>1 DEF OverlayTypeOK, HistoryMoves
<1>6. OnNodes(open') /\ OnNodes(report') /\ \A n \in Node : OpenMoves(n) /\ ReportMoves(n)
  BY <1>1, NodeTables DEF OpenMoves, ReportMoves
<1>7. OnNodes(task') /\ OnNodes(admitted') /\ \A n \in Node : TaskMoves(n) /\ AdmittedMoves(n)
  <2>1. CASE OpenTree
    BY <2>1, NodeTables DEF OpenTree, TaskMoves, AdmittedMoves
  <2>2. ASSUME NEW n \in Node, AskProxy(n)
        PROVE  /\ OnNodes(task') /\ OnNodes(admitted')
               /\ \A k \in Node : TaskMoves(k) /\ AdmittedMoves(k)
    <3>1. AtOnly(n, task, task') /\ AtOnly(n, admitted, admitted')
      BY <2>2 DEF AskProxy, AtOnly, OverlayTypeOK
    <3>2. /\ OnNodes(task') /\ OnNodes(admitted')
          /\ \A k \in Node : k # n => task'[k] = task[k] /\ admitted'[k] = admitted[k]
      BY <3>1, NodeTables, AtOnlyMeans
    <3> QED BY <2>2, <3>2 DEF TaskMoves, AdmittedMoves
  <2> QED BY <2>1, <2>2 DEF TreeOpens
<1> QED BY <1>4, <1>5, <1>6, <1>7 DEF TablesMove

LEMMA RestartMoves ==
  ASSUME OverlayTypeOK, Shape, NEW n \in Node, Restart(n) PROVE TablesMove
<1>1. /\ UNCHANGED <<member, rejoined>> /\ restarted' = restarted \cup {n}
      /\ path' = [path EXCEPT ![n] = None] /\ open' = [open EXCEPT ![n] = None]
      /\ task' = [task EXCEPT ![n] = Idle] /\ report' = [report EXCEPT ![n] = None]
  BY DEF Restart
<1>2. HistoryMoves
  BY <1>1 DEF OverlayTypeOK, HistoryMoves
<1>3. OnNodes(path') /\ OnNodes(open') /\ OnNodes(task') /\ OnNodes(report')
  BY <1>1 DEF OverlayTypeOK, OnNodes
<1>4. ASSUME NEW k \in Node
      PROVE  /\ path'[k] = IF k = n THEN None ELSE path[k]
             /\ open'[k] = IF k = n THEN None ELSE open[k]
             /\ task'[k] = IF k = n THEN Idle ELSE task[k]
             /\ report'[k] = IF k = n THEN None ELSE report[k]
  BY <1>1 DEF OverlayTypeOK
<1>5. ASSUME NEW c \in Conn PROVE ~Waits(n, c)'
  BY RestartLinks DEF Waits, Kept, OpensNone
<1>6. OnNodes(admitted') /\ \A k \in Node : AdmittedMoves(k)
  BY DEF Restart, OnNodes, AdmittedMoves
<1>7. \A k \in Node : PathMoves(k) /\ OpenMoves(k) /\ TaskMoves(k) /\ ReportMoves(k)
  BY <1>4, <1>5 DEF PathMoves, OpenMoves, TaskMoves, ReportMoves
<1> QED BY <1>2, <1>3, <1>6, <1>7 DEF TablesMove

LEMMA ConnEndsMove ==
  ASSUME OverlayTypeOK, NEW c \in Conn, SenderEnds(c) \/ HandlerEnds(c) PROVE TablesMove
<1>1. PICK n : n = link[c].from
  OBVIOUS
<1>2. n \in Node
  BY <1>1 DEF OverlayTypeOK, SenderEnds, HandlerEnds, Link
<1>3. /\ UNCHANGED <<open, task, report, admitted, member, rejoined, restarted>>
      /\ path' = path \/ path' = [path EXCEPT ![n] = None]
  BY <1>1 DEF SenderEnds, HandlerEnds
<1>4. path' = path \/ (path'[n] = None /\ path' = [path EXCEPT ![n] = path'[n]])
  BY <1>2, <1>3 DEF OverlayTypeOK
<1>5. /\ PathMoves(n) /\ OpenMoves(n) /\ TaskMoves(n) /\ ReportMoves(n) /\ AdmittedMoves(n)
      /\ HistoryMoves
  BY <1>3, <1>4, NoHistory DEF PathMoves, OpenMoves, TaskMoves, ReportMoves, AdmittedMoves
<1> QED BY <1>2, <1>3, <1>4, <1>5, OneMoves DEF AtOnly

LEMMA TableStep ==
  ASSUME Shape, [OverlayNext]_overlayVars PROVE TablesMove
<1>1. OverlayTypeOK
  BY DEF Shape
<1>2. CASE UNCHANGED overlayVars
  <2>1. \A n \in Node : PathMoves(n) /\ OpenMoves(n) /\ TaskMoves(n) /\ ReportMoves(n)
                        /\ AdmittedMoves(n)
    BY <1>2 DEF overlayVars, PathMoves, OpenMoves, TaskMoves, ReportMoves, AdmittedMoves
  <2>2. HistoryMoves
    BY <1>1, <1>2, NoHistory DEF overlayVars
  <2>3. /\ OnNodes(path') /\ OnNodes(open') /\ OnNodes(task') /\ OnNodes(report')
        /\ OnNodes(admitted')
    BY <1>1, <1>2, NodeTables DEF overlayVars
  <2> QED BY <2>1, <2>2, <2>3 DEF TablesMove
<1>3. CASE OpenTree
  BY <1>1, <1>3, OpensMove DEF TreeOpens
<1>4. ASSUME NEW n \in Node, TaskStarts(n) PROVE TablesMove
  BY <1>1, <1>4, OpensMove, StartsMove DEF TaskStarts, TreeOpens
<1>5. ASSUME NEW n \in Node, TaskGoesOn(n) PROVE TablesMove
  <2>1. CASE SetOpen(n) \/ Fail(n) \/ MoveUpFails(n) \/ MoveUpGivesUp(n)
    <3>1. Kept /\ OpensNone
      BY <1>1, <2>1, SameLinks, FailLinks, MoveUpFailsLinks DEF SetOpen, MoveUpGivesUp
    <3> QED BY <2>1, <3>1, EndsMove
  <2> QED
    BY <1>1, <1>5, <2>1, StartsMove, AdmissionMoves, AcceptedMoves DEF TaskGoesOn
<1>6. ASSUME NEW n \in Node, Answers(n) PROVE TablesMove
  BY <1>1, <1>6, AdmissionMoves DEF Answers
<1>7. ASSUME NEW n \in Node, HealthStep(n) PROVE TablesMove
  BY <1>1, <1>7, HealthMoves
<1>8. ASSUME NEW n \in Node, Restart(n) PROVE TablesMove
  BY <1>1, <1>8, RestartMoves
<1>9. ASSUME NEW c \in Conn, SenderEnds(c) \/ HandlerEnds(c) PROVE TablesMove
  BY <1>1, <1>9, ConnEndsMove
<1> QED
  BY <1>2, <1>3, <1>4, <1>5, <1>6, <1>7, <1>8, <1>9 DEF OverlayNext

-----------------------------------------------------------------------------
(* Shape *)

LEMMA InitShape == OverlayInit => Shape
<1> SUFFICES ASSUME OverlayInit PROVE Shape
  OBVIOUS
<1>1. OverlayTypeOK
  BY Kinds DEF OverlayInit, OverlayTypeOK
<1>2. ASSUME NEW n \in Node
      PROVE  path[n] = None /\ open[n] = None /\ task[n] = Idle /\ report[n] = None
             /\ admitted[n] = None
  BY DEF OverlayInit
<1>3. ASSUME NEW c \in Conn PROVE link[c] = None
  BY DEF OverlayInit
<1>4. \A n \in Node : TaskOf(n, task[n]) /\ Answered(n)
  BY <1>2, <1>3, Kinds DEF TaskOf, Answered, Waits, Asking
<1> QED BY <1>1, <1>2, <1>3, <1>4 DEF Shape

(* A relay path leads to a node, and its connection is the node's own. *)
LEMMA HeldTypes ==
  ASSUME NEW n, NEW p, Held(n, p)
  PROVE  /\ p \in Profile /\ p # None /\ RouteOf(p) \in Route /\ RouteOf(p) # None
         /\ Forwards(n, RouteOf(p))
         /\ p.conn # None => Leads(n, p)
<1>1. CASE p = OwnPath
  BY <1>1, Kinds DEF RouteOf, Route, OwnPath, Forwards
<1>2. CASE Leads(n, p)
  BY <1>2, Kinds DEF Leads, RelayPath, Profile, RouteOf, Route, Forwards
<1> QED BY <1>1, <1>2 DEF Held

LEMMA PathShape ==
  ASSUME Shape, Kept, NEW n \in Node, PathMoves(n)
  PROVE  (path[n] = None \/ Held(n, path[n]))'
<1> SUFFICES \E p : p = path'[n] /\ (p = None \/ Held(n, p))
  <2>1. PICK p : p = path'[n] /\ (p = None \/ Held(n, p))
    OBVIOUS
  <2>2. p = None \/ Held(n, p)'
    BY <2>1, HeldStays
  <2> QED BY <2>1, <2>2
<1>1. CASE path'[n] \in {path[n], None}
  BY <1>1 DEF Shape
<1>2. CASE path'[n] = OwnPath
  BY <1>2 DEF Held
<1>3. CASE FixPath(n)
  <2>1. path'[n] = report[n].profile /\ Leads(n, report[n].profile)
    BY <1>3 DEF FixPath, Shape, OverlayTypeOK
  <2> QED BY <2>1 DEF Held
<1>4. ASSUME NEW c \in Conn, Accepted(n, c) PROVE \E p : p = path'[n] /\ Held(n, p)
  <2>1. PICK p : p = [next |-> task[n].offer.next, next2 |-> task[n].offer.next2, conn |-> c]
    OBVIOUS
  <2>2. path'[n] = p
    BY <1>4, <2>1 DEF Accepted, Shape, OverlayTypeOK
  <2>3. task[n].offer \in Offer /\ task[n].offer.next2 # None
    BY <1>4 DEF Accepted, Shape, TaskOf, Task, Asking
  <2>4. Leads(n, p)
    BY <1>4, <2>1, <2>3 DEF Leads, RelayPath, Offer, ConnOf, Accepted, Waits, Shape, Answered
  <2> QED BY <2>2, <2>4 DEF Held
<1> QED BY <1>1, <1>2, <1>3, <1>4 DEF PathMoves

LEMMA OpenShape ==
  ASSUME Shape, Kept, NEW n \in Node, OpenMoves(n)
  PROVE  (open[n] = None \/ ConnOf(n, open[n]))'
<1>1. PICK c : c = open'[n]
  OBVIOUS
<1>2. c = None \/ ConnOf(n, c)
  BY <1>1 DEF OpenMoves, SetOpen, Shape, TaskOf, OverlayTypeOK
<1> QED BY <1>1, <1>2, ConnStays

(* The task of QueryPath, whichever of the two took it up. *)
LEMMA GoForTask ==
  ASSUME Shape, NEW n \in Node, NEW m \in Node, path[m] # None, NEW old,
         old = None \/ (old \in RelayPath /\ old.next2 \in Node), GoFor(n, m, old)
  PROVE  /\ TaskOf(n, task'[n]) /\ task'[n].stage \in {"verify", "connect"}
         /\ task'[n].offer = [next |-> m, next2 |-> path[m].next]
         /\ task'[n].old = old
         /\ task'[n].again = (old = None /\ path[n] = None /\ n \in member)
<1>1. PICK again : again = (old = None /\ path[n] = None /\ n \in member)
  OBVIOUS
<1>2. PICK stage : stage = IF path[m].next = ImmutableStorage THEN "connect" ELSE "verify"
  OBVIOUS
<1>3. PICK offer : offer = [next |-> m, next2 |-> path[m].next]
  OBVIOUS
<1>4. PICK t : t = [stage |-> stage, offer |-> offer, old |-> old, again |-> again, conn |-> None]
  OBVIOUS
<1>5. task'[n] = t
  BY <1>1, <1>2, <1>3, <1>4 DEF GoFor, TaskAt, Shape, OverlayTypeOK
<1>6. offer \in Offer /\ offer # None
  <2>1. Held(m, path[m])
    BY DEF Shape
  <2>2. path[m].next \in Node \cup {ImmutableStorage}
    BY <2>1, HeldTypes DEF Profile
  <2> QED BY <1>3, <2>2, Kinds DEF Offer
<1>7. again \in BOOLEAN /\ stage \in TaskStage /\ stage \in {"verify", "connect"}
  BY <1>1, <1>2 DEF TaskStage
<1>8. t \in Task
  BY <1>4, <1>6, <1>7, Kinds DEF Task
<1> QED BY <1>1, <1>3, <1>4, <1>5, <1>6, <1>7, <1>8 DEF TaskOf, Asking

LEMMA UnverifiedTask ==
  ASSUME NEW n \in Node, NEW m \in Node, NEW old,
         old = None \/ (old \in RelayPath /\ old.next2 \in Node),
         NEW again \in BOOLEAN, NEW t,
         t = TaskAt("connect", Unverified(m), old, again)
  PROVE  /\ TaskOf(n, t) /\ t.stage = "connect" /\ t.offer = Unverified(m)
         /\ t.old = old /\ t.again = again
<1>1. PICK offer : offer = Unverified(m)
  OBVIOUS
<1>2. offer \in Offer /\ offer # None
  BY <1>1, Kinds DEF Unverified, Offer
<1>3. PICK stage : stage = "connect"
  OBVIOUS
<1>4. t = [stage |-> stage, offer |-> offer, old |-> old, again |-> again, conn |-> None]
  BY <1>1, <1>3 DEF TaskAt
<1>5. stage \in TaskStage
  BY <1>3 DEF TaskStage
<1>6. t \in Task
  BY <1>2, <1>4, <1>5, Kinds DEF Task
<1> QED BY <1>1, <1>2, <1>3, <1>4, <1>6 DEF TaskOf, Asking

(* What changes of a task that goes on. *)
GoesOnAs(n, stage, offer) ==
    /\ stage \in TaskStage
    /\ task'[n] = [stage |-> stage, offer |-> offer, old |-> task[n].old,
                   again |-> task[n].again, conn |-> task[n].conn]

LEMMA GoesOn ==
  ASSUME NEW n, NEW stage, NEW offer, GoesOnAs(n, stage, offer)
  PROVE  /\ task'[n].stage = stage /\ task'[n].offer = offer
         /\ task'[n].old = task[n].old /\ task'[n].again = task[n].again
         /\ task'[n].conn = task[n].conn
  BY DEF GoesOnAs

LEMMA TaskGoesOnAs ==
  ASSUME Shape, NEW n \in Node
  PROVE  /\ Verify(n) => GoesOnAs(n, "connect", task[n].offer)
         /\ NotVerified(n) => GoesOnAs(n, "connect", Unverified(task[n].offer.next))
         /\ CheckCovers(n) => GoesOnAs(n, "asked", task[n].offer)
         /\ MoveUpVerifies(n) => GoesOnAs(n, "query", task[n].offer)
<1>1. task[n] \in Task /\ task \in [Node -> Task]
  BY DEF Shape, OverlayTypeOK
<1>2. PICK t : t = task[n]
  OBVIOUS
<1>3. ASSUME NEW stage \in TaskStage, task' = [task EXCEPT ![n].stage = stage]
      PROVE  GoesOnAs(n, stage, task[n].offer)
  <2>1. task'[n] = [t EXCEPT !.stage = stage]
    BY <1>1, <1>2, <1>3
  <2> QED BY <1>1, <1>2, <2>1 DEF GoesOnAs, Task
<1>4. NotVerified(n) => GoesOnAs(n, "connect", Unverified(task[n].offer.next))
  <2> SUFFICES ASSUME NotVerified(n)
               PROVE  GoesOnAs(n, "connect", Unverified(task[n].offer.next))
    OBVIOUS
  <2>1. task'[n] = [[t EXCEPT !.stage = "connect"] EXCEPT !.offer = Unverified(@.next)]
    BY <1>1, <1>2 DEF NotVerified
  <2>2. t = [stage |-> t.stage, offer |-> t.offer, old |-> t.old, again |-> t.again,
             conn |-> t.conn]
    BY <1>1, <1>2 DEF Task
  <2>3. PICK u : u = Unverified(t.offer.next)
    OBVIOUS
  <2>4. task'[n] = [stage |-> "connect", offer |-> u, old |-> t.old, again |-> t.again,
                    conn |-> t.conn]
    BY <2>1, <2>2, <2>3
  <2> QED BY <1>2, <2>3, <2>4 DEF GoesOnAs, TaskStage
<1>5. "connect" \in TaskStage /\ "asked" \in TaskStage /\ "query" \in TaskStage
  BY DEF TaskStage
<1>6. Verify(n) => GoesOnAs(n, "connect", task[n].offer)
  BY <1>3, <1>5 DEF Verify
<1>7. CheckCovers(n) => GoesOnAs(n, "asked", task[n].offer)
  BY <1>3, <1>5 DEF CheckCovers
<1>8. MoveUpVerifies(n) => GoesOnAs(n, "query", task[n].offer)
  BY <1>3, <1>5 DEF MoveUpVerifies
<1> QED
  BY <1>4, <1>6, <1>7, <1>8

(* What the other steps make of a task. *)
LEMMA AskProxyTask ==
  ASSUME Shape, NEW n \in Node, AskProxy(n)
  PROVE  /\ TaskOf(n, task'[n]) /\ task'[n].stage = "asked" /\ task'[n].old = None
         /\ task'[n].offer = [next |-> Proxy, next2 |-> ImmutableStorage]
         /\ task'[n].again = FALSE
<1>1. PICK offer : offer = [next |-> Proxy, next2 |-> ImmutableStorage]
  OBVIOUS
<1>2. offer \in Offer /\ offer # None
  BY <1>1, Kinds DEF Offer
<1>3. PICK stage : stage = "asked"
  OBVIOUS
<1>4. stage \in TaskStage
  BY <1>3 DEF TaskStage
<1>5. ASSUME NEW again \in BOOLEAN,
             task'[n] = [stage |-> stage, offer |-> offer, old |-> None, again |-> again,
                         conn |-> None]
      PROVE  /\ TaskOf(n, task'[n]) /\ task'[n].stage = stage /\ task'[n].old = None
             /\ task'[n].offer = offer /\ task'[n].again = again
  <2>1. PICK t : t = [stage |-> stage, offer |-> offer, old |-> None, again |-> again,
                      conn |-> None]
    OBVIOUS
  <2>2. t \in Task
    BY <1>2, <1>4, <2>1 DEF Task
  <2>3. TaskOf(n, t)
    BY <1>2, <1>3, <2>1, <2>2 DEF TaskOf
  <2> QED BY <1>5, <2>1, <2>3
<1>6. task'[n] = [stage |-> stage, offer |-> offer, old |-> None, again |-> FALSE,
                  conn |-> None]
  BY <1>1, <1>3 DEF AskProxy, TaskAt, Shape, OverlayTypeOK
<1> QED BY <1>1, <1>3, <1>5, <1>6

LEMMA QueryTask ==
  ASSUME Shape, NEW n \in Node, NEW m \in Node, Query(n, m)
  PROVE  /\ TaskOf(n, task'[n]) /\ task'[n].stage \in {"verify", "connect"}
         /\ task'[n].offer = [next |-> m, next2 |-> path[m].next]
         /\ task'[n].old = None
         /\ task'[n].again = (path[n] = None /\ n \in member)
<1>1. path[m] # None /\ GoFor(n, m, None)
  BY DEF Query, Offers
<1> QED BY <1>1, GoForTask

LEMMA QueryInVainTask ==
  ASSUME Shape, NEW n \in Node, NEW m \in Node, QueryInVain(n, m)
  PROVE  /\ TaskOf(n, task'[n]) /\ task'[n].stage = "connect"
         /\ task'[n].offer = Unverified(m) /\ task'[n].old = None
<1>1. task'[n] = TaskAt("connect", Unverified(m), None, FALSE)
  BY DEF QueryInVain, Shape, OverlayTypeOK
<1>2. PICK t : t = task'[n]
  OBVIOUS
<1>3. PICK again : again = FALSE
  OBVIOUS
<1>4. again \in BOOLEAN /\ t = TaskAt("connect", Unverified(m), None, again)
  BY <1>1, <1>2, <1>3
<1>5. TaskOf(n, t) /\ t.stage = "connect" /\ t.offer = Unverified(m) /\ t.old = None
  BY <1>4, UnverifiedTask
<1> QED BY <1>2, <1>5

LEMMA MoveUpQueryTask ==
  ASSUME Shape, NEW n \in Node, MoveUpQuery(n)
  PROVE  LET m == task[n].old.next2 IN
         /\ task[n].stage = "query" /\ task[n].old # None /\ m \in Node
         /\ TaskOf(n, task'[n]) /\ task'[n].stage \in {"verify", "connect"}
         /\ task'[n].old = task[n].old /\ task'[n].again = FALSE
         /\ \/ task'[n].offer = Unverified(m)
            \/ Offers(m, n) /\ task'[n].offer = [next |-> m, next2 |-> path[m].next]
<1>1. PICK old : old = task[n].old
  OBVIOUS
<1>2. task[n].stage = "query" /\ old # None /\ old \in RelayPath /\ old.next2 \in Node
  BY <1>1 DEF MoveUpQuery, Shape, TaskOf
<1>3. CASE Offers(old.next2, n)
  <2>1. GoFor(n, old.next2, old) /\ path[old.next2] # None
    BY <1>1, <1>3 DEF MoveUpQuery, Offers
  <2>2. /\ TaskOf(n, task'[n]) /\ task'[n].stage \in {"verify", "connect"}
        /\ task'[n].offer = [next |-> old.next2, next2 |-> path[old.next2].next]
        /\ task'[n].old = old
        /\ task'[n].again = (old = None /\ path[n] = None /\ n \in member)
    BY <1>2, <2>1, GoForTask
  <2> QED BY <1>1, <1>2, <1>3, <2>2
<1>4. CASE ~Offers(old.next2, n)
  <2>1. task'[n] = TaskAt("connect", Unverified(old.next2), old, FALSE)
    BY <1>1, <1>4 DEF MoveUpQuery, Shape, OverlayTypeOK
  <2>2. PICK t : t = task'[n]
    OBVIOUS
  <2>3. PICK again : again = FALSE
    OBVIOUS
  <2>4. again \in BOOLEAN /\ t = TaskAt("connect", Unverified(old.next2), old, again)
    BY <2>1, <2>2, <2>3
  <2>5. /\ TaskOf(n, t) /\ t.stage = "connect" /\ t.offer = Unverified(old.next2)
        /\ t.old = old /\ t.again = again
    BY <1>2, <2>4, UnverifiedTask
  <2> QED BY <1>1, <1>2, <2>2, <2>3, <2>5
<1> QED BY <1>3, <1>4

LEMMA AcceptedTask ==
  ASSUME Shape, NEW n \in Node, NEW c \in Conn, Accepted(n, c)
  PROVE  /\ TaskOf(n, task'[n]) /\ task'[n].stage = "setOpen"
         /\ task'[n].old = task[n].old /\ task'[n].conn = c
<1>1. PICK old : old = task[n].old
  OBVIOUS
<1>2. old = None \/ (old \in RelayPath /\ old.next2 \in Node)
  BY <1>1 DEF Shape, TaskOf
<1>3. PICK stage : stage = "setOpen"
  OBVIOUS
<1>4. stage \in TaskStage
  BY <1>3 DEF TaskStage
<1>5. ASSUME NEW again \in BOOLEAN, NEW t,
             t = [stage |-> stage, offer |-> None, old |-> old, again |-> again, conn |-> c]
      PROVE  TaskOf(n, t) /\ t.stage = stage /\ t.old = old /\ t.conn = c
  <2>1. t \in Task
    BY <1>2, <1>4, <1>5, Kinds DEF Task
  <2>2. ConnOf(n, c)
    BY DEF ConnOf, Accepted, Waits
  <2> QED BY <1>2, <1>3, <1>5, <2>1, <2>2 DEF TaskOf, Asking
<1>6. task'[n] = [stage |-> stage, offer |-> None, old |-> old, again |-> FALSE, conn |-> c]
  BY <1>1, <1>3 DEF Accepted, TaskAt, Shape, OverlayTypeOK
<1>7. PICK t : t = task'[n]
  OBVIOUS
<1>8. PICK again : again = FALSE
  OBVIOUS
<1>9. /\ again \in BOOLEAN
      /\ t = [stage |-> stage, offer |-> None, old |-> old, again |-> again, conn |-> c]
  BY <1>6, <1>7, <1>8
<1> QED BY <1>1, <1>3, <1>5, <1>7, <1>9

LEMMA BlacklistTask ==
  ASSUME Shape, NEW n \in Node, Blacklist(n)
  PROVE  \/ task'[n] = task[n]
         \/ /\ TaskOf(n, task'[n]) /\ task'[n].stage = "moveUp"
            /\ path[n] # None /\ task'[n].old = path[n]
<1>1. CASE path[n].next2 = ImmutableStorage
  BY <1>1 DEF Blacklist
<1>2. CASE path[n].next2 # ImmutableStorage
  <2>1. PICK old : old = path[n]
    OBVIOUS
  <2>2. old # None /\ old \in RelayPath /\ old.next2 \in Node
    BY <1>2, <2>1, Kinds DEF Blacklist, HasRelayPath, Shape, Held, Leads, RelayPath
  <2>3. PICK stage : stage = "moveUp"
    OBVIOUS
  <2>4. stage \in TaskStage
    BY <2>3 DEF TaskStage
  <2>5. ASSUME NEW again \in BOOLEAN, NEW t,
               t = [stage |-> stage, offer |-> None, old |-> old, again |-> again, conn |-> None]
        PROVE  TaskOf(n, t) /\ t.stage = stage /\ t.old = old
    <3>1. t \in Task
      BY <2>2, <2>4, <2>5, Kinds DEF Task
    <3> QED BY <2>2, <2>3, <2>5, <3>1 DEF TaskOf, Asking
  <2>6. task'[n] = [stage |-> stage, offer |-> None, old |-> old, again |-> FALSE,
                    conn |-> None]
    BY <1>2, <2>1, <2>3 DEF Blacklist, TaskAt, Shape, OverlayTypeOK
  <2>7. PICK t : t = task'[n]
    OBVIOUS
  <2>8. PICK again : again = FALSE
    OBVIOUS
  <2>9. /\ again \in BOOLEAN
        /\ t = [stage |-> stage, offer |-> None, old |-> old, again |-> again, conn |-> None]
    BY <2>6, <2>7, <2>8
  <2> QED BY <2>1, <2>2, <2>3, <2>5, <2>7, <2>9
<1> QED BY <1>1, <1>2

LEMMA TaskShape ==
  ASSUME Shape, Kept, NEW n \in Node, TaskMoves(n)
  PROVE  TaskOf(n, task[n])'
<1> SUFFICES TaskOf(n, task'[n])
  <2>1. PICK t : t = task'[n]
    OBVIOUS
  <2> QED BY <2>1, TaskStays
<1>1. TaskOf(n, task[n])
  BY DEF Shape
<1>2. CASE task'[n] \in {task[n], Idle}
  BY <1>1, <1>2, Kinds DEF TaskOf, Asking
<1>3. CASE AskProxy(n) \/ \E m \in Node : Query(n, m) \/ QueryInVain(n, m)
  BY <1>3, AskProxyTask, QueryTask, QueryInVainTask
<1>4. CASE \/ (\E c \in Conn : Accepted(n, c)) \/ Blacklist(n) \/ MoveUpQuery(n)
  BY <1>1, <1>4, AcceptedTask, BlacklistTask, MoveUpQueryTask
<1>5. ASSUME NEW stage \in {"connect", "asked", "query"}, NEW offer,
             GoesOnAs(n, stage, offer),
             offer = None \/ offer \in Offer,
             stage \in Asking => offer # None, stage = "query" => task[n].old # None
      PROVE  TaskOf(n, task'[n])
  <2>1. PICK t : t = task[n]
    OBVIOUS
  <2>2. PICK u : u = task'[n]
    OBVIOUS
  <2>3. u = [stage |-> stage, offer |-> offer, old |-> t.old, again |-> t.again, conn |-> t.conn]
    BY <1>5, <2>1, <2>2 DEF GoesOnAs
  <2>4. stage \in TaskStage /\ t \in Task
    BY <1>1, <1>5, <2>1 DEF GoesOnAs, TaskOf
  <2>5. u \in Task
    BY <1>5, <2>3, <2>4 DEF Task
  <2> QED BY <1>1, <1>5, <2>1, <2>2, <2>3, <2>5 DEF TaskOf, Asking
<1>6. CASE Verify(n) \/ NotVerified(n) \/ CheckCovers(n) \/ MoveUpVerifies(n)
  <2>1. PICK offer : offer = task[n].offer
    OBVIOUS
  <2>2. offer = None \/ offer \in Offer
    BY <1>1, <2>1 DEF TaskOf, Task
  <2>3. CASE Verify(n) \/ CheckCovers(n)
    <3>1. offer # None
      BY <1>1, <2>1, <2>3 DEF TaskOf, Asking, Verify, CheckCovers
    <3> QED BY <1>5, <2>1, <2>2, <2>3, <3>1, TaskGoesOnAs
  <2>4. CASE NotVerified(n)
    <3>1. offer \in Offer
      BY <1>1, <2>1, <2>2, <2>4 DEF TaskOf, Asking, NotVerified
    <3>2. PICK u : u = Unverified(offer.next)
      OBVIOUS
    <3>3. u \in Offer /\ u # None
      BY <3>1, <3>2, Kinds DEF Unverified, Offer
    <3>4. GoesOnAs(n, "connect", u)
      BY <2>1, <2>4, <3>2, TaskGoesOnAs
    <3> QED BY <1>5, <3>3, <3>4
  <2>5. CASE MoveUpVerifies(n)
    <3>1. task[n].old # None
      BY <1>1, <2>5 DEF TaskOf, MoveUpVerifies
    <3>2. GoesOnAs(n, "query", offer)
      BY <2>1, <2>5, TaskGoesOnAs
    <3> QED BY <1>5, <2>2, <3>1, <3>2 DEF Asking
  <2> QED BY <1>6, <2>3, <2>4, <2>5
<1> QED BY <1>2, <1>3, <1>4, <1>6 DEF TaskMoves

(* What a health round reads leads where the path led. *)
LEMMA FindsLeads ==
  ASSUME Shape, NEW n \in Node, Finds(n)
  PROVE  /\ path[n] # None /\ Leads(n, path[n])
         /\ report'[n] # None /\ report'[n] \in Report
         /\ Leads(n, report'[n].profile)
         /\ report'[n].profile.conn = path[n].conn
         /\ report'[n].profile.next = path[n].next
         /\ \/ report'[n].profile.next2 = path[n].next2
            \/ /\ path[path[n].next] # None
               /\ report'[n].profile.next2 = path[path[n].next].next
<1>1. path[n] # None /\ Leads(n, path[n])
  BY HeldTypes DEF Finds, FindAbandoned, FindUnanswered, FindChanged, Examines, HasRelayPath, Shape
<1>2. ASSUME NEW how \in {"clean", "fix"}, NEW profile \in RelayPath,
             report' = [report EXCEPT ![n] = [how |-> how, profile |-> profile]]
      PROVE  /\ report'[n] # None /\ report'[n] \in Report /\ report'[n].profile = profile
  <2>1. PICK r : r = [how |-> how, profile |-> profile]
    OBVIOUS
  <2>2. r \in Report
    BY <1>2, <2>1, Kinds DEF Report
  <2>3. report'[n] = r
    BY <1>2, <2>1 DEF Shape, OverlayTypeOK
  <2> QED BY <2>1, <2>2, <2>3, Kinds
<1>3. PICK p : p = path[n]
  OBVIOUS
<1>4. p \in RelayPath
  BY <1>1, <1>3 DEF Leads
<1>5. CASE FindAbandoned(n) \/ FindUnanswered(n)
  <2>1. report' = [report EXCEPT ![n] = [how |-> "clean", profile |-> p]]
    BY <1>3, <1>5 DEF FindAbandoned, FindUnanswered, Reports
  <2> QED BY <1>1, <1>2, <1>3, <1>4, <2>1
<1>6. CASE FindChanged(n)
  <2>1. PICK q : q = [p EXCEPT !.next2 = path[p.next].next]
    OBVIOUS
  <2>2. path[p.next] # None /\ p.next \in Node
    BY <1>3, <1>4, <1>6 DEF FindChanged, RelayPath
  <2>3. path[p.next].next \in Node \cup {ImmutableStorage}
    BY <2>2, HeldTypes DEF Shape, Profile
  <2>4. /\ q \in RelayPath /\ q.conn = p.conn /\ q.next = p.next
        /\ q.next2 = path[p.next].next
    BY <1>4, <2>1, <2>3 DEF RelayPath
  <2>5. report' = [report EXCEPT ![n] = [how |-> "fix", profile |-> q]]
    BY <1>3, <1>6, <2>1 DEF FindChanged, Reports
  <2>6. Leads(n, q)
    BY <1>1, <1>3, <2>4 DEF Leads
  <2> QED BY <1>1, <1>2, <1>3, <2>2, <2>4, <2>5, <2>6
<1> QED BY <1>5, <1>6 DEF Finds

LEMMA ReportShape ==
  ASSUME Shape, Kept, NEW n \in Node, ReportMoves(n)
  PROVE  (report[n] = None \/ (report[n] \in Report /\ Leads(n, report[n].profile)))'
<1>1. PICK r : r = report'[n]
  OBVIOUS
<1>2. r = None \/ (r \in Report /\ Leads(n, r.profile))
  BY <1>1, FindsLeads DEF ReportMoves, Shape, OverlayTypeOK
<1>3. PICK p : p = r.profile
  OBVIOUS
<1>4. r = None \/ (r \in Report /\ Leads(n, p)')
  BY <1>2, <1>3, LeadsStays
<1> QED BY <1>1, <1>3, <1>4

(* What a parent's handler does with a request. *)
LEMMA AdmissionLooks ==
  ASSUME Shape, NEW n \in Node
  PROVE  /\ AskProxy(n) => admitted'[n] = [to |-> Proxy, forward |-> RouteOf(OwnPath)]
         /\ CheckCovers(n) =>
               admitted'[n] = [to |-> task[n].offer.next, forward |-> None]
         /\ CheckPath(n) =>
               LET m == admitted[n].to IN
               /\ admitted[n] # None /\ m \in Node
               /\ admitted'[n] = IF path[m] = None THEN None
                                 ELSE [to |-> m, forward |-> RouteOf(path[m])]
<1>1. admitted \in [Node -> Admission \cup {None}]
  BY DEF Shape, OverlayTypeOK
<1>2. AskProxy(n) => admitted'[n] = [to |-> Proxy, forward |-> RouteOf(OwnPath)]
  BY <1>1 DEF AskProxy
<1>3. CheckCovers(n) => admitted'[n] = [to |-> task[n].offer.next, forward |-> None]
  BY <1>1 DEF CheckCovers
<1>4. CheckPath(n) => /\ admitted[n] # None /\ admitted[n].to \in Node
                      /\ admitted'[n] = IF path[admitted[n].to] = None THEN None
                            ELSE [to |-> admitted[n].to,
                                  forward |-> RouteOf(path[admitted[n].to])]
  BY <1>1 DEF CheckPath, Admission
<1> QED BY <1>2, <1>3, <1>4

LEMMA AdmissionTo ==
  ASSUME Shape, NEW n \in Node
  PROVE  /\ AskProxy(n) => admitted'[n].to = Proxy
         /\ CheckCovers(n) => admitted'[n].to = task[n].offer.next
         /\ CheckPath(n) => /\ admitted[n] # None
                            /\ admitted'[n] # None => admitted'[n].to = admitted[n].to
<1>1. AskProxy(n) => admitted'[n].to = Proxy
  <2>1. PICK f : f = RouteOf(OwnPath)
    OBVIOUS
  <2>2. AskProxy(n) => admitted'[n] = [to |-> Proxy, forward |-> f]
    BY <2>1, AdmissionLooks
  <2> QED BY <2>2
<1>2. CheckCovers(n) => admitted'[n].to = task[n].offer.next
  <2>1. PICK m : m = task[n].offer.next
    OBVIOUS
  <2>2. CheckCovers(n) => admitted'[n] = [to |-> m, forward |-> None]
    BY <2>1, AdmissionLooks
  <2> QED BY <2>1, <2>2
<1>3. ASSUME CheckPath(n)
      PROVE  /\ admitted[n] # None
             /\ admitted'[n] # None => admitted'[n].to = admitted[n].to
  <2>1. PICK m : m = admitted[n].to
    OBVIOUS
  <2>2. /\ admitted[n] # None
        /\ admitted'[n] = IF path[m] = None THEN None
                          ELSE [to |-> m, forward |-> RouteOf(path[m])]
    BY <1>3, <2>1, AdmissionLooks
  <2> QED BY <2>1, <2>2
<1> QED BY <1>1, <1>2, <1>3

LEMMA AdmittedShape ==
  ASSUME Shape, Kept, NEW n \in Node, AdmittedMoves(n)
  PROVE  (\/ admitted[n] = None
          \/ /\ admitted[n] \in Admission
             /\ admitted[n].forward = None \/ Forwards(admitted[n].to, admitted[n].forward))'
<1> DEFINE Fits(a) == \/ a = None
                      \/ /\ a \in Admission
                         /\ a.forward = None \/ Forwards(a.to, a.forward)
<1> SUFFICES Fits(admitted'[n])
  <2>1. PICK a : a = admitted'[n]
    OBVIOUS
  <2>2. PICK f : f = a.forward
    OBVIOUS
  <2>3. PICK m : m = a.to
    OBVIOUS
  <2>4. a = None \/ (a \in Admission /\ (f = None \/ Forwards(m, f)'))
    BY <2>1, <2>2, <2>3, ForwardsStays
  <2> QED BY <2>1, <2>2, <2>3, <2>4
<1>1. CASE admitted'[n] \in {admitted[n], None}
  BY <1>1 DEF Shape, OverlayTypeOK
<1>2. ASSUME NEW m \in Node, NEW f \in Route \cup {None}, f = None \/ Forwards(m, f),
             admitted'[n] = [to |-> m, forward |-> f]
      PROVE  Fits(admitted'[n])
  <2>1. PICK a : a = [to |-> m, forward |-> f]
    OBVIOUS
  <2>2. a \in Admission /\ a.to = m /\ a.forward = f
    BY <2>1 DEF Admission
  <2> QED BY <1>2, <2>1, <2>2
<1> HIDE DEF Fits
<1>3. CASE AskProxy(n)
  <2>1. RouteOf(OwnPath) \in Route /\ Forwards(Proxy, RouteOf(OwnPath))
    BY HeldTypes DEF Held
  <2> QED BY <1>2, <1>3, <2>1, AdmissionLooks, Kinds
<1>4. CASE CheckCovers(n)
  <2>1. task[n].offer.next \in Node
    BY <1>4 DEF CheckCovers, Shape, TaskOf, Asking, Task, Offer
  <2> QED BY <1>2, <1>4, <2>1, AdmissionLooks
<1>5. CASE CheckPath(n)
  <2>1. PICK m : m = admitted[n].to
    OBVIOUS
  <2>2. /\ m \in Node
        /\ admitted'[n] = IF path[m] = None THEN None
                          ELSE [to |-> m, forward |-> RouteOf(path[m])]
    BY <1>5, <2>1, AdmissionLooks
  <2>3. path[m] # None => RouteOf(path[m]) \in Route /\ Forwards(m, RouteOf(path[m]))
    BY <2>2, HeldTypes DEF Shape
  <2>4. CASE path[m] = None
    BY <2>2, <2>4 DEF Fits
  <2>5. CASE path[m] # None
    BY <1>2, <2>2, <2>3, <2>5
  <2> QED BY <2>4, <2>5
<1> QED BY <1>1, <1>3, <1>4, <1>5 DEF AdmittedMoves, Fits

(* No step but an insertion makes a node wait for an answer. *)
LEMMA WaitsBack ==
  ASSUME Kept, OpensNone, NEW n, NEW c \in Conn, Waits(n, c)'
  PROVE  Waits(n, c) /\ link'[c].to = link[c].to
  BY DEF Kept, OpensNone, Waits

(* The task of a node that asks, or that waits for an answer, stays. *)
LEMMA StillAsks ==
  ASSUME Shape, NEW n \in Node, TaskMoves(n), task[n].stage = "asked",
         ~\E c \in Conn : Accepted(n, c)
  PROVE  \/ task'[n] = task[n]
         \/ task'[n] = Idle /\ \A c \in Conn : ~Waits(n, c)'
<1>1. task[n] # Idle
  BY Kinds
<1> QED
  BY <1>1 DEF TaskMoves, AskProxy, Query, QueryInVain, MayAsk, Verify, NotVerified, CheckCovers,
     Blacklist, MoveUpVerifies, MoveUpQuery

LEMMA AnsweredQuiet ==
  ASSUME Shape, Kept, OpensNone, NEW n \in Node, TaskMoves(n), AdmittedMoves(n)
  PROVE  Answered(n)'
<1>1. ASSUME NEW c \in Conn, Waits(n, c)'
      PROVE  /\ task'[n] = task[n] /\ task[n].stage = "asked"
             /\ link'[c].to = task[n].offer.next
             /\ \A d \in Conn : Waits(n, d)' => c = d
             /\ admitted[n] = None
  <2>1. Waits(n, c) /\ link'[c].to = link[c].to
    BY <1>1, WaitsBack
  <2>2. /\ task[n].stage = "asked" /\ link[c].to = task[n].offer.next
        /\ \A d \in Conn : Waits(n, d) => c = d
        /\ admitted[n] = None
    BY <2>1 DEF Shape, Answered
  <2>3. ~\E d \in Conn : Accepted(n, d)
    <3> SUFFICES ASSUME NEW d \in Conn, Accepted(n, d) PROVE FALSE
      OBVIOUS
    <3>1. d = c
      BY <2>2 DEF Accepted
    <3>2. link'[c].sender = "on"
      <4>1. link' = [link EXCEPT ![c].sender = "on"] /\ link[c] \in Link
        BY <2>1, <3>1 DEF Accepted, Waits, Shape, OverlayTypeOK
      <4> QED BY <4>1 DEF Shape, OverlayTypeOK, Link
    <3> QED BY <1>1, <3>2 DEF Waits
  <2>4. \A d \in Conn : Waits(n, d)' => c = d
    BY <2>2, WaitsBack
  <2> QED BY <1>1, <2>1, <2>2, <2>3, <2>4, StillAsks
<1>2. ASSUME admitted'[n] # None, task'[n].stage = "asked"
      PROVE  admitted'[n].to = task'[n].offer.next
  <2>1. CASE AskProxy(n)
    <3>1. PICK offer : offer = [next |-> Proxy, next2 |-> ImmutableStorage]
      OBVIOUS
    <3>2. task'[n].offer = offer /\ offer.next = Proxy
      BY <2>1, <3>1, AskProxyTask
    <3> QED BY <2>1, <3>2, AdmissionTo
  <2>2. CASE CheckCovers(n)
    <3>1. GoesOnAs(n, "asked", task[n].offer)
      BY <2>2, TaskGoesOnAs
    <3> QED BY <2>2, <3>1, AdmissionTo, GoesOn
  <2>3. CASE CheckPath(n) \/ admitted'[n] = admitted[n]
    <3>1. admitted[n] # None /\ admitted'[n].to = admitted[n].to
      BY <1>2, <2>3, AdmissionTo
    <3>2. CASE task'[n] = task[n]
      BY <1>2, <3>1, <3>2 DEF Shape, Answered
    <3>3. CASE task'[n] # task[n]
      <4>1. ~CheckPath(n)
        BY <3>3 DEF CheckPath
      <4>2. ~AskProxy(n) /\ ~CheckCovers(n)
        BY <3>1 DEF AskProxy, CheckCovers
      <4>3. task'[n].stage # "asked"
        <5>1. \A m \in Node : Query(n, m) => task'[n].stage # "asked"
          BY QueryTask
        <5>2. \A m \in Node : QueryInVain(n, m) => task'[n].stage # "asked"
          BY QueryInVainTask
        <5>3. Verify(n) \/ NotVerified(n) \/ MoveUpVerifies(n) => task'[n].stage # "asked"
          <6>1. \A stage \in {"connect", "query"} : \A offer :
                    GoesOnAs(n, stage, offer) => task'[n].stage # "asked"
            BY GoesOn
          <6> QED BY <6>1, TaskGoesOnAs
        <5>4. \A c \in Conn : Accepted(n, c) => task'[n].stage # "asked"
          BY AcceptedTask
        <5>5. Blacklist(n) \/ MoveUpQuery(n) => task'[n].stage # "asked"
          BY <3>3, BlacklistTask, MoveUpQueryTask
        <5> QED BY <3>3, <4>2, <5>1, <5>2, <5>3, <5>4, <5>5, Kinds DEF TaskMoves
      <4> QED BY <1>2, <4>3
    <3> QED BY <3>2, <3>3
  <2> QED BY <1>2, <2>1, <2>2, <2>3 DEF AdmittedMoves
<1>3. ASSUME admitted'[n] # None, NEW c \in Conn PROVE ~Waits(n, c)'
  <2> SUFFICES ASSUME Waits(n, c)' PROVE FALSE
    OBVIOUS
  <2>1. task'[n] = task[n] /\ task[n].stage = "asked" /\ admitted[n] = None
    BY <1>1
  <2>2. AskProxy(n) \/ CheckCovers(n)
    BY <1>3, <2>1 DEF AdmittedMoves, CheckPath
  <2> QED BY <2>1, <2>2, Kinds DEF AskProxy, MayAsk, CheckCovers
<1> QED BY <1>1, <1>2, <1>3 DEF Answered

LEMMA AnsweredInsert ==
  ASSUME Shape, NEW k \in Node, NEW c \in Conn, Insert(k, c), NEW n \in Node
  PROVE  Answered(n)'
<1>1. /\ task' = task /\ \A m \in Node : m # k => admitted'[m] = admitted[m]
      /\ admitted'[k] = None /\ admitted[k] # None
  BY DEF Insert, Shape, OverlayTypeOK
<1>2. /\ link'[c].from = k /\ link'[c].to = admitted[k].to
      /\ link'[c].sender = IF task[k].stage = "asked" THEN "asked" ELSE "off"
      /\ \A d \in Conn : d # c => link'[d] = link[d]
      /\ link[c] = None
  BY InsertLinks
<1>3. CASE n # k
  <2>1. \A d \in Conn : Waits(n, d)' => d # c /\ Waits(n, d)
    BY <1>2, <1>3 DEF Waits
  <2>2. \A d \in Conn : d # c => link'[d] = link[d]
    BY <1>2
  <2> QED BY <1>1, <1>3, <2>1, <2>2 DEF Answered, Shape
<1>4. CASE n = k
  <2>1. \A d \in Conn : Waits(n, d)' => d = c
    BY <1>1, <1>2, <1>4 DEF Waits, Shape, Answered
  <2>2. Waits(n, c)' => task[n].stage = "asked" /\ link'[c].to = task[n].offer.next
    BY <1>1, <1>2, <1>4 DEF Waits, Shape, Answered
  <2>3. task'[n] = task[n]
    BY <1>1
  <2> QED BY <1>1, <1>4, <2>1, <2>2, <2>3 DEF Answered
<1> QED BY <1>3, <1>4

LEMMA ForwardsStep ==
  ASSUME Shape, Kept, OpensNone \/ Inserts, NEW c \in Conn
  PROVE  (link[c] # None => Forwards(link[c].to, link[c].forward))'
<1> SUFFICES ASSUME link'[c] # None PROVE Forwards(link[c].to, link[c].forward)'
  OBVIOUS
<1>1. PICK m : m = link'[c].to
  OBVIOUS
<1>2. PICK f : f = link'[c].forward
  OBVIOUS
<1>3. CASE link[c] # None
  BY <1>1, <1>2, <1>3, ForwardsStays DEF Kept, Shape
<1>4. CASE link[c] = None
  <2>1. PICK n \in Node, d \in Conn : Insert(n, d)
    BY <1>4 DEF Inserts, OpensNone
  <2>2. m = admitted[n].to /\ f = admitted[n].forward
    BY <1>1, <1>2, <1>4, <2>1, InsertLinks
  <2>3. Forwards(m, f)
    BY <2>1, <2>2 DEF Insert, Shape
  <2> QED BY <1>1, <1>2, <2>3, ForwardsStays
<1> QED BY <1>3, <1>4

LEMMA AnsweredStep ==
  ASSUME Shape, Kept, OpensNone \/ Inserts, TablesMove, NEW n \in Node
  PROVE  Answered(n)'
<1>1. CASE OpensNone
  BY <1>1, AnsweredQuiet DEF TablesMove
<1>2. CASE Inserts
  BY <1>2, AnsweredInsert DEF Inserts
<1> QED BY <1>1, <1>2

LEMMA ShapeStep == Shape /\ [OverlayNext]_overlayVars => Shape'
<1> SUFFICES ASSUME Shape, [OverlayNext]_overlayVars PROVE Shape'
  OBVIOUS
<1>1. Kept /\ (OpensNone \/ Inserts) /\ TablesMove
  BY LinkStep, TableStep
<1>2. ASSUME NEW n \in Node
      PROVE  /\ path'[n] = None \/ Held(n, path[n])'
             /\ open'[n] = None \/ ConnOf(n, open[n])'
             /\ TaskOf(n, task[n])'
             /\ report'[n] = None \/ (report'[n] \in Report /\ Leads(n, report[n].profile)')
             /\ \/ admitted'[n] = None
                \/ /\ admitted'[n] \in Admission
                   /\ admitted'[n].forward = None
                      \/ Forwards(admitted[n].to, admitted[n].forward)'
             /\ Answered(n)'
  BY <1>1, PathShape, OpenShape, TaskShape, ReportShape, AdmittedShape, AnsweredStep
     DEF TablesMove
<1>3. \A c \in Conn : (link[c] # None => Forwards(link[c].to, link[c].forward))'
  BY <1>1, ForwardsStep
<1>4. OverlayTypeOK'
  <2>1. ASSUME NEW n \in Node
        PROVE  /\ path'[n] \in Profile \cup {None} /\ open'[n] \in Conn \cup {None}
               /\ task'[n] \in Task /\ report'[n] \in Report \cup {None}
               /\ admitted'[n] \in Admission \cup {None}
    <3>1. path'[n] \in Profile \cup {None}
      BY <1>2, Kinds DEF Held, Leads
    <3>2. open'[n] \in Conn \cup {None} /\ task'[n] \in Task
      BY <1>2 DEF ConnOf, TaskOf
    <3> QED BY <1>2, <3>1, <3>2
  <2>2. member' \subseteq Node /\ rejoined' \subseteq Node /\ restarted' \subseteq Node
    BY <1>1, Kinds DEF TablesMove, HistoryMoves, Shape, OverlayTypeOK
  <2>3. /\ path' \in [Node -> Profile \cup {None}] /\ open' \in [Node -> Conn \cup {None}]
        /\ task' \in [Node -> Task] /\ report' \in [Node -> Report \cup {None}]
        /\ admitted' \in [Node -> Admission \cup {None}]
    BY <1>1, <2>1 DEF TablesMove, OnNodes
  <2> QED BY <1>1, <2>2, <2>3 DEF OverlayTypeOK, Kept
<1> QED BY <1>2, <1>3, <1>4 DEF Shape

(* What the nodes have of profiles, tasks and connections fits together:   *)
(* a relay path's connection is the node's own and leads to its next hop.  *)
THEOREM ShapeCorrect == OverlaySpec => []Shape
BY InitShape, ShapeStep, PTL DEF OverlaySpec

(* Type correctness of the state (p2p/node.go, p2p/types.go). *)
THEOREM OverlayTypeCorrect == OverlaySpec => []OverlayTypeOK
<1>1. Shape => OverlayTypeOK
  BY DEF Shape
<1> QED BY <1>1, ShapeCorrect, PTL

-----------------------------------------------------------------------------
(* Paths without a worker *)

(* What becomes of the worker at the lower end of a connection.            *)
LEMMA SenderMoves ==
  ASSUME Shape, [OverlayNext]_overlayVars, NEW c \in Conn, link[c] # None
  PROVE  \/ link'[c].sender = link[c].sender
         \/ HasWorker(c) /\ HasWorker(c)'
         \/ Accepted(link[c].from, c)
         \/ /\ link'[c].sender = "off"
            /\ SenderEnds(c) \/ Restart(link[c].from) \/ Waits(link[c].from, c)
<1> DEFINE Moves ==
      \/ link'[c].sender = link[c].sender
      \/ HasWorker(c) /\ HasWorker(c)'
      \/ Accepted(link[c].from, c)
      \/ /\ link'[c].sender = "off"
         /\ SenderEnds(c) \/ Restart(link[c].from) \/ Waits(link[c].from, c)
<1> SUFFICES Moves
  OBVIOUS
<1>1. link \in [Conn -> Link \cup {None}] /\ link[c] \in Link
  BY DEF Shape, OverlayTypeOK
<1>2. CASE link'[c] = link[c]
  BY <1>2
<1>3. ASSUME NEW d \in Conn, CancelSender(d) PROVE Moves
  BY <1>1, <1>3 DEF CancelSender, HasWorker, Link
<1>4. ASSUME NEW d \in Conn, SenderEnds(d) PROVE Moves
  BY <1>1, <1>4 DEF SenderEnds, Link
<1>5. ASSUME NEW d \in Conn, HandlerEnds(d) PROVE Moves
  BY <1>1, <1>5 DEF HandlerEnds, Link
<1>6. ASSUME NEW k \in Node, NEW d \in Conn, Accepted(k, d) PROVE Moves
  BY <1>1, <1>6 DEF Accepted, Waits, Link
<1>7. ASSUME NEW k \in Node, NEW d \in Conn, Insert(k, d) PROVE Moves
  BY <1>1, <1>2, <1>7 DEF Insert, IsNext
<1>8. ASSUME NEW k \in Node, Restart(k) PROVE Moves
  <2>1. link'[c] = [link[c] EXCEPT !.sender = IF link[c].from = k THEN "off" ELSE @,
                                   !.handler = IF link[c].to = k THEN "off" ELSE @]
    BY <1>8 DEF Restart
  <2>2. link'[c].sender = IF link[c].from = k THEN "off" ELSE link[c].sender
    BY <1>1, <2>1 DEF Link
  <2> QED BY <1>8, <2>2
<1>9. ASSUME NEW k \in Node, Fail(k) PROVE Moves
  <2>1. PICK links : links = Unheard(k)
    OBVIOUS
  <2>2. /\ links \in [Conn -> Link \cup {None}]
        /\ \A d \in Conn :
              IF link[d] = None THEN links[d] = None
              ELSE /\ links[d] # None /\ links[d].from = link[d].from
                   /\ links[d].to = link[d].to /\ links[d].forward = link[d].forward
                   /\ links[d].sender = IF Waits(k, d) THEN "off" ELSE link[d].sender
    BY <2>1, UnheardLinks DEF Shape
  <2>3. \A d \in CoversOf(k) : links[d] # None
    BY <2>2 DEF CoversOf
  <2>4. link' = links \/ link' = CoversCanceled(k, links)
    BY <1>9, <2>1 DEF Fail
  <2>5. links[c] # None /\ link'[c].sender = links[c].sender
    BY <2>2, <2>3, <2>4, Canceled
  <2> QED BY <2>2, <2>5 DEF Waits
<1>10. ASSUME NEW k \in Node, MoveUpFails(k) PROVE Moves
  <2>1. /\ \A d \in CoversOf(k) : link[d] # None
        /\ link' = CoversCanceled(k, link) /\ link \in [Conn -> Link \cup {None}]
    BY <1>10 DEF MoveUpFails, CoversOf, Shape, OverlayTypeOK
  <2>2. PICK links : links = link
    OBVIOUS
  <2>3. links[c] # None => link'[c].sender = links[c].sender
    BY <2>1, <2>2, Canceled
  <2> QED BY <2>2, <2>3
<1>11. CASE link' = link
  BY <1>2, <1>11
<1> HIDE DEF Moves
<1>12. ASSUME NEW k \in Node, HealthStep(k) PROVE Moves
  <2>1. CASE Finds(k) \/ FixPath(k)
    BY <1>11, <2>1 DEF Finds, FindAbandoned, FindUnanswered, FindChanged, Reports, FixPath
  <2>2. CASE Blacklist(k) \/ CleanPath(k)
    <3>1. PICK d : d \in Conn /\ CancelSender(d)
      <4>1. CASE Blacklist(k)
        BY <4>1, HeldTypes DEF Blacklist, HasRelayPath, Shape, Leads, ConnOf
      <4>2. CASE CleanPath(k)
        BY <4>2 DEF CleanPath, Shape, Leads, ConnOf
      <4> QED BY <2>2, <4>1, <4>2
    <3> QED BY <1>3, <3>1
  <2> QED BY <1>12, <2>1, <2>2 DEF HealthStep, Finds
<1>13. ASSUME NEW k \in Node, TaskStarts(k) \/ TaskGoesOn(k) \/ Answers(k) PROVE Moves
  <2>1. CASE \/ TaskStarts(k) \/ CheckPath(k)
             \/ Verify(k) \/ NotVerified(k) \/ CheckCovers(k) \/ SetOpen(k)
             \/ MoveUpVerifies(k) \/ MoveUpGivesUp(k) \/ MoveUpQuery(k)
    <3>1. link' = link
      BY <2>1 DEF TaskStarts, AskProxy, Query, QueryInVain, CheckPath, Verify, NotVerified,
         CheckCovers, SetOpen, MoveUpVerifies, MoveUpGivesUp, MoveUpQuery
    <3> QED BY <1>11, <3>1
  <2> QED BY <1>6, <1>7, <1>9, <1>10, <1>13, <2>1 DEF TaskGoesOn, Answers
<1>14. CASE UNCHANGED overlayVars \/ OpenTree
  BY <1>11, <1>14 DEF overlayVars, OpenTree
<1> QED
  BY <1>4, <1>5, <1>8, <1>12, <1>13, <1>14 DEF OverlayNext

(* The worker of a relay path ends by its own step, which takes the path   *)
(* away (deletePath of sendCoverMessageWorker), or with the node.          *)
LEMMA WorkersStay ==
  ASSUME Shape, [OverlayNext]_overlayVars, NEW n \in Node, path'[n] = path[n], Tended(n)
  PROVE  Tended(n)'
<1>1. HasRelayPath(n)' /\ Leads(n, path[n])
  BY HeldTypes DEF Tended, HasRelayPath, Shape
<1>2. PICK c \in Conn : c = path[n].conn
  BY <1>1 DEF Leads, RelayPath
<1>3. link[c] # None /\ link[c].from = n /\ link[c].to = path[n].next /\ HasWorker(c)
  BY <1>1, <1>2 DEF Leads, ConnOf, Tended
<1>4. ~SenderEnds(c) /\ ~Restart(n)
  <2>1. path'[n] # None
    BY <1>1 DEF HasRelayPath
  <2> QED BY <1>3, <2>1 DEF SenderEnds, Restart, Shape, OverlayTypeOK
<1>5. ~Waits(n, c) /\ ~Accepted(n, c)
  BY <1>3 DEF HasWorker, Waits, Accepted
<1>6. HasWorker(c)'
  BY <1>3, <1>4, <1>5, SenderMoves DEF HasWorker
<1> QED BY <1>1, <1>2, <1>6 DEF Tended

LEMMA AcceptedTended ==
  ASSUME Shape, NEW n \in Node, NEW c \in Conn, Accepted(n, c) PROVE Tended(n)'
<1>1. PICK p : p = [next |-> task[n].offer.next, next2 |-> task[n].offer.next2, conn |-> c]
  OBVIOUS
<1>2. path'[n] = p /\ p.conn = c
  BY <1>1 DEF Accepted, Shape, OverlayTypeOK
<1>3. HasRelayPath(n)'
  <2>1. task[n].offer \in Offer /\ task[n].offer.next2 # None
    BY DEF Accepted, Shape, TaskOf, Task, Asking
  <2>2. p \in RelayPath
    BY <1>1, <2>1 DEF RelayPath, Offer
  <2> QED BY <1>2, <2>2, Kinds DEF HasRelayPath
<1>4. link'[c].sender = "on"
  <2>1. link' = [link EXCEPT ![c].sender = "on"] /\ link[c] \in Link
    BY DEF Accepted, Waits, Shape, OverlayTypeOK
  <2> QED BY <2>1 DEF Shape, OverlayTypeOK, Link
<1> QED BY <1>2, <1>3, <1>4 DEF Tended, HasWorker

(* sendCoverMessageWorker, FIX (workers.go): a relay path whose worker has *)
(* ended, so that nothing will take it away, comes into being only where a *)
(* fix writes back a profile whose worker ended meanwhile.                 *)
THEOREM OnlyFixRevivesCorrect == OverlaySpec => OnlyFixRevives
<1>1. ASSUME Shape, [OverlayNext]_overlayVars, NEW n \in Node,
             HasRelayPath(n)', ~Tended(n)'
      PROVE  \/ HasRelayPath(n) /\ ~Tended(n)
             \/ report[n] # None /\ path'[n] = report[n].profile
  <2>1. PathMoves(n)
    BY <1>1, TableStep DEF TablesMove
  <2>2. CASE path'[n] = path[n]
    BY <1>1, <2>2, WorkersStay DEF HasRelayPath
  <2>3. CASE path'[n] \in {None, OwnPath}
    BY <1>1, <2>3, Kinds DEF HasRelayPath
  <2>4. CASE FixPath(n)
    BY <1>1, <2>4 DEF FixPath, Shape, OverlayTypeOK
  <2>5. ~\E c \in Conn : Accepted(n, c)
    BY <1>1, AcceptedTended
  <2> QED BY <2>1, <2>2, <2>3, <2>4, <2>5 DEF PathMoves
<1>2. Shape /\ [OverlayNext]_overlayVars =>
         [\A n \in Node :
             HasRelayPath(n)' /\ ~Tended(n)' =>
                \/ HasRelayPath(n) /\ ~Tended(n)
                \/ report[n] # None /\ path'[n] = report[n].profile]_overlayVars
  BY <1>1
<1> QED BY <1>2, ShapeCorrect, PTL DEF OverlaySpec, OnlyFixRevives

-----------------------------------------------------------------------------
(* Where an offer, a blacklisted profile and a path come from *)

Found(n) == task[n].stage \in Asking /\ task[n].offer.next2 # None

(* The hop that QueryPath found the tree at. *)
FoundAt(n, m) ==
    /\ path[m] # None /\ task'[n].offer = [next |-> m, next2 |-> path[m].next]
    /\ \/ /\ task'[n].again = (path[n] = None /\ n \in member)
          /\ path[n] # None => path[n].next2 = m
       \/ task[n].old # None /\ m = task[n].old.next2

OfferFrom(n) ==
    \/ Found(n) /\ task'[n].offer = task[n].offer /\ task'[n].again = task[n].again
    \/ AskProxy(n) /\ task'[n].offer = [next |-> Proxy, next2 |-> ImmutableStorage]
    \/ \E m \in Node : FoundAt(n, m)

LEMMA OfferMoves ==
  ASSUME Shape, NEW n \in Node, TaskMoves(n), Found(n)' PROVE OfferFrom(n)
<1>1. task'[n].stage \in Asking /\ task'[n].offer.next2 # None
  BY DEF Found
<1>2. CASE task'[n] = task[n]
  BY <1>1, <1>2 DEF OfferFrom, Found
<1>3. CASE AskProxy(n)
  BY <1>3, AskProxyTask DEF OfferFrom
<1>4. ASSUME NEW m \in Node, Query(n, m) PROVE OfferFrom(n)
  <2>1. path[m] # None /\ (path[n] # None => path[n].next2 = m)
    BY <1>4 DEF Query, Offers
  <2> QED BY <1>4, <2>1, QueryTask DEF OfferFrom, FoundAt
<1>5. ASSUME NEW m \in Node, task'[n].offer = Unverified(m) PROVE FALSE
  BY <1>1, <1>5 DEF Unverified
<1>6. CASE MoveUpQuery(n)
  <2>1. PICK m : m = task[n].old.next2
    OBVIOUS
  <2>2. /\ task[n].old # None /\ m \in Node
        /\ \/ task'[n].offer = Unverified(m)
           \/ Offers(m, n) /\ task'[n].offer = [next |-> m, next2 |-> path[m].next]
    BY <1>6, <2>1, MoveUpQueryTask
  <2> QED BY <1>5, <2>1, <2>2 DEF OfferFrom, FoundAt, Offers
<1>7. CASE Verify(n) \/ CheckCovers(n)
  <2>1. task'[n].offer = task[n].offer /\ task'[n].again = task[n].again
    <3>1. PICK offer : offer = task[n].offer
      OBVIOUS
    <3>2. GoesOnAs(n, "connect", offer) \/ GoesOnAs(n, "asked", offer)
      BY <1>7, <3>1, TaskGoesOnAs
    <3> QED BY <3>1, <3>2, GoesOn
  <2>2. task[n].stage \in Asking
    BY <1>7 DEF Verify, CheckCovers, Asking
  <2> QED BY <1>1, <2>1, <2>2 DEF OfferFrom, Found
<1>8. CASE NotVerified(n)
  <2>1. PICK m : m = task[n].offer.next
    OBVIOUS
  <2>2. m \in Node
    BY <1>8, <2>1 DEF NotVerified, Shape, TaskOf, Asking, Task, Offer
  <2>3. PICK offer : offer = Unverified(m)
    OBVIOUS
  <2>4. GoesOnAs(n, "connect", offer)
    BY <1>8, <2>1, <2>3, TaskGoesOnAs
  <2> QED BY <1>5, <2>2, <2>3, <2>4, GoesOn
<1>9. ASSUME task'[n].stage \in {"idle", "moveUp", "query", "setOpen"} PROVE FALSE
  BY <1>1, <1>9 DEF Asking
<1>10. CASE \/ Blacklist(n) \/ MoveUpVerifies(n) \/ (\E c \in Conn : Accepted(n, c))
  <2>1. CASE Blacklist(n)
    BY <1>2, <1>9, <2>1, BlacklistTask
  <2>2. CASE MoveUpVerifies(n)
    <3>1. PICK offer : offer = task[n].offer
      OBVIOUS
    <3>2. GoesOnAs(n, "query", offer)
      BY <2>2, <3>1, TaskGoesOnAs
    <3> QED BY <1>9, <3>2, GoesOn
  <2>3. CASE \E c \in Conn : Accepted(n, c)
    BY <1>9, <2>3, AcceptedTask
  <2> QED BY <1>10, <2>1, <2>2, <2>3
<1>11. \A m \in Node : ~QueryInVain(n, m)
  BY <1>5, QueryInVainTask
<1>12. task'[n] # Idle
  BY <1>9, Kinds
<1> QED
  BY <1>2, <1>3, <1>4, <1>6, <1>7, <1>8, <1>10, <1>11, <1>12 DEF TaskMoves

LEMMA OldMoves ==
  ASSUME Shape, NEW n \in Node, TaskMoves(n), task'[n].old # None
  PROVE  \/ task'[n].old = task[n].old
         \/ path[n] # None /\ task'[n].old = path[n]
<1>1. \A stage, offer : GoesOnAs(n, stage, offer) => task'[n].old = task[n].old
  BY GoesOn
<1>2. CASE Verify(n) \/ NotVerified(n) \/ CheckCovers(n) \/ MoveUpVerifies(n)
  BY <1>1, <1>2, TaskGoesOnAs
<1>3. CASE \/ AskProxy(n) \/ \E m \in Node : Query(n, m) \/ QueryInVain(n, m)
  BY <1>3, AskProxyTask, QueryTask, QueryInVainTask
<1>4. CASE \/ Blacklist(n) \/ MoveUpQuery(n) \/ \E c \in Conn : Accepted(n, c)
  BY <1>4, BlacklistTask, MoveUpQueryTask, AcceptedTask
<1> QED BY <1>2, <1>3, <1>4, Kinds DEF TaskMoves

LEMMA AcceptedPath ==
  ASSUME Shape, NEW n \in Node, NEW c \in Conn, Accepted(n, c)
  PROVE  /\ Found(n) /\ path'[n].next = task[n].offer.next
         /\ path'[n].next2 = task[n].offer.next2 /\ path'[n].conn = c
         /\ task[n].offer \in Offer
         /\ member' = member \cup {n} /\ (task[n].again => n \in rejoined')
         /\ \A k \in Node : k # n => path'[k] = path[k] /\ task'[k] = task[k]
         /\ report' = report /\ admitted' = admitted
<1>1. path'[n] = [next |-> task[n].offer.next, next2 |-> task[n].offer.next2, conn |-> c]
  BY DEF Accepted, Shape, OverlayTypeOK
<1>2. Found(n) /\ task[n].offer \in Offer
  BY DEF Accepted, Found, Asking, Shape, TaskOf, Task
<1> QED BY <1>1, <1>2 DEF Accepted, Shape, OverlayTypeOK

-----------------------------------------------------------------------------
(* Only nodes that have been in the tree are named in it. *)
InTree(p) == /\ p.next \in member \cup {ImmutableStorage}
             /\ p.next2 \in member \cup {ImmutableStorage, None}

Members ==
    /\ member # {} => Proxy \in member
    /\ \A n \in Node :
          /\ path[n] # None => n \in member /\ InTree(path[n])
          /\ report[n] # None => n \in member /\ InTree(report[n].profile)
          /\ task[n].old # None => n \in member /\ InTree(task[n].old)
          /\ Found(n) => InTree(task[n].offer)

LEMMA InitMembers == OverlayInit => Members
<1>1. OverlayInit => \A n \in Node : task[n].old = None /\ ~Found(n)
  BY Kinds DEF OverlayInit, Found, Asking
<1> QED BY <1>1 DEF OverlayInit, Members

(* A tree that opens has no members yet. *)
LEMMA OpensEmpty ==
  ASSUME Members, TreeOpens PROVE member = {} /\ member' = {Proxy}
  BY DEF Members, TreeOpens, OpenTree, AskProxy

LEMMA MembersStep ==
  ASSUME Shape, Members, [OverlayNext]_overlayVars PROVE Members'
<1>1. TablesMove
  BY TableStep
<1>2. member \subseteq member' /\ (member' # {} => Proxy \in member')
  <2>1. CASE TreeOpens
    BY <2>1, OpensEmpty
  <2>2. ASSUME NEW n \in Node, NEW c \in Conn, Accepted(n, c), member' = member \cup {n}
        PROVE  Proxy \in member
    <3>1. task[n].offer \in Offer /\ InTree(task[n].offer)
      BY <2>2, AcceptedPath DEF Members
    <3>2. task[n].offer.next \in member
      BY <3>1, Kinds DEF Offer, InTree
    <3> QED BY <3>2 DEF Members
  <2> QED BY <1>1, <2>1, <2>2 DEF TablesMove, HistoryMoves, Members
<1>3. ASSUME NEW p, InTree(p) PROVE InTree(p)'
  BY <1>2, <1>3 DEF InTree
<1>4. ASSUME NEW n \in Node, path'[n] # None PROVE n \in member' /\ InTree(path[n])'
  <2>1. CASE path'[n] = path[n]
    BY <1>2, <1>4, <2>1 DEF Members, InTree
  <2>2. CASE TreeOpens /\ n = Proxy /\ path'[n] = OwnPath
    BY <2>2, OpensEmpty, Kinds DEF InTree
  <2>3. CASE FixPath(n)
    <3>1. path'[n] = report[n].profile /\ report[n] # None
      BY <2>3 DEF FixPath, Shape, OverlayTypeOK
    <3> QED BY <1>2, <3>1 DEF Members, InTree
  <2>4. ASSUME NEW c \in Conn, Accepted(n, c) PROVE n \in member' /\ InTree(path[n])'
    <3>1. InTree(task[n].offer)
      BY <2>4, AcceptedPath DEF Members
    <3> QED BY <1>2, <2>4, <3>1, AcceptedPath DEF InTree
  <2> QED BY <1>1, <1>4, <2>1, <2>2, <2>3, <2>4 DEF TablesMove, PathMoves
<1>5. ASSUME NEW n \in Node, report'[n] # None
      PROVE  n \in member' /\ InTree(report[n].profile)'
  <2>1. CASE report'[n] = report[n]
    BY <1>2, <1>5, <2>1 DEF Members, InTree
  <2>2. CASE Finds(n)
    <3>1. n \in member /\ InTree(path[n]) /\ path[n].next \in Node
      BY <2>2, FindsLeads DEF Members, Leads, RelayPath
    <3>2. path[path[n].next] # None => InTree(path[path[n].next])
      BY <3>1 DEF Members
    <3> QED BY <1>2, <2>2, <3>1, <3>2, FindsLeads DEF InTree
  <2> QED BY <1>1, <1>5, <2>1, <2>2 DEF TablesMove, ReportMoves
<1>6. ASSUME NEW n \in Node, task'[n].old # None PROVE n \in member' /\ InTree(task[n].old)'
  <2>1. n \in member /\ InTree(task'[n].old)
    BY <1>1, <1>6, OldMoves DEF TablesMove, Members
  <2> QED BY <1>2, <2>1 DEF InTree
<1>7. ASSUME NEW n \in Node, Found(n)' PROVE InTree(task[n].offer)'
  <2>1. OfferFrom(n)
    BY <1>1, <1>7, OfferMoves DEF TablesMove
  <2>2. CASE Found(n) /\ task'[n].offer = task[n].offer
    BY <1>2, <2>2 DEF Members, InTree
  <2>3. CASE AskProxy(n) /\ task'[n].offer = [next |-> Proxy, next2 |-> ImmutableStorage]
    BY <2>3, OpensEmpty DEF TreeOpens, InTree
  <2>4. ASSUME NEW m \in Node, FoundAt(n, m) PROVE InTree(task[n].offer)'
    <3>1. m \in member /\ InTree(path[m])
      BY <2>4 DEF FoundAt, Members
    <3> QED BY <1>2, <2>4, <3>1 DEF FoundAt, InTree
  <2> QED BY <2>1, <2>2, <2>3, <2>4 DEF OfferFrom
<1> QED BY <1>2, <1>4, <1>5, <1>6, <1>7 DEF Members

-----------------------------------------------------------------------------
(* The nodes can be numbered so that what a node has for next and next-next *)
(* hop, what its health round has read, and what it will connect to, has a *)
(* smaller number.  A node that joins for the first time is numbered then. *)
Below(r, n, p) == /\ p.next \in Node => r[p.next] < r[n]
                  /\ p.next2 \in Node => r[p.next2] < r[n]

Ranks(r) ==
    \A n \in Node :
        /\ path[n] # None => Below(r, n, path[n])
        /\ report[n] # None => Below(r, n, report[n].profile)
        /\ task[n].old # None => Below(r, n, task[n].old)
        /\ Found(n) /\ n \in member /\ ~task[n].again => Below(r, n, task[n].offer)

Ranked == rejoined = {} => \E r \in [Node -> Nat] : Ranks(r)

LEMMA InitRanked == OverlayInit => Ranked
<1> SUFFICES ASSUME OverlayInit PROVE \E r \in [Node -> Nat] : Ranks(r)
  BY DEF Ranked
<1> DEFINE r == [n \in Node |-> 0]
<1>1. r \in [Node -> Nat]
  OBVIOUS
<1>2. \A n \in Node : task[n].old = None /\ path[n] = None /\ report[n] = None /\ ~Found(n)
  BY Kinds DEF OverlayInit, Found, Asking
<1>3. Ranks(r)
  BY <1>2 DEF Ranks
<1> QED BY <1>1, <1>3

(* The numbers stay when nobody joins. *)
LEMMA RanksKept ==
  ASSUME Shape, NEW r \in [Node -> Nat], Ranks(r), TablesMove, member' = member,
         rejoined' = {}
  PROVE  Ranks(r)'
<1>1. ~TreeOpens
  <2> SUFFICES ASSUME TreeOpens PROVE FALSE
    OBVIOUS
  <2>1. member' = {Proxy} /\ Proxy \notin member
    BY DEF TreeOpens, OpenTree, AskProxy
  <2> QED BY <2>1
<1>2. ASSUME NEW n \in Node, path'[n] # None PROVE Below(r, n, path'[n])
  <2>1. CASE path'[n] = path[n]
    BY <1>2, <2>1 DEF Ranks
  <2>2. CASE FixPath(n)
    BY <2>2 DEF FixPath, Shape, OverlayTypeOK, Ranks
  <2>3. ASSUME NEW c \in Conn, Accepted(n, c) PROVE Below(r, n, path'[n])
    <3>1. n \in member /\ ~task[n].again /\ Found(n)
      BY <2>3, AcceptedPath
    <3>2. Below(r, n, task[n].offer)
      BY <3>1 DEF Ranks
    <3> QED BY <2>3, <3>2, AcceptedPath DEF Below
  <2> QED BY <1>1, <1>2, <2>1, <2>2, <2>3 DEF TablesMove, PathMoves
<1>3. ASSUME NEW n \in Node, report'[n] # None PROVE Below(r, n, report'[n].profile)
  <2>1. CASE report'[n] = report[n]
    BY <1>3, <2>1 DEF Ranks
  <2>2. CASE Finds(n)
    <3>1. /\ path[n] # None /\ path[n].next \in Node /\ report'[n].profile.next = path[n].next
          /\ \/ report'[n].profile.next2 = path[n].next2
             \/ /\ path[path[n].next] # None
                /\ report'[n].profile.next2 = path[path[n].next].next
      BY <2>2, FindsLeads DEF Leads, RelayPath
    <3>2. Below(r, n, path[n])
      BY <3>1 DEF Ranks
    <3>3. /\ path[path[n].next] # None /\ path[path[n].next].next \in Node
             => r[path[path[n].next].next] < r[path[n].next]
      BY <3>1 DEF Ranks, Below
    <3> QED BY <3>1, <3>2, <3>3 DEF Below
  <2> QED BY <1>3, <2>1, <2>2 DEF TablesMove, ReportMoves
<1>4. ASSUME NEW n \in Node, task'[n].old # None PROVE Below(r, n, task'[n].old)
  BY <1>4, OldMoves DEF TablesMove, Ranks
<1>5. ASSUME NEW n \in Node, Found(n)', n \in member, ~task'[n].again
      PROVE  Below(r, n, task'[n].offer)
  <2>1. OfferFrom(n)
    BY <1>5, OfferMoves DEF TablesMove
  <2>2. CASE Found(n) /\ task'[n].offer = task[n].offer /\ task'[n].again = task[n].again
    BY <1>5, <2>2 DEF Ranks
  <2>3. ASSUME NEW m \in Node, FoundAt(n, m) PROVE Below(r, n, task'[n].offer)
    <3>1. r[m] < r[n]
      BY <1>5, <2>3 DEF FoundAt, Ranks, Below
    <3>2. path[m].next \in Node => r[path[m].next] < r[m]
      BY <2>3 DEF FoundAt, Ranks, Below
    <3> QED BY <2>3, <3>1, <3>2 DEF FoundAt, Below
  <2> QED BY <1>1, <2>1, <2>2, <2>3 DEF OfferFrom, TreeOpens
<1> QED BY <1>2, <1>3, <1>4, <1>5 DEF Ranks, Below

(* A node that joins is numbered above what it connects to; nobody names it. *)
LEMMA JoinRanks ==
  ASSUME NEW r \in [Node -> Nat], Ranks(r), Shape, Members, NEW n \in Node, NEW c \in Conn,
         Accepted(n, c), n \notin member
  PROVE  \E s \in [Node -> Nat] : Ranks(s)'
<1> DEFINE m == task[n].offer.next
           two == task[n].offer.next2
<1>1. PICK top \in Nat : /\ m \in Node => r[m] < top
                         /\ two \in Node => r[two] < top
  <2>1. CASE m \in Node /\ two \in Node
    <3>1. r[m] + r[two] + 1 \in Nat /\ r[m] < r[m] + r[two] + 1 /\ r[two] < r[m] + r[two] + 1
      BY <2>1
    <3> QED BY <3>1
  <2>2. CASE m \in Node /\ two \notin Node
    <3>1. r[m] + 1 \in Nat /\ r[m] < r[m] + 1
      BY <2>2
    <3> QED BY <2>2, <3>1
  <2>3. CASE m \notin Node /\ two \in Node
    <3>1. r[two] + 1 \in Nat /\ r[two] < r[two] + 1
      BY <2>3
    <3> QED BY <2>3, <3>1
  <2>4. CASE m \notin Node /\ two \notin Node
    BY <2>4
  <2> QED BY <2>1, <2>2, <2>3, <2>4
<1> DEFINE s == [r EXCEPT ![n] = top]
<1>2. s \in [Node -> Nat] /\ s[n] = top /\ \A k \in Node : k # n => s[k] = r[k]
  BY <1>1
<1> HIDE DEF s
<1>3. ASSUME NEW k \in member, k \in Node, NEW p, InTree(p), Below(r, k, p)
      PROVE  Below(s, k, p)
  BY <1>2, <1>3, Kinds DEF InTree, Below
<1>4. /\ InTree(task[n].offer) /\ path'[n].next = m /\ path'[n].next2 = two
      /\ member' = member \cup {n} /\ report' = report
      /\ \A k \in Node : k # n => path'[k] = path[k] /\ task'[k] = task[k]
  BY AcceptedPath DEF Members
<1>5. path[n] = None /\ report[n] = None /\ task[n].old = None
  BY DEF Members
<1>6. task'[n].old = None /\ ~Found(n)'
  BY <1>5, AcceptedTask DEF Found, Asking
<1>7. ASSUME NEW k \in Node, k # n
      PROVE  /\ path'[k] # None => Below(s, k, path'[k])
             /\ report'[k] # None => Below(s, k, report'[k].profile)
             /\ task'[k].old # None => Below(s, k, task'[k].old)
             /\ Found(k)' /\ k \in member' /\ ~task'[k].again => Below(s, k, task'[k].offer)
  <2>1. path[k] # None => Below(s, k, path[k])
    BY <1>3 DEF Members, Ranks
  <2>2. report[k] # None => Below(s, k, report[k].profile)
    BY <1>3 DEF Members, Ranks
  <2>3. task[k].old # None => Below(s, k, task[k].old)
    BY <1>3 DEF Members, Ranks
  <2>4. Found(k) /\ k \in member /\ ~task[k].again => Below(s, k, task[k].offer)
    BY <1>3 DEF Members, Ranks
  <2>5. (Found(k)' <=> Found(k)) /\ (k \in member' => k \in member)
    BY <1>4, <1>7 DEF Found
  <2> QED BY <1>4, <1>7, <2>1, <2>2, <2>3, <2>4, <2>5
<1>8. Below(s, n, path'[n])
  BY <1>1, <1>2, <1>4, Kinds DEF InTree, Below
<1>9. Ranks(s)'
  BY <1>4, <1>5, <1>6, <1>7, <1>8 DEF Ranks, Below
<1> QED BY <1>2, <1>9

(* The tree opens with the proxy alone in it. *)
LEMMA FirstRanks ==
  ASSUME Shape, Members, TablesMove, TreeOpens
  PROVE  \E r \in [Node -> Nat] : Ranks(r)'
<1> DEFINE r == [k \in Node |-> 0]
<1>1. r \in [Node -> Nat]
  OBVIOUS
<1> HIDE DEF r
<1>2. member = {} /\ member' = {Proxy}
  BY OpensEmpty
<1>3. ASSUME NEW n \in Node
      PROVE  path[n] = None /\ report[n] = None /\ task[n].old = None /\ ~Found(n)
  <2>1. Found(n) => task[n].offer \in Offer /\ InTree(task[n].offer)
    BY DEF Found, Members, Shape, TaskOf, Task
  <2> QED BY <1>2, <2>1, Kinds DEF Members, InTree, Offer
<1>4. report' = report
  BY DEF TreeOpens, OpenTree, AskProxy
<1>5. path' = [path EXCEPT ![Proxy] = OwnPath]
  BY DEF TreeOpens, OpenTree, AskProxy
<1>6. ASSUME NEW n \in Node PROVE path'[n] \in {None, OwnPath}
  BY <1>3, <1>5, Kinds DEF Shape, OverlayTypeOK
<1>7. ASSUME NEW n \in Node PROVE task'[n].old = None
  BY <1>3, OldMoves DEF TablesMove
<1>8. ASSUME NEW n \in Node, Found(n)' PROVE n \notin member'
  <2>1. OfferFrom(n)
    BY <1>8, OfferMoves DEF TablesMove
  <2>2. AskProxy(n)
    BY <1>3, <2>1 DEF OfferFrom, FoundAt
  <2> QED BY <1>2, <2>2 DEF AskProxy
<1>9. \A n \in Node : path'[n] # None => Below(r, n, path'[n])
  BY <1>6, Kinds DEF Below
<1>10. Ranks(r)'
  BY <1>3, <1>4, <1>7, <1>8, <1>9 DEF Ranks, Below
<1> QED BY <1>1, <1>10

(* Nobody forgets who has joined again or restarted. *)
LEMMA HistoryGrows ==
  ASSUME Shape, [OverlayNext]_overlayVars
  PROVE  rejoined \subseteq rejoined' /\ restarted \subseteq restarted'
  BY TableStep DEF TablesMove, HistoryMoves

LEMMA RankedStep ==
  ASSUME Shape, Members, Ranked, [OverlayNext]_overlayVars PROVE Ranked'
<1>1. TablesMove /\ rejoined \subseteq rejoined'
  BY TableStep, HistoryGrows
<1> SUFFICES ASSUME rejoined' = {} PROVE \E r \in [Node -> Nat] : Ranks(r)'
  BY DEF Ranked
<1>2. PICK r \in [Node -> Nat] : Ranks(r)
  BY <1>1 DEF Ranked
<1>3. CASE member' = member
  BY <1>1, <1>2, <1>3, RanksKept
<1>4. CASE TreeOpens
  BY <1>1, <1>4, FirstRanks
<1>5. ASSUME NEW n \in Node, NEW c \in Conn, Accepted(n, c), member' = member \cup {n}
      PROVE  \E s \in [Node -> Nat] : Ranks(s)'
  <2>1. CASE n \in member
    BY <1>3, <1>5, <2>1
  <2>2. CASE n \notin member
    BY <1>2, <1>5, <2>2, JoinRanks
  <2> QED BY <2>1, <2>2
<1> QED BY <1>1, <1>3, <1>4, <1>5 DEF TablesMove, HistoryMoves

-----------------------------------------------------------------------------
LEMMA RanksAcyclic ==
  ASSUME NEW r \in [Node -> Nat], Ranks(r) PROVE Acyclic
<1> SUFFICES ASSUME NEW S \in (SUBSET {n \in Node : path[n] # None}) \ {{}}
             PROVE  \E n \in S : path[n].next \notin S
  BY DEF Acyclic
<1> DEFINE T == {r[n] : n \in S}
<1>1. T \in SUBSET Nat /\ T # {}
  OBVIOUS
<1> HIDE DEF T
<1>2. PICK x \in T : \A y \in T : x <= y
  BY <1>1, Smallest
<1>3. PICK n \in S : \A m \in S : r[n] <= r[m]
  BY <1>2 DEF T
<1>4. path[n].next \in Node => r[path[n].next] < r[n]
  BY DEF Ranks, Below
<1> QED BY <1>3, <1>4

(* However nodes connect, move up, write back what they have read of their *)
(* next-next hops (QueryPath, ConnectPath, MoveUp, checkPathsHealthWorker),*)
(* leave and restart, next hops make no loop before a node that had lost   *)
(* the tree joins it again.                                                *)
THEOREM TreeUnlessRejoinedCorrect == OverlaySpec => []TreeUnlessRejoined
<1>1. OverlayInit => Members /\ Ranked
  BY InitMembers, InitRanked
<1>2. Shape /\ Members /\ Ranked /\ [OverlayNext]_overlayVars => Members' /\ Ranked'
  BY MembersStep, RankedStep
<1>3. Ranked => TreeUnlessRejoined
  BY RanksAcyclic DEF Ranked, TreeUnlessRejoined
<1> QED
  BY <1>1, <1>2, <1>3, ShapeCorrect, PTL DEF OverlaySpec

-----------------------------------------------------------------------------
(* How a path goes, and a worker comes *)

(* deletePath of sendCoverMessageWorker is what takes a path away, or the  *)
(* end of the node.                                                        *)
LEMMA PathGoes ==
  ASSUME Shape, [OverlayNext]_overlayVars, NEW n \in Node, path[n] # None, path'[n] = None
  PROVE  \/ Restart(n)
         \/ \E c \in Conn : /\ SenderEnds(c) /\ link[c].from = n
                            /\ path[n].next = link[c].to
<1>1. path \in [Node -> Profile \cup {None}]
  BY DEF Shape, OverlayTypeOK
<1>2. path'[n] # path[n] /\ path'[n] # OwnPath
  BY Kinds
<1>3. ~OpenTree /\ \A k \in Node : ~AskProxy(k)
  BY <1>1, <1>2 DEF OpenTree, AskProxy
<1>4. ASSUME NEW k \in Node, NEW c \in Conn, Accepted(k, c) PROVE FALSE
  BY <1>1, <1>2, <1>4, AcceptedTended DEF Accepted, Tended, HasRelayPath
<1>5. ASSUME NEW k \in Node, FixPath(k) PROVE FALSE
  <2>1. report[k].profile \in Profile
    BY <1>5, Kinds DEF FixPath, Shape, Leads
  <2> QED BY <1>1, <1>2, <1>5, <2>1, Kinds DEF FixPath
<1>6. ASSUME NEW k \in Node, TaskStarts(k) \/ TaskGoesOn(k) \/ Answers(k) \/ HealthStep(k)
      PROVE  FALSE
  BY <1>2, <1>3, <1>4, <1>5, <1>6
     DEF TaskStarts, Query, QueryInVain, TaskGoesOn, Verify, NotVerified, CheckCovers, Fail, SetOpen,
         MoveUpVerifies, MoveUpFails, MoveUpGivesUp, MoveUpQuery, Answers, CheckPath, Insert,
         HealthStep, Blacklist, FindAbandoned, FindUnanswered, FindChanged, Reports, CleanPath
<1>7. ~UNCHANGED overlayVars
  BY <1>2 DEF overlayVars
<1>8. ASSUME NEW k \in Node, Restart(k) PROVE k = n
  BY <1>1, <1>2, <1>8 DEF Restart
<1>9. ASSUME NEW c \in Conn, SenderEnds(c) \/ HandlerEnds(c)
      PROVE  SenderEnds(c) /\ link[c].from = n /\ path[n].next = link[c].to
  BY <1>1, <1>2, <1>9 DEF SenderEnds, HandlerEnds
<1> QED
  BY <1>3, <1>6, <1>7, <1>8, <1>9 DEF OverlayNext

LEMMA WorkerFrom ==
  ASSUME Shape, [OverlayNext]_overlayVars, NEW c \in Conn, link[c] # None, HasWorker(c)'
  PROVE  HasWorker(c) \/ Accepted(link[c].from, c)
  BY SenderMoves DEF HasWorker

-----------------------------------------------------------------------------
(* The worker of a connection was started with the path of an older one. *)
OpenedInOrder == \A c, d \in Conn : d < c /\ link[c] # None => link[d] # None
ForwardIsOlder ==
    \A c \in Conn :
        link[c] # None => link[c].forward.conn = None \/ link[c].forward.conn < c
Older == OpenedInOrder /\ ForwardIsOlder

LEMMA InitOlder == OverlayInit => Older
  BY DEF OverlayInit, Older, OpenedInOrder, ForwardIsOlder

LEMMA OlderStep == Shape /\ Older /\ [OverlayNext]_overlayVars => Older'
<1> SUFFICES ASSUME Shape, Older, [OverlayNext]_overlayVars PROVE Older'
  OBVIOUS
<1>1. Kept /\ (OpensNone \/ Inserts)
  BY LinkStep
<1>2. CASE OpensNone
  BY <1>1, <1>2 DEF Older, OpenedInOrder, ForwardIsOlder, Kept, OpensNone
<1>3. ASSUME NEW n \in Node, NEW c \in Conn, Insert(n, c) PROVE Older'
  <2>1. /\ link[c] = None /\ link'[c] # None /\ link'[c].forward = admitted[n].forward
        /\ \A d \in Conn : d # c => link'[d] = link[d]
    BY <1>3, InsertLinks
  <2>2. \A d \in Conn : d < c => link[d] # None
    BY <1>3 DEF Insert, IsNext
  <2>3. OpenedInOrder'
    <3> SUFFICES ASSUME NEW d \in Conn, NEW e \in Conn, e < d, link'[d] # None
                 PROVE  link'[e] # None
      BY DEF OpenedInOrder
    <3>1. CASE d = c
      BY <2>1, <2>2, <3>1
    <3>2. CASE d # c
      BY <2>1, <3>2 DEF Older, OpenedInOrder
    <3> QED BY <3>1, <3>2
  <2>4. PICK f : f = admitted[n].forward.conn
    OBVIOUS
  <2>5. f = None \/ f < c
    <3>1. f = None \/ (f \in Conn /\ link[f] # None)
      BY <1>3, <2>4 DEF Insert, Shape, Forwards, ConnOf
    <3>2. f \in Conn /\ link[f] # None => f < c \/ f = c \/ c < f
      BY OverlayAssumption
    <3> QED BY <2>1, <3>1, <3>2 DEF Older, OpenedInOrder
  <2>6. ForwardIsOlder'
    <3> SUFFICES ASSUME NEW d \in Conn, link'[d] # None
                 PROVE  link'[d].forward.conn = None \/ link'[d].forward.conn < d
      BY DEF ForwardIsOlder
    <3>1. CASE d = c
      BY <2>1, <2>4, <2>5, <3>1
    <3>2. CASE d # c
      BY <2>1, <3>2 DEF Older, ForwardIsOlder
    <3> QED BY <3>1, <3>2
  <2> QED BY <2>3, <2>6 DEF Older
<1> QED BY <1>1, <1>2, <1>3 DEF Inserts

-----------------------------------------------------------------------------
(* Until the proxy restarts it keeps the path that it opened the tree with, *)
(* and every cover of it is served with that path.                         *)
ProxyLasts ==
    Proxy \notin restarted =>
        /\ Proxy \in member => path[Proxy] = OwnPath
        /\ report[Proxy] = None /\ task[Proxy].old = None /\ ~Found(Proxy)
        /\ \A n \in Node :
              admitted[n] # None /\ admitted[n].to = Proxy =>
                  admitted[n].forward \in {None, RouteOf(OwnPath)}
        /\ \A c \in Conn :
              link[c] # None /\ link[c].to = Proxy => link[c].forward = RouteOf(OwnPath)

LEMMA InitProxyLasts == OverlayInit => ProxyLasts
  BY Kinds DEF OverlayInit, ProxyLasts, Found, Asking

LEMMA ProxyStep ==
  ASSUME Shape, Members, ProxyLasts, [OverlayNext]_overlayVars PROVE ProxyLasts'
<1> SUFFICES ASSUME Proxy \notin restarted' PROVE ProxyLasts'
  BY DEF ProxyLasts
<1>1. Kept /\ (OpensNone \/ Inserts) /\ TablesMove /\ Shape' /\ Proxy \in Node
  BY LinkStep, TableStep, ShapeStep, Kinds
<1>2. /\ PathMoves(Proxy) /\ TaskMoves(Proxy) /\ ReportMoves(Proxy) /\ HistoryMoves
      /\ Proxy \notin restarted
  BY <1>1 DEF TablesMove, HistoryMoves
<1>3. /\ path[Proxy] = IF Proxy \in member THEN OwnPath ELSE None
      /\ Proxy \notin member => \A n \in Node : path[n] = None
      /\ report[Proxy] = None /\ task[Proxy].old = None /\ ~Found(Proxy)
      /\ ~HasRelayPath(Proxy)
  BY <1>1, <1>2, Kinds DEF ProxyLasts, Members, HasRelayPath
<1>4. \A c \in Conn : ~Accepted(Proxy, c)
  BY <1>1, <1>3, AcceptedPath
<1>5. ASSUME Proxy \in member' PROVE path'[Proxy] = OwnPath
  <2>1. CASE Proxy \notin member
    <3>1. TreeOpens
      BY <1>1, <1>2, <1>4, <1>5, <2>1 DEF HistoryMoves
    <3> QED BY <1>1, <3>1 DEF TreeOpens, OpenTree, AskProxy, Shape, OverlayTypeOK
  <2>2. CASE Proxy \in member
    <3>1. path[Proxy] = OwnPath /\ ~FixPath(Proxy)
      BY <1>3, <2>2 DEF FixPath
    <3>2. path'[Proxy] # None
      <4>1. ASSUME NEW c \in Conn, SenderEnds(c), path[Proxy].next = link[c].to PROVE FALSE
        <5>1. link[c].to \in Node
          BY <4>1 DEF SenderEnds, Shape, OverlayTypeOK, Link
        <5> QED BY <3>1, <4>1, <5>1, Kinds
      <4>2. ~Restart(Proxy)
        BY DEF Restart
      <4> QED BY <1>1, <3>1, <4>1, <4>2, PathGoes, Kinds
    <3> QED BY <1>2, <1>4, <3>1, <3>2 DEF PathMoves
  <2> QED BY <2>1, <2>2
<1>6. report'[Proxy] = None
  BY <1>2, <1>3 DEF ReportMoves, Finds, FindAbandoned, FindUnanswered, FindChanged, Examines
<1>7. task'[Proxy].old = None
  <2>1. task'[Proxy].old # None => task'[Proxy].old \in RelayPath
    BY <1>1 DEF Shape, TaskOf
  <2> QED BY <1>1, <1>2, <1>3, <2>1, OldMoves, Kinds
<1>8. ~Found(Proxy)'
  <2>1. ~OfferFrom(Proxy)
    BY <1>1, <1>3, Kinds DEF OfferFrom, FoundAt, AskProxy
  <2> QED BY <1>1, <1>2, <2>1, OfferMoves
<1>9. ASSUME NEW n \in Node, admitted'[n] # None, admitted'[n].to = Proxy
      PROVE  admitted'[n].forward \in {None, RouteOf(OwnPath)}
  <2>1. PICK own : own = RouteOf(OwnPath)
    OBVIOUS
  <2>2. CASE admitted'[n] = admitted[n]
    BY <1>2, <1>9, <2>2 DEF ProxyLasts
  <2>3. CASE AskProxy(n)
    <3>1. admitted'[n] = [to |-> Proxy, forward |-> own]
      BY <2>1, <2>3, AdmissionLooks
    <3> QED BY <2>1, <3>1
  <2>4. CASE CheckCovers(n)
    <3>1. PICK m : m = task[n].offer.next
      OBVIOUS
    <3>2. admitted'[n] = [to |-> m, forward |-> None]
      BY <2>4, <3>1, AdmissionLooks
    <3> QED BY <3>2
  <2>5. CASE CheckPath(n)
    <3>1. PICK m : m = admitted[n].to
      OBVIOUS
    <3>2. PICK f : f = RouteOf(path[m])
      OBVIOUS
    <3>3. admitted'[n] = IF path[m] = None THEN None ELSE [to |-> m, forward |-> f]
      BY <2>5, <3>1, <3>2, AdmissionLooks
    <3>4. m = Proxy /\ path[m] # None /\ admitted'[n].forward = f
      BY <1>9, <3>3
    <3>5. path[m] = OwnPath
      BY <1>3, <3>4
    <3> QED BY <3>2, <3>4, <3>5
  <2>6. AdmittedMoves(n)
    BY <1>1 DEF TablesMove
  <2> QED BY <1>9, <2>2, <2>3, <2>4, <2>5, <2>6 DEF AdmittedMoves
<1>10. ASSUME NEW c \in Conn, link'[c] # None, link'[c].to = Proxy
       PROVE  link'[c].forward = RouteOf(OwnPath)
  <2>1. CASE link[c] # None
    BY <1>1, <1>2, <1>10, <2>1 DEF Kept, ProxyLasts
  <2>2. CASE link[c] = None
    <3>1. PICK n \in Node, d \in Conn : Insert(n, d)
      BY <1>1, <1>10, <2>2 DEF OpensNone, Inserts
    <3>2. /\ link'[c].forward = admitted[n].forward /\ link'[c].to = admitted[n].to
          /\ admitted[n] # None /\ admitted[n].forward # None
      BY <1>10, <2>2, <3>1, InsertLinks DEF Insert
    <3> QED BY <1>2, <1>10, <3>2 DEF ProxyLasts
  <2> QED BY <2>1, <2>2
<1> QED BY <1>5, <1>6, <1>7, <1>8, <1>9, <1>10 DEF ProxyLasts

-----------------------------------------------------------------------------
(* Only the proxy has the path that leads to the storage, and a node's only *)
(* connection, while it has a worker, is that of its path.                 *)
OwnAtProxy ==
    /\ \A n \in Node :
          /\ path[n] # None /\ path[n].conn = None => n = Proxy
          /\ admitted[n] # None /\ admitted[n].forward # None
                /\ admitted[n].forward.conn = None => admitted[n].to = Proxy
    /\ \A c \in Conn :
          link[c] # None /\ link[c].forward.conn = None => link[c].to = Proxy

Only(c) == link[c] # None /\ \A d \in Conn : link[d] # None /\ d # c => link[d].from # link[c].from
PathIs(n, c) == path[n] # None /\ path[n].conn = c
OnlyHasPath == \A c \in Conn : Only(c) /\ HasWorker(c) => PathIs(link[c].from, c)

Ties == OwnAtProxy /\ OnlyHasPath

LEMMA InitTies == OverlayInit => Ties
  BY Kinds DEF OverlayInit, Ties, OwnAtProxy, OnlyHasPath, Only

LEMMA OwnStep ==
  ASSUME Shape, OwnAtProxy, [OverlayNext]_overlayVars PROVE OwnAtProxy'
<1>1. Kept /\ (OpensNone \/ Inserts) /\ TablesMove
  BY LinkStep, TableStep
<1>2. ASSUME NEW n \in Node, path'[n] # None, path'[n].conn = None PROVE n = Proxy
  <2>1. CASE path'[n] = path[n]
    BY <1>2, <2>1 DEF OwnAtProxy
  <2>2. ~FixPath(n)
    BY <1>2, Kinds DEF FixPath, Shape, OverlayTypeOK, Leads, RelayPath
  <2>3. \A c \in Conn : ~Accepted(n, c)
    BY <1>2, AcceptedTended DEF Tended, HasRelayPath
  <2> QED BY <1>1, <1>2, <2>1, <2>2, <2>3 DEF TablesMove, PathMoves
<1>3. ASSUME NEW n \in Node, admitted'[n] # None, admitted'[n].forward # None,
             admitted'[n].forward.conn = None
      PROVE  admitted'[n].to = Proxy
  <2>1. CASE admitted'[n] = admitted[n]
    BY <1>3, <2>1 DEF OwnAtProxy
  <2>2. CASE AskProxy(n)
    BY <2>2, AdmissionTo
  <2>3. CASE CheckCovers(n)
    <3>1. PICK m : m = task[n].offer.next
      OBVIOUS
    <3>2. admitted'[n] = [to |-> m, forward |-> None]
      BY <2>3, <3>1, AdmissionLooks
    <3> QED BY <1>3, <3>2
  <2>4. CASE CheckPath(n)
    <3>1. PICK m : m = admitted[n].to
      OBVIOUS
    <3>2. PICK f : f = RouteOf(path[m])
      OBVIOUS
    <3>3. m \in Node /\ admitted'[n] = IF path[m] = None THEN None ELSE [to |-> m, forward |-> f]
      BY <2>4, <3>1, <3>2, AdmissionLooks
    <3>4. path[m] # None /\ f.conn = None /\ admitted'[n].to = m
      BY <1>3, <3>3
    <3>5. path[m].conn = None
      BY <3>2, <3>4 DEF RouteOf
    <3> QED BY <3>3, <3>4, <3>5 DEF OwnAtProxy
  <2>5. AdmittedMoves(n)
    BY <1>1 DEF TablesMove
  <2> QED BY <1>3, <2>1, <2>2, <2>3, <2>4, <2>5 DEF AdmittedMoves
<1>4. ASSUME NEW c \in Conn, link'[c] # None, link'[c].forward.conn = None
      PROVE  link'[c].to = Proxy
  <2>1. CASE link[c] # None
    BY <1>1, <1>4, <2>1 DEF Kept, OwnAtProxy
  <2>2. CASE link[c] = None
    <3>1. PICK n \in Node, d \in Conn : Insert(n, d)
      BY <1>1, <1>4, <2>2 DEF OpensNone, Inserts
    <3>2. /\ link'[c].forward = admitted[n].forward /\ link'[c].to = admitted[n].to
          /\ admitted[n] # None /\ admitted[n].forward # None
      BY <1>4, <2>2, <3>1, InsertLinks DEF Insert
    <3> QED BY <1>4, <3>2 DEF OwnAtProxy
  <2> QED BY <2>1, <2>2
<1> QED BY <1>2, <1>3, <1>4 DEF OwnAtProxy

LEMMA OnlyPathStep ==
  ASSUME Shape, Members, OnlyHasPath, [OverlayNext]_overlayVars PROVE OnlyHasPath'
<1> SUFFICES ASSUME NEW c \in Conn, Only(c)', HasWorker(c)'
             PROVE  PathIs(link[c].from, c)'
  BY DEF OnlyHasPath
<1>1. Kept /\ (OpensNone \/ Inserts) /\ TablesMove
  BY LinkStep, TableStep
<1>2. PICK n : n = link'[c].from
  OBVIOUS
<1> SUFFICES path'[n] # None /\ path'[n].conn = c
  BY <1>2 DEF PathIs
<1>3. link[c] # None
  <2> SUFFICES ASSUME link[c] = None PROVE FALSE
    OBVIOUS
  <2>1. PICK k \in Node, d \in Conn : Insert(k, d)
    BY <1>1 DEF OpensNone, Inserts, Only
  <2>2. link'[c].sender \in {"asked", "off"}
    BY <2>1, InsertLinks DEF Only
  <2> QED BY <2>2 DEF HasWorker
<1>4. link[c].from = n /\ n \in Node /\ Only(c)
  <2>1. link[c].from = n /\ Only(c)
    BY <1>1, <1>2, <1>3 DEF Kept, Only
  <2> QED BY <1>3, <2>1 DEF Shape, OverlayTypeOK, Link
<1>5. \A d : ConnOf(n, d) => d = c
  BY <1>4 DEF ConnOf, Only
<1>6. ASSUME NEW d \in Conn, Accepted(n, d) PROVE path'[n] # None /\ path'[n].conn = c
  <2>1. d = c
    BY <1>5, <1>6 DEF Accepted, Waits, ConnOf
  <2> QED BY <1>4, <1>6, <2>1, AcceptedPath, AcceptedTended DEF Tended, HasRelayPath
<1>7. CASE ~\E d \in Conn : Accepted(n, d)
  <2>1. HasWorker(c)
    BY <1>3, <1>4, <1>7, WorkerFrom
  <2>2. path[n] # None /\ path[n].conn = c
    BY <1>4, <2>1 DEF OnlyHasPath, PathIs
  <2>3. path'[n] # None
    <3>1. ~SenderEnds(c)
      BY <1>3 DEF SenderEnds, HasWorker, Shape, OverlayTypeOK, Link
    <3>2. ~Restart(n)
      BY <1>3, <1>4, RestartLinks DEF HasWorker, Shape
    <3>3. \A d \in Conn : SenderEnds(d) => link[d] # None
      BY DEF SenderEnds
    <3> QED BY <1>4, <1>5, <2>2, <3>1, <3>2, <3>3, PathGoes DEF ConnOf
  <2>4. ~(TreeOpens /\ n = Proxy)
    BY <1>4, <2>2 DEF TreeOpens, OpenTree, AskProxy, Members
  <2>5. FixPath(n) => path'[n].conn = c
    BY <1>4, <1>5 DEF FixPath, Shape, OverlayTypeOK, Leads
  <2> QED BY <1>1, <1>4, <1>7, <2>2, <2>3, <2>4, <2>5 DEF TablesMove, PathMoves
<1> QED BY <1>6, <1>7

LEMMA TiesStep == Shape /\ Members /\ Ties /\ [OverlayNext]_overlayVars => Ties'
  BY OwnStep, OnlyPathStep DEF Ties
=============================================================================

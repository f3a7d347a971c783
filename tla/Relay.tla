-------------------------------- MODULE Relay --------------------------------
(***************************************************************************)
(* Application messages on their way through the tree of Overlay: cover    *)
(* messages, Publish and Forward (p2p/node.go), and what a parent does     *)
(* with what it receives (handleApplicationMessage, handleRealMessage in   *)
(* p2p/workers.go).                                                        *)
(*                                                                         *)
(* A message carries its type, its content and the key of its symmetric    *)
(* layer.  The asymmetric layer is for the public key the proxy had when   *)
(* it opened the tree: every profile of the tree has that one.             *)
(***************************************************************************)
EXTENDS Overlay, Sequences

CONSTANTS
    Msg,        \* bound: messages, each published once
    MinCovers   \* NUMBER_OF_COVER_NODES_FOR_PUBLISH

ASSUME RelayAssumption == MinCovers \in Nat /\ None \notin Msg /\ IsFiniteSet(Msg)

VARIABLES
    wire,  \* connection -> messages sent on it and not handled yet
    fate   \* message -> what became of it

vars == <<overlayVars, wire, fate>>

ApplicationMessage ==
    [type : {"Cover", "Real"}, msg : Msg \cup {None}, key : {SymKey[c] : c \in Conn}]

(* "unsent": never published, or Publish returned an error.  The last three *)
(* are the ends of a message that was not stored; "lost" is one that could  *)
(* not be read or passed on, or was sent to a worker that had ended.       *)
Fates == {"unsent", "sent", "stored", "lost", "ignored", "notStored"}

OnWire(c) == {wire[c][i].msg : i \in DOMAIN wire[c]}

Init ==
    /\ OverlayInit
    /\ wire = [c \in Conn |-> <<>>]
    /\ fate = [m \in Msg |-> "unsent"]

-----------------------------------------------------------------------------
(* codec.go, encoding.go *)

NewCoverMessage(key) == [type |-> "Cover", msg |-> None, key |-> key]
NewRealMessage(m, key) == [type |-> "Real", msg |-> m, key |-> key]

(* AES-GCM authenticates: another key does not decrypt, nor does one of     *)
(* another length.                                                         *)
SymmetricDecrypts(am, key) == am.key = key /\ key \in UsableKeys

AsymmetricDecrypts(n) == n = Proxy /\ n \notin restarted

-----------------------------------------------------------------------------
(* Sending *)

IsOpen(c) == c # None /\ link[c].sender # "off"

(* Encode on an open connection; the other end may be gone. *)
Encoded(c, am, w) ==
    wire' = IF link[c].handler = "off" THEN w ELSE [w EXCEPT ![c] = Append(@, am)]

Sent(c, m) ==
    fate' = [fate EXCEPT ![m] = IF link[c].handler = "off" THEN "lost" ELSE "sent"]

(* sendCoverMessageWorker, with the path it was started for.  Bound: only   *)
(* while no message is on its way.                                         *)
SendCover(c) ==
    /\ link[c] # None /\ link[c].sender = "on" /\ SymKey[c] \in UsableKeys
    /\ \A d \in Conn : wire[d] = <<>>
    /\ Encoded(c, NewCoverMessage(SymKey[c]), wire)
    /\ UNCHANGED <<overlayVars, fate>>

CanPublish(n) == Cardinality(CoversOf(n)) >= MinCovers /\ path[n] # None

(* Publish at the proxy. *)
PublishStores(n, m) ==
    /\ fate[m] = "unsent" /\ CanPublish(n) /\ path[n].next = ImmutableStorage
    /\ fate' = [fate EXCEPT ![m] = "stored"]
    /\ UNCHANGED <<overlayVars, wire>>

(* Publish: the key of the path, the connection of openConnections. *)
PublishSends(n, m) ==
    /\ fate[m] = "unsent" /\ CanPublish(n) /\ HasRelayPath(n)
    /\ SymKey[path[n].conn] \in UsableKeys /\ IsOpen(open[n])
    /\ Encoded(open[n], NewRealMessage(m, SymKey[path[n].conn]), wire)
    /\ Sent(open[n], m)
    /\ UNCHANGED overlayVars

-----------------------------------------------------------------------------
(* handleApplicationMessage, for the next message of a connection *)

Arrives(c) == wire[c] # <<>> /\ link[c].handler # "off"
Consumed(c) == wire' = [wire EXCEPT ![c] = Tail(@)]

Unreadable(c) ==
    LET am == Head(wire[c]) IN
    /\ Arrives(c) /\ ~SymmetricDecrypts(am, SecretKey[c])
    /\ Consumed(c)
    /\ fate' = IF am.type = "Real" THEN [fate EXCEPT ![am.msg] = "lost"] ELSE fate
    /\ UNCHANGED overlayVars

DiscardCover(c) ==
    /\ Arrives(c) /\ SymmetricDecrypts(Head(wire[c]), SecretKey[c])
    /\ Head(wire[c]).type = "Cover"
    /\ Consumed(c)
    /\ UNCHANGED <<overlayVars, fate>>

RealArrives(c) ==
    /\ Arrives(c) /\ SymmetricDecrypts(Head(wire[c]), SecretKey[c])
    /\ Head(wire[c]).type = "Real"

(* Mutant: what was given to the storage is read again. *)
StoreAgain(c, result) ==
    /\ RealArrives(c) /\ AsymmetricDecrypts(link[c].to)
    /\ fate' = [fate EXCEPT ![Head(wire[c]).msg] =
                   IF link[c].forward.next = ImmutableStorage THEN result ELSE "ignored"]
    /\ UNCHANGED <<overlayVars, wire>>

(* handleRealMessage: the private key decrypts.  The message is ignored     *)
(* when the worker's path leads elsewhere.  Store may fail.                *)
StoreReal(c, result) ==
    /\ RealArrives(c) /\ AsymmetricDecrypts(link[c].to)
    /\ fate' = [fate EXCEPT ![Head(wire[c]).msg] =
                   IF link[c].forward.next = ImmutableStorage THEN result ELSE "ignored"]
    /\ Consumed(c)
    /\ UNCHANGED overlayVars

(* Mutant: the message is passed on as it was encrypted by the cover. *)
ForwardAsIs(c) ==
    /\ RealArrives(c) /\ ~AsymmetricDecrypts(link[c].to)
    /\ IsOpen(open[link[c].to])
    /\ Encoded(open[link[c].to], Head(wire[c]), [wire EXCEPT ![c] = Tail(@)])
    /\ Sent(open[link[c].to], Head(wire[c]).msg)
    /\ UNCHANGED overlayVars

(* Mutant: the message stays where it was read. *)
ForwardKeeps(c) ==
    /\ RealArrives(c) /\ ~AsymmetricDecrypts(link[c].to)
    /\ link[c].forward.conn # None /\ IsOpen(open[link[c].to])
    /\ Encoded(open[link[c].to],
               NewRealMessage(Head(wire[c]).msg, SymKey[link[c].forward.conn]), wire)
    /\ Sent(open[link[c].to], Head(wire[c]).msg)
    /\ UNCHANGED overlayVars

(* Mutant: without a connection the message is kept for a later try. *)
ForwardRetries(c) ==
    LET m == Head(wire[c]).msg IN
    /\ RealArrives(c) /\ ~AsymmetricDecrypts(link[c].to)
    /\ IsOpen(open[link[c].to]) /\ link[c].forward.conn # None
    /\ Encoded(open[link[c].to], NewRealMessage(m, SymKey[link[c].forward.conn]),
               [wire EXCEPT ![c] = Tail(@)])
    /\ Sent(open[link[c].to], m)
    /\ UNCHANGED overlayVars

(* Mutant: the key is taken from the path the node has now. *)
ForwardNow(c) ==
    LET m == Head(wire[c]).msg
        n == link[c].to
    IN
    /\ RealArrives(c) /\ ~AsymmetricDecrypts(n)
    /\ HasRelayPath(n) /\ SymKey[path[n].conn] \in UsableKeys /\ IsOpen(open[n])
    /\ Encoded(open[n], NewRealMessage(m, SymKey[path[n].conn]), [wire EXCEPT ![c] = Tail(@)])
    /\ Sent(open[n], m)
    /\ UNCHANGED overlayVars

(* Forward: the key of the path the worker was started with, the connection *)
(* openConnections has now.                                                *)
Forward(c) ==
    LET m == Head(wire[c]).msg
        old == link[c].forward.conn
        now == open[link[c].to]
        rest == [wire EXCEPT ![c] = Tail(@)]
    IN
    /\ RealArrives(c) /\ ~AsymmetricDecrypts(link[c].to)
    /\ IF old # None /\ SymKey[old] \in UsableKeys /\ IsOpen(now)
       THEN Encoded(now, NewRealMessage(m, SymKey[old]), rest) /\ Sent(now, m)
       ELSE wire' = rest /\ fate' = [fate EXCEPT ![m] = "lost"]
    /\ UNCHANGED overlayVars

-----------------------------------------------------------------------------
(* What was sent to a worker that has ended is lost. *)

Closed(c) == link[c] # None /\ link[c].handler = "off"

LosesClosed ==
    /\ wire' = [c \in Conn |-> IF Closed(c)' THEN <<>> ELSE wire[c]]
    /\ fate' = [m \in Msg |->
          IF \E c \in Conn : Closed(c)' /\ m \in OnWire(c) THEN "lost" ELSE fate[m]]

Handle(c) ==
    \/ Unreadable(c) \/ DiscardCover(c) \/ Forward(c)
    \/ \E result \in {"stored", "notStored"} : StoreReal(c, result)

Next ==
    \/ OverlayNext /\ LosesClosed
    \/ \E c \in Conn : SendCover(c) \/ Handle(c)
    \/ \E n \in Node, m \in Msg : PublishStores(n, m) \/ PublishSends(n, m)

Spec == Init /\ [][Next]_vars

(* The workers at the ends of a connection go on: the parent's reads what   *)
(* there is, and each ends when the other has, when it is cancelled or     *)
(* when it cannot encrypt.  A task ends, as every request has a timeout,   *)
(* and a handler does.  The health round acts on what it reports, and sees *)
(* a next hop that has left: not at once, it waits for the MoveUps of the  *)
(* round.                                                                  *)
ConnStep(c) == Handle(c) \/ ((SenderEnds(c) \/ HandlerEnds(c)) /\ LosesClosed)

Fairness ==
    /\ \A c \in Conn : WF_vars(ConnStep(c))
    /\ \A n \in Node :
          /\ WF_vars(TaskGoesOn(n) /\ LosesClosed)
          /\ WF_vars(Answers(n) /\ LosesClosed)
          /\ WF_vars((CleanPath(n) \/ FixPath(n)) /\ LosesClosed)
          /\ SF_vars(FindAbandoned(n) /\ LosesClosed)

FairSpec == Spec /\ Fairness

-----------------------------------------------------------------------------
(* Properties *)

TypeOK ==
    /\ OverlayTypeOK
    /\ wire \in [Conn -> Seq(ApplicationMessage)]
    /\ fate \in [Msg -> Fates]

(* Wherever a message is on its way, it is there once.                      *)
SingleCopy ==
    \A m \in Msg, c, d \in Conn :
        \A i \in DOMAIN wire[c], j \in DOMAIN wire[d] :
            wire[c][i].msg = m =>
                fate[m] = "sent" /\ (wire[d][j].msg = m => c = d /\ i = j)

(* Relay implements Delivery: a message is stored, or given up, once and    *)
(* for all.  No path by which it travels and no replaced connection makes  *)
(* it turn up again.                                                       *)
Promised ==
    INSTANCE Delivery WITH
        accepted <- {m \in Msg : fate[m] # "unsent"},
        settled <- {m \in Msg : fate[m] \notin {"unsent", "sent"}},
        stored <- {m \in Msg : fate[m] = "stored"}
ImplementsDelivery == Promised!Spec

(* A message is encrypted with a key its sender has agreed on with a parent *)
(* of its own - this one, or one it had before or has by now.              *)
KeysOfTheSender ==
    \A c \in Conn : \A i \in DOMAIN wire[c] :
        \E d \in Conn : /\ link[d] # None /\ link[d].from = link[c].from
                        /\ wire[c][i].key = SymKey[d]

(* The proxy is never told by a worker's old path to ignore a message it    *)
(* can decrypt.                                                            *)
NothingIgnored == \A m \in Msg : fate[m] # "ignored"

(* The keys of different connections differ, as those of random secrets do. *)
DistinctKeys == \A c, d \in Conn : SymKey[c] = SecretKey[d] => c = d

Readable(m, c) ==
    \E i \in DOMAIN wire[c] : wire[c][i].msg = m /\ wire[c][i].key = SecretKey[c]

(* Forward has no hop limit, and next hops may make a loop once a node has  *)
(* rejoined.  Still no message goes round: a worker keeps the key of a     *)
(* path that is older than its own connection, so a message is passed on   *)
(* to an older connection each time or cannot be read there.               *)
HopsDescend ==
    [][DistinctKeys =>
        \A c, d \in Conn, m \in Msg :
            m \in OnWire(c) /\ m \notin OnWire(d) /\ Readable(m, d)' => d < c]_vars

(* No message stays on its way for ever, not even where next hops make a    *)
(* loop: the workers on its way forward it, drop it or end.                *)
RelayEnds == \A m \in Msg : []<>(fate[m] # "sent")

(* A message that is sent gets to the proxy's storage, unless a node        *)
(* restarts, a worker ends or a connection is replaced on the way, or a     *)
(* node on it has its path but not the connection yet.                     *)
Intact ==
    /\ restarted = {}
    /\ \A c \in Conn : link[c] # None => link[c].sender = "on" /\ link[c].handler = "on"
    /\ \A n \in Node : path[n] # None => open[n] = path[n].conn
    /\ \A c, d \in Conn : link[c] # None /\ link[d] # None /\ c # d
                             => link[c].from # link[d].from

StoredIfIntact ==
    \A m \in Msg : fate[m] = "sent" ~> fate[m] \in {"stored", "notStored"} \/ ~Intact

(* Every connection has a key of full length.                               *)
KeysEncrypt == \A c \in Conn : SymKey[c] \in UsableKeys

(* What StoredIfIntact rests on: with such keys, no step within an intact   *)
(* tree loses a message, one that is on its way or one published by then.  *)
IntactLosesNothing ==
    [][KeysEncrypt /\ Intact /\ Intact' =>
        \A m \in Msg : fate'[m] \in {fate[m], "sent", "stored", "notStored"}]_vars

(* A path whose key cannot encrypt goes with its worker, though the parent  *)
(* that accepted it has no reason to close it.                             *)
Mute(n) == Tended(n) /\ SymKey[path[n].conn] \notin UsableKeys
ShortKeyPathGoes == \A n \in Node : []<>~Mute(n)

(* No node keeps a path with its worker for ever whose next hop has left    *)
(* the tree, whether or not that one has told its covers: a cover that it  *)
(* inserted after MoveUp had cancelled the others has nobody to tell it.    *)
Abandoned(n) == Tended(n) /\ path[path[n].next] = None
AbandonedCoverLeaves == \A n \in Node : []<>~Abandoned(n)
=============================================================================

-------------------------- MODULE HealthRoundsProofs --------------------------
(***************************************************************************)
(* Proofs about HealthRounds for any number of nodes, writers and next     *)
(* hops.                                                                   *)
(***************************************************************************)
EXTENDS HealthRounds, TLAPS

(* The operations of a MutexMap. *)
LEMMA ReadLocks ==
  ASSUME NEW l \in LockOf(Node), NEW r \in Node, l.readers \cap l.waiting = {}
  PROVE  /\ RLock(l, r) \in LockOf(Node) /\ RUnlock(l, r) \in LockOf(Node)
         /\ RLock(l, r).writer = l.writer /\ RUnlock(l, r).writer = l.writer
         /\ RLock(l, r).readers \cup RLock(l, r).waiting = l.readers \cup l.waiting \cup {r}
         /\ r \notin l.readers \cup l.waiting => RLock(l, r).readers \cap RLock(l, r).waiting = {}
         /\ r \in l.readers
               => RUnlock(l, r).readers \cup RUnlock(l, r).waiting = (l.readers \cup l.waiting) \ {r}
         /\ RUnlock(l, r).readers \cap RUnlock(l, r).waiting = {}
  BY DEF LockOf, RLock, RUnlock

LEMMA WriteLocks ==
  ASSUME NEW l \in LockOf(Node), NEW w \in Writer
  PROVE  /\ Lock(l, w) \in LockOf(Node) /\ Unlock(l) \in LockOf(Node)
         /\ Lock(l, w).writer = w /\ Unlock(l).writer = Nobody
         /\ Lock(l, w).readers = l.readers /\ Lock(l, w).waiting = l.waiting
         /\ l.readers = {} => Unlock(l).readers \cup Unlock(l).waiting = l.readers \cup l.waiting
         /\ Unlock(l).readers \cap Unlock(l).waiting = {}
  BY DEF LockOf, Lock, Unlock

(* A node does not ask itself. *)
NotItself == \A n \in Node : round[n].todo \subseteq NextHops[n] /\ query[n][n] = "none"

Inv == TypeOK /\ NoLockLeaks /\ NotItself

LEMMA InitInv == Init => Inv
  BY HealthRoundsAssumption
  DEF Init, Inv, TypeOK, NoLockLeaks, NotItself, ReadersOf, Unlocked, Idle, LockOf, Round,
      QueryStage, WriterStage

Reading == {"size", "iterate", "log"}

(* One lock of a node's paths changes on the part of its readers. *)
LEMMA ReaderKeeps ==
  ASSUME Inv, NEW m \in Node, NEW l \in LockOf(Node), paths' = [paths EXCEPT ![m] = l],
         l.writer = paths[m].writer, l.readers \cap l.waiting = {},
         l.readers \cup l.waiting = ReadersOf(m)',
         \A n \in Node \ {m} : ReadersOf(n)' = ReadersOf(n), UNCHANGED writer
  PROVE  NoLockLeaks' /\ paths' \in [Node -> LockOf(Node)]
  BY DEF Inv, NoLockLeaks, TypeOK

(* A request of r at m goes to another stage. *)
LEMMA QueryMoves ==
  ASSUME Inv, NEW m \in Node, NEW r \in Node, m # r, NEW s \in QueryStage,
         query' = [query EXCEPT ![m][r] = s], \A n \in Node : round'[n].on = round[n].on
  PROVE  /\ query' \in [Node -> [Node -> QueryStage]]
         /\ \A n \in Node : query'[n][n] = query[n][n]
         /\ ReadersOf(m)' = IF s \in Reading THEN ReadersOf(m) \cup {r} ELSE ReadersOf(m) \ {r}
         /\ \A n \in Node \ {m} : ReadersOf(n)' = ReadersOf(n)
<1>1. query \in [Node -> [Node -> QueryStage]]
  BY DEF Inv, TypeOK
<1>2. /\ query' \in [Node -> [Node -> QueryStage]]
      /\ query'[m][r] = s /\ \A n \in Node : n # m => query'[n] = query[n]
      /\ \A k \in Node : k # r => query'[m][k] = query[m][k]
  BY <1>1
<1>3. \A n \in Node : query'[n][n] = query[n][n]
  BY <1>2
<1>4. ASSUME NEW k \in Node
      PROVE  k \in ReadersOf(m)' <=> IF k = r THEN s \in Reading ELSE k \in ReadersOf(m)
  BY <1>2 DEF ReadersOf, Reading
<1>5. ReadersOf(m)' \subseteq Node /\ ReadersOf(m) \subseteq Node
  BY DEF ReadersOf
<1>6. ReadersOf(m)' = IF s \in Reading THEN ReadersOf(m) \cup {r} ELSE ReadersOf(m) \ {r}
  BY <1>4, <1>5
<1>7. \A n \in Node \ {m} : ReadersOf(n)' = ReadersOf(n)
  BY <1>2 DEF ReadersOf
<1> QED
  BY <1>2, <1>3, <1>6, <1>7

LEMMA SettledType ==
  ASSUME Inv, NEW n \in Node, NEW h
  PROVE  /\ Settled(n, h) \in Round /\ Settled(n, h).on = round[n].on
         /\ Settled(n, h).todo \subseteq round[n].todo
<1>1. PICK rd \in Round : rd = round[n]
  BY DEF Inv, TypeOK
<1>2. Settled(n, h) = [rd EXCEPT !.todo = rd.todo \ {h}, !.asked = Nobody]
  BY <1>1 DEF Settled
<1>3. Settled(n, h) = [todo |-> rd.todo \ {h}, asked |-> Nobody, on |-> rd.on]
  BY <1>2 DEF Round
<1> QED
  BY <1>1, <1>3 DEF Round

LEMMA StartRoundInv ==
  ASSUME Inv, NEW n \in Node, StartRound(n) PROVE Inv'
<1> DEFINE l == RLock(paths[n], n)
<1>1. paths[n] \in LockOf(Node) /\ round \in [Node -> Round] /\ ~round[n].on
  BY DEF Inv, TypeOK, StartRound
<1>2. PICK rd : rd = [Idle EXCEPT !.todo = NextHops[n], !.on = TRUE]
  OBVIOUS
<1>3. rd \in Round /\ rd.on /\ rd.todo = NextHops[n]
  BY <1>2, HealthRoundsAssumption DEF Idle, Round
<1>4. round' = [round EXCEPT ![n] = rd] /\ paths' = [paths EXCEPT ![n] = l]
      /\ UNCHANGED <<covers, query, verify, writer>>
  BY <1>2 DEF StartRound
<1>5. /\ ReadersOf(n)' = ReadersOf(n) \cup {n} /\ n \notin ReadersOf(n)
      /\ \A k \in Node \ {n} : ReadersOf(k)' = ReadersOf(k)
  BY <1>1, <1>3, <1>4 DEF ReadersOf
<1>6. /\ l \in LockOf(Node) /\ l.writer = paths[n].writer /\ l.readers \cap l.waiting = {}
      /\ l.readers \cup l.waiting = ReadersOf(n)'
  <2>1. /\ paths[n].readers \cup paths[n].waiting = ReadersOf(n)
        /\ paths[n].readers \cap paths[n].waiting = {}
    BY DEF Inv, NoLockLeaks
  <2> QED BY <1>1, <1>5, <2>1, ReadLocks
<1> HIDE DEF l
<1>7. NoLockLeaks' /\ paths' \in [Node -> LockOf(Node)]
  BY <1>4, <1>5, <1>6, ReaderKeeps
<1> QED
  BY <1>1, <1>3, <1>4, <1>7 DEF Inv, TypeOK, NotItself

(* What Inv says of one node. *)
LEMMA AtNode ==
  ASSUME Inv, NEW n \in Node
  PROVE  /\ paths[n] \in LockOf(Node) /\ covers[n] \in LockOf(Node)
         /\ paths[n].readers \cup paths[n].waiting = ReadersOf(n)
         /\ paths[n].readers \cap paths[n].waiting = {}
         /\ round[n] \in Round
  BY DEF Inv, TypeOK, NoLockLeaks

(* A reader comes or goes. *)
LEMMA ReaderComes ==
  ASSUME Inv, NEW m \in Node, NEW r \in Node, r \notin ReadersOf(m),
         paths' = [paths EXCEPT ![m] = RLock(paths[m], r)],
         ReadersOf(m)' = ReadersOf(m) \cup {r},
         \A n \in Node \ {m} : ReadersOf(n)' = ReadersOf(n), UNCHANGED writer
  PROVE  NoLockLeaks' /\ paths' \in [Node -> LockOf(Node)]
<1>1. PICK l : l = RLock(paths[m], r)
  OBVIOUS
<1>2. /\ l \in LockOf(Node) /\ l.writer = paths[m].writer /\ l.readers \cap l.waiting = {}
      /\ l.readers \cup l.waiting = ReadersOf(m)'
  BY <1>1, AtNode, ReadLocks
<1> QED BY <1>1, <1>2, ReaderKeeps

LEMMA ReaderGoes ==
  ASSUME Inv, NEW m \in Node, NEW r \in Node, Reads(paths[m], r),
         paths' = [paths EXCEPT ![m] = RUnlock(paths[m], r)],
         ReadersOf(m)' = ReadersOf(m) \ {r},
         \A n \in Node \ {m} : ReadersOf(n)' = ReadersOf(n), UNCHANGED writer
  PROVE  NoLockLeaks' /\ paths' \in [Node -> LockOf(Node)]
<1>1. PICK l : l = RUnlock(paths[m], r)
  OBVIOUS
<1>2. r \in paths[m].readers
  BY DEF Reads
<1>3. /\ l \in LockOf(Node) /\ l.writer = paths[m].writer /\ l.readers \cap l.waiting = {}
      /\ l.readers \cup l.waiting = ReadersOf(m)'
  BY <1>1, <1>2, AtNode, ReadLocks
<1> QED BY <1>1, <1>3, ReaderKeeps

(* A next hop is settled for a round. *)
LEMMA SettlesRound ==
  ASSUME Inv, NEW n \in Node, NEW h, round' = [round EXCEPT ![n] = Settled(n, h)]
  PROVE  /\ round' \in [Node -> Round]
         /\ \A k \in Node : round'[k].on = round[k].on /\ round'[k].todo \subseteq round[k].todo
<1>1. PICK rd : rd = Settled(n, h)
  OBVIOUS
<1>2. rd \in Round /\ rd.on = round[n].on /\ rd.todo \subseteq round[n].todo
  BY <1>1, SettledType
<1> QED BY <1>1, <1>2 DEF Inv, TypeOK

LEMMA AskInv ==
  ASSUME Inv, NEW n \in Node, NEW h \in Node, Ask(n, h) PROVE Inv'
<1>1. /\ h \in round[n].todo /\ query[h][n] = "none"
      /\ query' = [query EXCEPT ![h][n] = "size"]
      /\ paths' = [paths EXCEPT ![h] = RLock(paths[h], n)]
      /\ UNCHANGED <<covers, verify, writer>>
  BY DEF Ask
<1>2. h # n
  BY <1>1, HealthRoundsAssumption DEF Inv, NotItself
<1>3. round' \in [Node -> Round] /\ \A k \in Node : /\ round'[k].on = round[k].on
                                                    /\ round'[k].todo = round[k].todo
  <2>1. PICK rd \in Round : rd = round[n]
    BY AtNode
  <2>2. PICK new : new = [todo |-> rd.todo, asked |-> h, on |-> rd.on]
    OBVIOUS
  <2>3. new \in Round
    BY <2>1, <2>2 DEF Round
  <2>4. new = [rd EXCEPT !.asked = h]
    BY <2>1, <2>2 DEF Round
  <2>5. round' = [round EXCEPT ![n] = new]
    BY <2>1, <2>4 DEF Ask
  <2> QED BY <2>1, <2>2, <2>3, <2>5 DEF Inv, TypeOK
<1>4. n \notin ReadersOf(h)
  BY <1>1, <1>2 DEF ReadersOf
<1>5. "size" \in QueryStage /\ "size" \in Reading
  BY DEF QueryStage, Reading
<1>6. /\ query' \in [Node -> [Node -> QueryStage]]
      /\ \A k \in Node : query'[k][k] = query[k][k]
      /\ ReadersOf(h)' = ReadersOf(h) \cup {n}
      /\ \A k \in Node \ {h} : ReadersOf(k)' = ReadersOf(k)
  BY <1>1, <1>2, <1>3, <1>5, QueryMoves
<1>7. NoLockLeaks' /\ paths' \in [Node -> LockOf(Node)]
  BY <1>1, <1>4, <1>6, ReaderComes
<1> QED
  BY <1>1, <1>3, <1>6, <1>7 DEF Inv, TypeOK, NotItself

LEMMA SettlesInv ==
  ASSUME Inv, NEW n \in Node, TimesOut(n) \/ \E h \in Node : Unreachable(n, h) PROVE Inv'
<1>1. /\ \E h : round' = [round EXCEPT ![n] = Settled(n, h)]
      /\ UNCHANGED <<paths, covers, query, verify, writer>>
  BY DEF TimesOut, Unreachable
<1>2. /\ round' \in [Node -> Round]
      /\ \A k \in Node : round'[k].on = round[k].on /\ round'[k].todo \subseteq round[k].todo
  BY <1>1, SettlesRound
<1>3. \A k \in Node : ReadersOf(k)' = ReadersOf(k)
  BY <1>1, <1>2 DEF ReadersOf
<1> QED
  BY <1>1, <1>2, <1>3 DEF Inv, TypeOK, NoLockLeaks, NotItself

LEMMA EndRoundInv ==
  ASSUME Inv, NEW n \in Node, EndRound(n) PROVE Inv'
<1>1. /\ Reads(paths[n], n) /\ round[n].on
      /\ round' = [round EXCEPT ![n] = Idle]
      /\ paths' = [paths EXCEPT ![n] = RUnlock(paths[n], n)]
      /\ UNCHANGED <<covers, query, verify, writer>>
  BY DEF EndRound, Iterating
<1>2. Idle \in Round /\ ~Idle.on /\ Idle.todo = {}
  BY DEF Idle, Round
<1>3. /\ round' \in [Node -> Round] /\ round'[n] = Idle
      /\ \A k \in Node \ {n} : round'[k] = round[k]
  BY <1>1, <1>2 DEF Inv, TypeOK
<1>4. /\ ReadersOf(n)' = ReadersOf(n) \ {n}
      /\ \A k \in Node \ {n} : ReadersOf(k)' = ReadersOf(k)
  BY <1>1, <1>2, <1>3 DEF ReadersOf
<1>5. NoLockLeaks' /\ paths' \in [Node -> LockOf(Node)]
  BY <1>1, <1>4, ReaderGoes
<1> QED
  BY <1>1, <1>2, <1>3, <1>5 DEF Inv, TypeOK, NotItself

(* The stages of a request: with the lock, without it, without it before    *)
(* and with it after.                                                      *)
LEMMA QueryInv ==
  ASSUME Inv, NEW m \in Node, NEW r \in Node, QueryStep(m, r) PROVE Inv'
<1>1. m # r
  BY DEF QueryStep, GetSize, StartIterate, Iterate, Reply, ReplyFails, Log, At, Inv, NotItself
<1>2. UNCHANGED <<covers, verify, writer>>
  BY DEF QueryStep, GetSize, StartIterate, Iterate, Reply, ReplyFails, Log
<1>3. /\ round' \in [Node -> Round]
      /\ \A k \in Node : round'[k].on = round[k].on /\ round'[k].todo \subseteq round[k].todo
  <2>1. round' = round \/ round' = [round EXCEPT ![r] = Settled(r, m)]
    BY DEF QueryStep, GetSize, StartIterate, Iterate, Reply, ReplyFails, Log
  <2> QED BY <2>1, SettlesRound DEF Inv, TypeOK
<1>4. PICK s \in QueryStage :
        /\ query' = [query EXCEPT ![m][r] = s]
        /\ \/ /\ query[m][r] \in Reading /\ Reads(paths[m], r) /\ s \notin Reading
              /\ paths' = [paths EXCEPT ![m] = RUnlock(paths[m], r)]
           \/ /\ query[m][r] \notin Reading /\ s \in Reading
              /\ paths' = [paths EXCEPT ![m] = RLock(paths[m], r)]
           \/ query[m][r] \notin Reading /\ s \notin Reading /\ paths' = paths
  <2> USE DEF QueryStage, Reading, GoesTo, At
  <2>1. CASE GetSize(m, r)
    BY <2>1 DEF GetSize
  <2>2. CASE StartIterate(m, r)
    BY <2>2 DEF StartIterate
  <2>3. CASE Iterate(m, r)
    BY <2>3 DEF Iterate
  <2>4. CASE Reply(m, r)
    BY <2>4 DEF Reply
  <2>5. CASE ReplyFails(m, r)
    BY <2>5 DEF ReplyFails
  <2>6. CASE Log(m, r)
    BY <2>6 DEF Log
  <2> QED BY <2>1, <2>2, <2>3, <2>4, <2>5, <2>6 DEF QueryStep
<1>5. /\ query' \in [Node -> [Node -> QueryStage]]
      /\ \A k \in Node : query'[k][k] = query[k][k]
      /\ ReadersOf(m)' = IF s \in Reading THEN ReadersOf(m) \cup {r} ELSE ReadersOf(m) \ {r}
      /\ \A k \in Node \ {m} : ReadersOf(k)' = ReadersOf(k)
  BY <1>1, <1>3, <1>4, QueryMoves
<1>6. r \in ReadersOf(m) <=> query[m][r] \in Reading
  BY <1>1 DEF ReadersOf, Reading
<1>7. NoLockLeaks' /\ paths' \in [Node -> LockOf(Node)]
  <2>1. CASE query[m][r] \in Reading
    BY <1>2, <1>4, <1>5, <2>1, ReaderGoes
  <2>2. CASE s \in Reading
    BY <1>2, <1>4, <1>5, <1>6, <2>2, ReaderComes
  <2>3. CASE query[m][r] \notin Reading /\ s \notin Reading
    <3>1. paths' = paths /\ r \notin ReadersOf(m)
      BY <1>4, <1>6, <2>3
    <3>2. ReadersOf(m)' = ReadersOf(m)
      BY <1>5, <2>3, <3>1
    <3> QED BY <1>2, <1>5, <3>1, <3>2 DEF Inv, TypeOK, NoLockLeaks
  <2> QED BY <2>1, <2>2, <2>3
<1> QED
  BY <1>2, <1>3, <1>5, <1>7 DEF Inv, TypeOK, NotItself

LEMMA VerifyInv ==
  ASSUME Inv, NEW m \in Node, NEW r \in Node, Verify(m, r) \/ Verified(m, r) PROVE Inv'
<1>1. UNCHANGED <<paths, round, query, writer>>
  BY DEF Verify, Verified
<1>2. PICK l : /\ l = RLock(covers[m], r) \/ l = RUnlock(covers[m], r)
               /\ covers' = [covers EXCEPT ![m] = l]
  BY DEF Verify, Verified
<1>3. l \in LockOf(Node)
  BY <1>2, AtNode DEF LockOf, RLock, RUnlock
<1>4. verify' \in [Node -> [Node -> {"none", "value"}]]
  <2>1. PICK v \in {"none", "value"} : verify' = [verify EXCEPT ![m][r] = v]
    BY DEF Verify, Verified
  <2>2. verify[m] \in [Node -> {"none", "value"}]
    BY DEF Inv, TypeOK
  <2>3. PICK row \in [Node -> {"none", "value"}] : row = [verify[m] EXCEPT ![r] = v]
    BY <2>2
  <2>4. verify' = [verify EXCEPT ![m] = row]
    BY <2>1, <2>3
  <2> QED BY <2>4 DEF Inv, TypeOK
<1>5. TypeOK'
  BY <1>1, <1>2, <1>3, <1>4 DEF Inv, TypeOK
<1>6. \A k \in Node : ReadersOf(k)' = ReadersOf(k)
  BY <1>1 DEF ReadersOf
<1>7. NoLockLeaks' /\ NotItself'
  BY <1>1, <1>6 DEF Inv, NoLockLeaks, NotItself
<1> QED
  BY <1>5, <1>7 DEF Inv

(* One lock of a node's paths changes with what its writers do. *)
LEMMA WriterKeeps ==
  ASSUME Inv, NEW n \in Node, NEW row \in [Writer -> WriterStage],
         writer' = [writer EXCEPT ![n] = row],
         NEW l \in LockOf(Node), paths' = [paths EXCEPT ![n] = l],
         l.readers \cup l.waiting = paths[n].readers \cup paths[n].waiting,
         l.readers \cap l.waiting = {},
         \A v \in Writer : l.writer = v <=> row[v] \in {"writes", "checks"},
         covers' \in [Node -> LockOf(Node)], UNCHANGED <<round, query, verify>>
  PROVE  Inv'
<1>1. TypeOK'
  BY DEF Inv, TypeOK
<1>2. ASSUME NEW k \in Node
      PROVE  /\ paths'[k].readers \cup paths'[k].waiting = ReadersOf(k)'
             /\ paths'[k].readers \cap paths'[k].waiting = {}
             /\ \A v \in Writer : paths'[k].writer = v <=> writer'[k][v] \in {"writes", "checks"}
  <2>1. ReadersOf(k)' = ReadersOf(k)
    BY DEF ReadersOf
  <2>2. CASE k = n
    <3>1. paths'[k] = l /\ writer'[k] = row
      BY <2>2 DEF Inv, TypeOK
    <3> QED BY <2>1, <2>2, <3>1 DEF Inv, NoLockLeaks
  <2>3. CASE k # n
    BY <2>1, <2>3 DEF Inv, TypeOK, NoLockLeaks
  <2> QED BY <2>2, <2>3
<1>3. NoLockLeaks'
  BY <1>2 DEF NoLockLeaks
<1> QED
  BY <1>1, <1>3 DEF Inv, NotItself

LEMMA StartsWriting ==
  ASSUME Inv, NEW n \in Node, NEW w \in Writer, StartWrite(n, w) \/ LockPaths(n, w),
         covers' \in [Node -> LockOf(Node)]
  PROVE  Inv'
<1>1. PICK s \in {"writes", "checks"} :
         writer' = [writer EXCEPT ![n] = [writer[n] EXCEPT ![w] = s]]
  BY DEF StartWrite, LockPaths, WriterGoes
<1>2. PICK row \in [Writer -> WriterStage] :
         /\ writer' = [writer EXCEPT ![n] = row]
         /\ \A v \in Writer : row[v] = IF v = w THEN s ELSE writer[n][v]
  <2>1. s \in WriterStage /\ writer[n] \in [Writer -> WriterStage]
    BY DEF WriterStage, Inv, TypeOK
  <2>2. PICK row \in [Writer -> WriterStage] : row = [writer[n] EXCEPT ![w] = s]
    BY <2>1
  <2>3. \A v \in Writer : row[v] = IF v = w THEN s ELSE writer[n][v]
    BY <2>1, <2>2
  <2> QED BY <1>1, <2>2, <2>3
<1>3. PICK l : l = Lock(paths[n], w)
  OBVIOUS
<1>4. /\ paths[n].writer = Nobody /\ paths' = [paths EXCEPT ![n] = l]
      /\ UNCHANGED <<round, query, verify>>
  BY <1>3 DEF StartWrite, LockPaths, CanLock
<1>5. /\ l \in LockOf(Node) /\ l.writer = w
      /\ l.readers = paths[n].readers /\ l.waiting = paths[n].waiting
  <2>1. paths[n] \in LockOf(Node)
    BY AtNode
  <2> QED BY <1>3, <2>1, WriteLocks
<1>6. \A v \in Writer : writer[n][v] \notin {"writes", "checks"}
  BY <1>4, HealthRoundsAssumption DEF Inv, NoLockLeaks
<1>7. \A v \in Writer : l.writer = v <=> row[v] \in {"writes", "checks"}
  BY <1>2, <1>5, <1>6
<1>8. /\ l.readers \cap l.waiting = {}
      /\ l.readers \cup l.waiting = paths[n].readers \cup paths[n].waiting
  BY <1>5, AtNode
<1>9. /\ writer' = [writer EXCEPT ![n] = row] /\ paths' = [paths EXCEPT ![n] = l]
      /\ UNCHANGED <<round, query, verify>> /\ l \in LockOf(Node)
  BY <1>2, <1>4, <1>5
<1> QED BY <1>7, <1>8, <1>9, WriterKeeps

LEMMA EndsWriting ==
  ASSUME Inv, NEW n \in Node, NEW w \in Writer, EndWrite(n, w) \/ EndPublish(n, w),
         covers' \in [Node -> LockOf(Node)]
  PROVE  Inv'
<1>1. writer' = [writer EXCEPT ![n] = [writer[n] EXCEPT ![w] = "idle"]] /\ "idle" \in WriterStage
  BY DEF EndWrite, EndPublish, WriterGoes, WriterStage
<1>2. PICK row \in [Writer -> WriterStage] :
         /\ writer' = [writer EXCEPT ![n] = row]
         /\ \A v \in Writer : row[v] = IF v = w THEN "idle" ELSE writer[n][v]
  <2>1. writer[n] \in [Writer -> WriterStage]
    BY DEF Inv, TypeOK
  <2>2. PICK row \in [Writer -> WriterStage] : row = [writer[n] EXCEPT ![w] = "idle"]
    BY <1>1, <2>1
  <2>3. \A v \in Writer : row[v] = IF v = w THEN "idle" ELSE writer[n][v]
    BY <2>1, <2>2
  <2> QED BY <1>1, <2>2, <2>3
<1>3. PICK l : l = Unlock(paths[n])
  OBVIOUS
<1>4. /\ paths' = [paths EXCEPT ![n] = l] /\ paths[n].writer = w /\ paths[n].readers = {}
      /\ UNCHANGED <<round, query, verify>>
  BY <1>3 DEF EndWrite, EndPublish, Writes
<1>5. /\ l \in LockOf(Node) /\ l.writer = Nobody /\ l.readers \cap l.waiting = {}
      /\ l.readers \cup l.waiting = paths[n].readers \cup paths[n].waiting
  BY <1>3, <1>4, AtNode, WriteLocks
<1>6. \A v \in Writer : v # w => writer[n][v] \notin {"writes", "checks"}
  BY <1>4 DEF Inv, NoLockLeaks
<1>7. \A v \in Writer : l.writer = v <=> row[v] \in {"writes", "checks"}
  BY <1>2, <1>5, <1>6, HealthRoundsAssumption
<1>8. /\ writer' = [writer EXCEPT ![n] = row] /\ paths' = [paths EXCEPT ![n] = l]
      /\ UNCHANGED <<round, query, verify>> /\ l \in LockOf(Node)
  BY <1>2, <1>4, <1>5
<1>9. /\ l.readers \cap l.waiting = {}
      /\ l.readers \cup l.waiting = paths[n].readers \cup paths[n].waiting
  BY <1>5
<1> QED BY <1>7, <1>8, <1>9, WriterKeeps

LEMMA StartPublishInv ==
  ASSUME Inv, NEW n \in Node, NEW w \in Writer, StartPublish(n, w),
         covers' \in [Node -> LockOf(Node)]
  PROVE  Inv'
<1>1. /\ writer' = [writer EXCEPT ![n] = [writer[n] EXCEPT ![w] = "publishes"]]
      /\ writer[n][w] = "idle" /\ "publishes" \in WriterStage
      /\ paths' = paths /\ UNCHANGED <<round, query, verify>>
  BY DEF StartPublish, WriterGoes, WriterStage
<1>2. PICK row \in [Writer -> WriterStage] :
         /\ writer' = [writer EXCEPT ![n] = row]
         /\ \A v \in Writer : row[v] = IF v = w THEN "publishes" ELSE writer[n][v]
  <2>1. writer[n] \in [Writer -> WriterStage]
    BY DEF Inv, TypeOK
  <2>2. PICK row \in [Writer -> WriterStage] : row = [writer[n] EXCEPT ![w] = "publishes"]
    BY <1>1, <2>1
  <2> QED BY <1>1, <2>1, <2>2
<1>3. PICK l \in LockOf(Node) : l = paths[n]
  BY AtNode
<1>4. paths' = [paths EXCEPT ![n] = l]
  BY <1>1, <1>3 DEF Inv, TypeOK
<1>5. \A v \in Writer : l.writer = v <=> row[v] \in {"writes", "checks"}
  BY <1>1, <1>2, <1>3 DEF Inv, NoLockLeaks
<1>6. /\ l.readers \cap l.waiting = {}
      /\ l.readers \cup l.waiting = paths[n].readers \cup paths[n].waiting
  BY <1>3, AtNode
<1>7. UNCHANGED <<round, query, verify>>
  BY <1>1
<1> QED BY <1>2, <1>4, <1>5, <1>6, <1>7, WriterKeeps

LEMMA WriterInv ==
  ASSUME Inv, NEW n \in Node, NEW w \in Writer, Begin(n, w) \/ WriterStep(n, w) PROVE Inv'
<1>1. \E l \in LockOf(Node) : covers' = [covers EXCEPT ![n] = l] \/ covers' = covers
  <2>1. Lock(covers[n], w) \in LockOf(Node) /\ Unlock(covers[n]) \in LockOf(Node)
    BY AtNode, WriteLocks
  <2> QED BY <2>1 DEF Begin, WriterStep, StartWrite, EndWrite, StartPublish, LockPaths,
     EndPublish
<1>2. covers' \in [Node -> LockOf(Node)]
  BY <1>1 DEF Inv, TypeOK
<1> QED
  BY <1>2, StartsWriting, EndsWriting, StartPublishInv DEF Begin, WriterStep

LEMMA NextInv == Inv /\ [Next]_vars => Inv'
<1> SUFFICES ASSUME Inv, [Next]_vars PROVE Inv'
  OBVIOUS
<1>1. CASE UNCHANGED vars
  <2>1. \A k \in Node : ReadersOf(k)' = ReadersOf(k)
    BY <1>1 DEF vars, ReadersOf
  <2> QED BY <1>1, <2>1 DEF vars, Inv, TypeOK, NoLockLeaks, NotItself
<1>2. ASSUME NEW n \in Node, StartRound(n) \/ RoundStep(n) \/ TimesOut(n) PROVE Inv'
  BY <1>2, StartRoundInv, AskInv, SettlesInv, EndRoundInv DEF RoundStep
<1>3. ASSUME NEW m \in Node, NEW r \in Node, QueryStep(m, r) \/ Verify(m, r) \/ Verified(m, r)
      PROVE  Inv'
  BY <1>3, QueryInv, VerifyInv
<1>4. ASSUME NEW n \in Node, NEW w \in Writer, Begin(n, w) \/ WriterStep(n, w) PROVE Inv'
  BY <1>4, WriterInv
<1> QED
  BY <1>1, <1>2, <1>3, <1>4 DEF Next

(* The inductive invariant. *)
THEOREM InvCorrect == Spec => []Inv
  BY InitInv, NextInv, PTL DEF Spec

(* The types of HealthRounds. *)
THEOREM HealthRoundsTypeCorrect == Spec => []TypeOK
<1>1. Inv => TypeOK
  BY DEF Inv
<1> QED
  BY <1>1, InvCorrect, PTL

(* invalidPathProfiles, handleQueryPathReq and Publish leave no lock of     *)
(* paths behind and take none twice, whichever of their early returns and  *)
(* timeouts they go through.                                               *)
THEOREM NoLockLeaksCorrect == Spec => []NoLockLeaks
<1>1. Inv => NoLockLeaks
  BY DEF Inv
<1> QED
  BY <1>1, InvCorrect, PTL

-----------------------------------------------------------------------------
(* Nobody waits for a lock that nobody has; the lock of covers is read by   *)
(* the verifiers and written by who publishes, who reaches "checks" only   *)
(* when the last reader has left.                                          *)
Orderly(l) == l.waiting # {} => l.writer # Nobody

Kept ==
    \A n \in Node :
        /\ Orderly(paths[n]) /\ Orderly(covers[n])
        /\ covers[n].readers \cup covers[n].waiting = Verifiers(n)
        /\ covers[n].readers \cap covers[n].waiting = {}
        /\ \A w \in Writer : covers[n].writer = w <=> writer[n][w] \in {"publishes", "checks"}
        /\ \A w \in Writer : writer[n][w] = "checks" => covers[n].readers = {}

LEMMA InitKept == Init => Kept
  BY HealthRoundsAssumption DEF Init, Unlocked, Kept, Orderly, Verifiers

LEMMA LocksOrderly ==
  ASSUME NEW l \in LockOf(Node), Orderly(l), NEW r \in Node, NEW w \in Writer
  PROVE  /\ Orderly(RLock(l, r)) /\ Orderly(RUnlock(l, r))
         /\ Orderly(Lock(l, w)) /\ Orderly(Unlock(l))
  BY HealthRoundsAssumption DEF Orderly, LockOf, RLock, RUnlock, Lock, Unlock

LEMMA ReadOrderly ==
  ASSUME NEW l \in LockOf(Node), Orderly(l), NEW r \in Node
  PROVE  Orderly(RLock(l, r)) /\ Orderly(RUnlock(l, r))
  BY DEF Orderly, LockOf, RLock, RUnlock

LEMMA PathsOrderly ==
  ASSUME Inv, Kept, Next, NEW k \in Node PROVE Orderly(paths'[k])
<1>1. \A n \in Node : paths[n] \in LockOf(Node) /\ Orderly(paths[n])
  BY AtNode DEF Kept
<1>2. paths \in [Node -> LockOf(Node)]
  BY DEF Inv, TypeOK
<1>3. ASSUME NEW n \in Node, NEW r \in Node,
             \/ paths' = paths
             \/ paths' = [paths EXCEPT ![n] = RLock(paths[n], r)]
             \/ paths' = [paths EXCEPT ![n] = RUnlock(paths[n], r)]
      PROVE  Orderly(paths'[k])
  BY <1>1, <1>2, <1>3, ReadOrderly
<1>4. ASSUME NEW n \in Node, NEW w \in Writer,
             \/ paths' = paths
             \/ paths' = [paths EXCEPT ![n] = Lock(paths[n], w)]
             \/ paths' = [paths EXCEPT ![n] = Unlock(paths[n])]
      PROVE  Orderly(paths'[k])
  BY <1>1, <1>2, <1>4, LocksOrderly
<1>5. ASSUME NEW n \in Node, StartRound(n) \/ RoundStep(n) \/ TimesOut(n)
      PROVE  Orderly(paths'[k])
  BY <1>3, <1>5 DEF StartRound, RoundStep, Ask, Unreachable, EndRound, TimesOut
<1>6. ASSUME NEW m \in Node, NEW r \in Node, QueryStep(m, r) \/ Verify(m, r) \/ Verified(m, r)
      PROVE  Orderly(paths'[k])
  BY <1>3, <1>6
     DEF QueryStep, GetSize, StartIterate, Iterate, Reply, ReplyFails, Log, Verify, Verified
<1>7. ASSUME NEW n \in Node, NEW w \in Writer, Begin(n, w) \/ WriterStep(n, w)
      PROVE  Orderly(paths'[k])
  BY <1>4, <1>7
     DEF Begin, WriterStep, StartWrite, EndWrite, StartPublish, LockPaths, EndPublish
<1> QED
  BY <1>5, <1>6, <1>7 DEF Next

(* What Kept says of the lock of one node's covers. *)
CoversKept(l, readers, row) ==
    /\ Orderly(l) /\ l.readers \cup l.waiting = readers /\ l.readers \cap l.waiting = {}
    /\ \A w \in Writer : l.writer = w <=> row[w] \in {"publishes", "checks"}
    /\ \A w \in Writer : row[w] = "checks" => l.readers = {}

LEMMA VerifyKept ==
  ASSUME Inv, Kept, NEW m \in Node, NEW r \in Node, Verify(m, r) \/ Verified(m, r), NEW k \in Node
  PROVE  CoversKept(covers'[k], Verifiers(k)', writer'[k])
<1>1. /\ covers \in [Node -> LockOf(Node)] /\ verify \in [Node -> [Node -> {"none", "value"}]]
      /\ covers[m] \in LockOf(Node) /\ UNCHANGED writer
  BY DEF Inv, TypeOK, Verify, Verified
<1>2. \A n \in Node : CoversKept(covers[n], Verifiers(n), writer[n])
  BY DEF Kept, CoversKept
<1>3. PICK v \in {"none", "value"} : verify' = [verify EXCEPT ![m][r] = v]
  BY DEF Verify, Verified
<1>4. CASE k # m
  <2>1. covers'[k] = covers[k] /\ verify'[k] = verify[k]
    BY <1>1, <1>3, <1>4 DEF Verify, Verified
  <2> QED BY <1>1, <1>2, <2>1 DEF Verifiers
<1>5. CASE k = m
  <2> DEFINE l == covers[m]
  <2>1. CASE Verify(m, r)
    <3>1. covers'[m] = RLock(l, r) /\ verify'[m][r] = "value" /\ verify[m][r] = "none"
          /\ \A n \in Node \ {r} : verify'[m][n] = verify[m][n]
      BY <1>1, <2>1 DEF Verify
    <3>2. Verifiers(m)' = Verifiers(m) \cup {r} /\ r \notin Verifiers(m)
      BY <3>1 DEF Verifiers
    <3>3. /\ Orderly(RLock(l, r)) /\ RLock(l, r).writer = l.writer
          /\ RLock(l, r).readers \cup RLock(l, r).waiting = Verifiers(m)'
          /\ RLock(l, r).readers \cap RLock(l, r).waiting = {}
      BY <1>1, <1>2, <3>2, ReadLocks, ReadOrderly DEF CoversKept
    <3>4. l.writer # Nobody => RLock(l, r).readers = l.readers
      BY <1>1 DEF RLock, LockOf
    <3>5. \A w \in Writer : writer[m][w] = "checks" => l.writer # Nobody /\ l.readers = {}
      BY <1>2, HealthRoundsAssumption DEF CoversKept
    <3> QED BY <1>1, <1>2, <1>5, <3>1, <3>3, <3>4, <3>5 DEF CoversKept
  <2>2. CASE Verified(m, r)
    <3>1. covers'[m] = RUnlock(l, r) /\ verify'[m][r] = "none" /\ r \in l.readers
          /\ \A n \in Node \ {r} : verify'[m][n] = verify[m][n]
      BY <1>1, <2>2 DEF Verified, Reads
    <3>2. Verifiers(m)' = Verifiers(m) \ {r}
      BY <3>1 DEF Verifiers
    <3>3. /\ Orderly(RUnlock(l, r)) /\ RUnlock(l, r).writer = l.writer
          /\ RUnlock(l, r).readers \cup RUnlock(l, r).waiting = Verifiers(m)'
          /\ RUnlock(l, r).readers \cap RUnlock(l, r).waiting = {}
      BY <1>1, <1>2, <3>1, <3>2, ReadLocks, ReadOrderly DEF CoversKept
    <3>4. RUnlock(l, r).readers \subseteq l.readers
      BY <1>1 DEF RUnlock, LockOf
    <3> QED BY <1>1, <1>2, <1>5, <3>1, <3>3, <3>4 DEF CoversKept
  <2> QED BY <2>1, <2>2
<1> QED
  BY <1>4, <1>5

LEMMA WriterKept ==
  ASSUME Inv, Kept, NEW m \in Node, NEW w \in Writer, Begin(m, w) \/ WriterStep(m, w),
         NEW k \in Node
  PROVE  CoversKept(covers'[k], Verifiers(k)', writer'[k])
<1>1. /\ covers \in [Node -> LockOf(Node)] /\ covers[m] \in LockOf(Node)
      /\ writer \in [Node -> [Writer -> WriterStage]]
  BY DEF Inv, TypeOK
<1>2. \A n \in Node : CoversKept(covers[n], Verifiers(n), writer[n]) /\ Verifiers(n)' = Verifiers(n)
  BY DEF Kept, CoversKept, Verifiers, Begin, WriterStep, StartWrite, EndWrite, StartPublish,
         LockPaths, EndPublish
<1>3. PICK s : /\ writer' = [writer EXCEPT ![m][w] = s]
               /\ \/ /\ covers' = covers
                     /\ writer[m][w] \in {"publishes", "checks"} <=> s \in {"publishes", "checks"}
                     /\ s = "checks" => covers[m].readers = {}
                  \/ /\ covers' = [covers EXCEPT ![m] = Lock(covers[m], w)]
                     /\ covers[m].writer = Nobody /\ s = "publishes"
                  \/ /\ covers' = [covers EXCEPT ![m] = Unlock(covers[m])]
                     /\ writer[m][w] = "checks" /\ s = "idle"
  <2>1. CASE StartWrite(m, w)
    <3>1. /\ writer' = [writer EXCEPT ![m][w] = "writes"] /\ covers' = covers
          /\ writer[m][w] = "idle" /\ "writes" # "checks"
      BY <2>1 DEF StartWrite, WriterGoes
    <3>2. writer[m][w] \in {"publishes", "checks"} <=> "writes" \in {"publishes", "checks"}
      BY <3>1
    <3> QED BY <3>1, <3>2
  <2>2. CASE EndWrite(m, w)
    <3>1. /\ writer' = [writer EXCEPT ![m][w] = "idle"] /\ covers' = covers
          /\ writer[m][w] = "writes" /\ "idle" # "checks"
      BY <2>2 DEF EndWrite, WriterGoes
    <3>2. writer[m][w] \in {"publishes", "checks"} <=> "idle" \in {"publishes", "checks"}
      BY <3>1
    <3> QED BY <3>1, <3>2
  <2>3. CASE StartPublish(m, w)
    BY <2>3 DEF StartPublish, WriterGoes, CanLock
  <2>4. CASE LockPaths(m, w)
    BY <2>4 DEF LockPaths, WriterGoes, Writes
  <2>5. CASE EndPublish(m, w)
    BY <2>5 DEF EndPublish, WriterGoes
  <2> QED BY <2>1, <2>2, <2>3, <2>4, <2>5 DEF Begin, WriterStep
<1>4. CASE k # m
  BY <1>1, <1>2, <1>3, <1>4
<1>5. CASE k = m
  <2> DEFINE l == covers[m]
             row == writer'[m]
  <2>1. row[w] = s /\ \A v \in Writer \ {w} : row[v] = writer[m][v]
    BY <1>1, <1>3
  <2>2. CoversKept(l, Verifiers(m), writer[m]) /\ Verifiers(m)' = Verifiers(m)
    BY <1>2
  <2>3. CASE /\ covers' = covers
             /\ writer[m][w] \in {"publishes", "checks"} <=> s \in {"publishes", "checks"}
             /\ s = "checks" => covers[m].readers = {}
    BY <1>5, <2>1, <2>2, <2>3 DEF CoversKept
  <2>4. CASE covers' = [covers EXCEPT ![m] = Lock(l, w)] /\ l.writer = Nobody /\ s = "publishes"
    <3>1. covers'[m] = Lock(l, w)
      BY <1>1, <2>4
    <3>2. \A v \in Writer : writer[m][v] \notin {"publishes", "checks"}
      BY <2>2, <2>4, HealthRoundsAssumption DEF CoversKept
    <3>3. \A v \in Writer : /\ row[v] \in {"publishes", "checks"} <=> v = w
                            /\ row[v] # "checks"
      BY <2>1, <2>4, <3>2
    <3> QED BY <1>1, <1>5, <2>2, <3>1, <3>3, WriteLocks, LocksOrderly DEF CoversKept
  <2>5. CASE covers' = [covers EXCEPT ![m] = Unlock(l)] /\ writer[m][w] = "checks" /\ s = "idle"
    <3>1. covers'[m] = Unlock(l) /\ l.readers = {} /\ l.writer = w
      BY <1>1, <2>2, <2>5 DEF CoversKept
    <3>2. \A v \in Writer : row[v] \notin {"publishes", "checks"}
      BY <2>1, <2>2, <2>5, <3>1 DEF CoversKept
    <3>3. /\ Orderly(Unlock(l)) /\ Unlock(l).writer = Nobody
          /\ Unlock(l).readers \cup Unlock(l).waiting = Verifiers(m)
          /\ Unlock(l).readers \cap Unlock(l).waiting = {}
      BY <1>1, <2>2, <3>1, WriteLocks, LocksOrderly DEF CoversKept
    <3> QED BY <1>5, <2>2, <3>1, <3>2, <3>3, HealthRoundsAssumption DEF CoversKept
  <2> QED BY <1>3, <2>3, <2>4, <2>5
<1> QED
  BY <1>4, <1>5

LEMMA NextKept == Inv /\ Kept /\ [Next]_vars => Kept'
<1>1. ASSUME Inv, Kept, Next, NEW k \in Node
      PROVE  Orderly(paths'[k]) /\ CoversKept(covers'[k], Verifiers(k)', writer'[k])
  <2>1. CASE UNCHANGED <<covers, verify, writer>>
    BY <1>1, <2>1, PathsOrderly DEF Kept, CoversKept, Verifiers
  <2>2. ASSUME NEW n \in Node, StartRound(n) \/ RoundStep(n) \/ TimesOut(n)
        PROVE  UNCHANGED <<covers, verify, writer>>
    BY <2>2 DEF StartRound, RoundStep, Ask, Unreachable, EndRound, TimesOut
  <2>3. ASSUME NEW m \in Node, NEW r \in Node, QueryStep(m, r)
        PROVE  UNCHANGED <<covers, verify, writer>>
    BY <2>3 DEF QueryStep, GetSize, StartIterate, Iterate, Reply, ReplyFails, Log
  <2> QED BY <1>1, <2>1, <2>2, <2>3, PathsOrderly, VerifyKept, WriterKept DEF Next
<1>2. ASSUME Kept, UNCHANGED vars PROVE Kept'
  BY <1>2 DEF vars, Kept, Verifiers
<1> QED
  BY <1>1, <1>2 DEF Kept, CoversKept

LEMMA SomebodyGoesOn ==
  ASSUME Inv, Kept, NEW n \in Node
  PROVE  /\ ReadersOf(n) # {} \/ (\E w \in Writer : writer[n][w] \in {"writes", "checks"})
               => PathsGoOn(n)
         /\ Verifiers(n) # {} \/ (\E w \in Writer : writer[n][w] = "publishes")
               => PathsGoOn(n) \/ CoversGoOn(n)
<1>1. /\ paths[n].readers \cup paths[n].waiting = ReadersOf(n)
      /\ paths[n].writer \in Writer \cup {Nobody} /\ covers[n].writer \in Writer \cup {Nobody}
      /\ Orderly(paths[n]) /\ CoversKept(covers[n], Verifiers(n), writer[n])
      /\ \A w \in Writer : paths[n].writer = w <=> writer[n][w] \in {"writes", "checks"}
  BY AtNode DEF LockOf, Kept, CoversKept, Inv, NoLockLeaks
<1>2. CASE paths[n].readers # {}
  BY <1>1, <1>2 DEF PathsGoOn, Reads
<1>3. CASE paths[n].readers = {} /\ paths[n].writer # Nobody
  BY <1>1, <1>3 DEF PathsGoOn, Writes
<1>4. CASE paths[n].readers = {} /\ paths[n].writer = Nobody
  <2>1. ReadersOf(n) = {} /\ \A w \in Writer : writer[n][w] \notin {"writes", "checks"}
    BY <1>1, <1>4, HealthRoundsAssumption DEF Orderly
  <2>2. CASE covers[n].readers # {}
    BY <1>1, <2>1, <2>2 DEF CoversKept, CoversGoOn, Reads
  <2>3. CASE covers[n].readers = {} /\ covers[n].writer # Nobody
    <3>1. covers[n].writer \in Writer /\ writer[n][covers[n].writer] = "publishes"
      BY <1>1, <2>1, <2>3 DEF CoversKept
    <3> QED BY <1>4, <2>1, <2>3, <3>1 DEF CoversGoOn, Writes, CanLock
  <2>4. CASE covers[n].readers = {} /\ covers[n].writer = Nobody
    <3>1. Verifiers(n) = {} /\ \A w \in Writer : writer[n][w] # "publishes"
      BY <1>1, <2>4, HealthRoundsAssumption DEF CoversKept, Orderly
    <3> QED BY <2>1, <3>1
  <2> QED BY <2>2, <2>3, <2>4
<1> QED
  BY <1>2, <1>3, <1>4

(* However many handlers, writers and calls of Publish a node runs, at any  *)
(* moment one of those that hold or await a lock can go on: the order in   *)
(* which Publish locks covers and paths, and a health round that reads     *)
(* paths while its next hops wait to read theirs, close no circle within   *)
(* the node.                                                               *)
THEOREM NodesGoOn == Spec => []NodeGoesOn
<1>1. Init => Inv /\ Kept
  BY InitInv, InitKept
<1>2. Inv /\ Kept /\ [Next]_vars => (Inv /\ Kept)'
  BY NextInv, NextKept
<1>3. Inv /\ Kept => NodeGoesOn
  BY SomebodyGoesOn DEF NodeGoesOn
<1> QED
  BY <1>1, <1>2, <1>3, PTL DEF Spec
=============================================================================

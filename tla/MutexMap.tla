------------------------------- MODULE MutexMap -------------------------------
(***************************************************************************)
(* The lock of a MutexMap (p2p/mutexmap.go), a sync.RWMutex: many readers  *)
(* or one writer.  A writer that waits keeps new readers out; when it      *)
(* unlocks, the readers that came meanwhile go before the next writer.     *)
(***************************************************************************)
CONSTANT Nobody

(* writer: who has locked, and waits until readers is empty. *)
Unlocked == [readers |-> {}, waiting |-> {}, writer |-> Nobody]

(* getValue, getSize, iterate(_, true) *)
RLock(lock, r) == IF lock.writer = Nobody THEN [lock EXCEPT !.readers = @ \cup {r}]
                                          ELSE [lock EXCEPT !.waiting = @ \cup {r}]
Reads(lock, r) == r \in lock.readers
RUnlock(lock, r) == [lock EXCEPT !.readers = @ \ {r}]

(* setValue, deleteValue, iterate(_, false) *)
CanLock(lock) == lock.writer = Nobody
Lock(lock, w) == [lock EXCEPT !.writer = w]
Writes(lock, w) == lock.writer = w /\ lock.readers = {}
Unlock(lock) == [readers |-> lock.waiting, waiting |-> {}, writer |-> Nobody]
=============================================================================

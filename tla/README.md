# A verification development for Forus-Core

Forus-Core is the node of an anonymous publishing network. Every node keeps
connections to a few *next hops*, one for each *path* (the paths of a tree all
lead to one proxy), sends cover messages on them at regular intervals, and hides
its real messages among these. A node with enough *covers*, the peers whose next
hop it is, may publish: the message travels up the path, and the proxy puts it
into immutable storage.

The source is Go, in `src/p2p`. These modules model the tables of a node and
everything that changes them, the tree that several nodes build, the messages that
travel in it, and the locks by which nodes wait for each other. Encoding and
formatting are left out, and cryptography is symbolic except for the arithmetic of
the key exchange.

## The system

A node is one process with many goroutines and these tables, each a `MutexMap`
(a map with an `RWMutex` that is taken for one operation):

| table | content | written by |
|---|---|---|
| `covers` | address -> tree, key, cancel function | `handleConnectPathReq`, `handleCreateProxyReq`, cleanup of `handleApplicationMessageWorker` |
| `paths` | tree -> next hop, next-next hop, keys, counts, cancel function | `ConnectPath`, `CreateProxy`, `handleCreateProxyReq`, `POST /path`, `MoveUp`, FIX, cleanup of `sendCoverMessageWorker`, `markPublishJobStatus` |
| `halfOpenPath` | tree -> a verified offer | `QueryPath`, `ConnectPath` |
| `openConnections` | tree -> connection and encoder | `ConnectPath`, `CreateProxy` |
| `peerPublicKeys` | address -> public key | `QueryPath` |
| `publishJobs` | job -> status, path | `Publish`, `markPublishJobStatus` |

Its components:

- **Cover admission** (`handlers_tcp.go:159-344`, `workers.go:493-541`). A handler
  checks three conditions, inserts the cover, answers, and starts a worker that
  reads from the cover until the connection breaks, falls silent or is cancelled,
  and then deletes the record. *Correct when*: the limit and the other conditions
  hold of the table, a record has a living owner, a served peer has a record, a
  peer that is gone is released, a request is decided.
- **Paths** (`node.go:274-417`, `workers.go:76-121, 214-317, 370-491`). `getMorePaths`
  asks random peers for paths (`QueryPath`, verified with the hop behind them),
  connects to one (`ConnectPath`) or asks for a new tree (`CreateProxy`). A worker
  per path sends cover messages and deletes the path when it fails. The health
  worker blacklists paths with failed jobs (`MoveUp`: connect to the next-next hop
  or become a proxy), cleans paths whose next hop lost them and fixes paths whose
  next-next hop changed. *Correct when*: a path, its connection, its keys and its
  worker belong together; a broken path goes; the node's own trees stay.
- **Publishing** (`node.go:420-497`, `workers.go:49-61, 323-368`). `Publish` holds the
  locks of `covers` and `paths`, checks the publishing condition, picks a path,
  sends and records a job; a checker polls the storage until discovery or timeout
  and counts the result on the path. *Correct when*: a message leaves only with
  enough covers, the counts are those of real jobs, every call returns and every
  job is decided.
- **The tree** (`node.go:274-417`, `workers.go:76-121, 214-263`): what all this comes to
  across nodes. *Correct when*: next hops lead to the proxy and make no loop, and a
  node whose next hop has left the tree leaves as well.
- **Relay** (`workers.go:127-211`, `node.go:420-545`, `encoding.go`): a worker peels
  one layer off a message and stores it, forwards it or drops it. *Correct when*: a
  message is stored at most once, reaches the storage while its path is intact, does
  not go round, and does not stay on its way for ever.
- **Key exchange** (`codec.go:72-181`): Diffie-Hellman for each connection. *Correct
  when*: both ends have the same key, and a key AES rejects does not keep a path.
- **Queries of peers** (`handlers_tcp.go:108-157`): answers from `paths` and `covers`,
  under their read locks. *Correct when*: the locks are free again whatever becomes of
  the requester, and health rounds that query each other all end.
- **Start-up** (`node.go:45-131`), the **HTTP API** (`handlers_http.go`), **gRPC clients**
  (`grpc_transport.go`), **encoding**, **configuration** and **logging**.

They interact through the tables, through connections (a `ConnectPath` of one node
is a `handleConnectPathReq` of another; its `sendCoverMessageWorker` feeds the
other's `handleApplicationMessageWorker`), through cancel functions that are stored
in table entries (`MoveUp` cancels covers; the health worker cancels paths), and
through the failure counts by which publishing drives `MoveUp`.

What is hard to test: check-then-act sequences over a table whose lock is released
between any two operations; entries deleted or written back by key after they were
replaced; connections that break between an insertion and the answer; cancel
functions of entries that are no longer current; locks held during network calls;
a late answer after a timeout; restarts that forget everything while the peers
remember; workers that keep the path they were started with while the node moves on. `PROJECT.json` lists each with its line.

## The modules

| module | what it is |
|---|---|
| `CoverTable` | the cover table as it is promised: bounded, one admission at a time |
| `PathTable` | a path of a tree as it is promised: from a fresh connection to its next hop, opened once, and not back once it is gone |
| `Covers` | cover admission, cover workers and what else touches their tables |
| `MCCovers` | instances of `Covers` |
| `CoversProofs` | theorems about `Covers` |
| `Paths` | the paths of a node and every task that writes them |
| `MCPaths` | instances of `Paths` |
| `PathsProofs` | theorems about `Paths` |
| `PublishBoard` | publishing as it is promised: one atomic step, decided once |
| `PublishJobs` | `Publish` with its locks, the job checkers, and the tasks beside them |
| `MCPublishJobs` | instances of `PublishJobs` |
| `PublishProofs` | theorems about `PublishJobs` |
| `KeyExchange` | the key exchange of a connection and the length of its key |
| `KeyExchangeProofs` | the theorem that both ends get the same key |
| `Overlay` | one tree across nodes: joining, moving up, path health, connections, restarts |
| `Delivery` | what the overlay promises for a message: settled once, stored at most once |
| `Relay` | `Overlay` with the messages on its connections |
| `MCRelay` | instances of `Relay` |
| `OverlayProofs`, `RelayProofs` | theorems about `Overlay` and `Relay` |
| `MutexMap` | the `RWMutex` of a table, with waiting readers and writers |
| `HealthRounds` | health rounds, query handlers and writers of several nodes on their locks |
| `MCHealthRounds` | its instance |
| `HealthRoundsProofs` | theorems about `HealthRounds` |

`Covers`, `Paths` and `PublishJobs` each stand for one node; the peers are its
environment. `Overlay` with `Relay`, and `HealthRounds`, have several nodes. In
the first three, and for the locks of `HealthRounds` as far as they are held, one
`MutexMap` operation is one action, so the goroutines interleave exactly where the
code lets them. An operator whose comment says *Mutant* (or that stands under
"Mistakes the properties below must notice") is a plausible bug; none is part of a
next-state relation. Each is put in the place of one action to see that a property
notices it.

### Covers

`covers[ip]` is the connection whose handler wrote the record, so that two records
of one address can be told apart; the rest of a record is kept by connection
(`from`, `tree`, `canceled`). `pc[c]` says where the goroutine of a connection is:
the three reads of the admission check (`getCover`, `getSize`, `getPath`), the
insertions (`addPath`, `addCover`), the answer, the worker, its cleanup.
`failed` is the return after an answer that could not be written.

The code makes its three reads and then decides; the model goes to `deny` at the
first read that speaks against the requester, because nothing depends on the
remaining ones. `MaxHandlers` bounds the handlers that run at once, and several
properties are stated in it: the code has no such bound, and with it the cost of
the missing lock can be stated exactly. `contended` is history: the addresses of which
two requests were being decided at the same time, in this life of the process. Only a
connection of such an address may be served without its record, as the second record
replaces the first and the worker that ends first deletes it (`ServedHasRecord`).
`MaxOwnProxies` bounds the trees the node
opens without being asked. `RelayTree` and `ProxyTree` are sets of uuids, finite
where they are used up.

### Paths

A call of `ConnectPath` or `CreateProxy` opens one connection, so a connection
names the call (`call[c]`), the worker it starts (`worker[c]`) and the cancel
function and key that go with it (the field `conn` of a profile). `call[c].stage`
follows the code: `query`, `offers`, `verify` for `QueryPath`; `lookup`, `request`
for `sendConnectPathRequest`; `askProxy` for `sendCreateProxyRequest`;
`getHalfOpen`, `delHalfOpen`, `setPath`, `setOpen` for the table operations after
acceptance; `moveUp` and `becomeProxy` for `MoveUp`.

`Offers` is what peers may answer to a query. Failure counts are not kept:
any path may have enough of them (`Blacklist`). `known` are the trees that exist;
a new tree gets a uuid that is not among them. A panic outside an HTTP handler ends
the process (`process`), and `Restart` begins with empty tables.
Peers refuse to accept a node that is their cover already (`CoverOf`), which is
the other side of `CheckCover` in `Covers`.

`PathTable` is what others may rely on for one tree: a connection becomes the path once in
a life of the process, its next hop comes with it and does not change in place, then it is
opened once, and a path that is gone or replaced does not come back. `PathOf(t)` gives its
variables from those of `Paths`: `pending` are the calls between `setPath` and `setOpen`,
`used` the connections that have a worker or had one, `life` is `process`.

### PublishJobs

`publish[j]` follows one call of `Publish` through its two locks; `checker[j]` and
`poller[j]` follow `checkPublishJobStatusWorker` and the goroutine in it. All other
tasks take the lock of a table for one step (`Neighbours`), except the health
round, which holds the read lock of `paths` from `RoundStarts` to `RoundEnds`.
`paths` keeps only the counts, `covers` only the addresses. `Board` maps a call to
its outcome: a message is out from `Send` on, a job is decided by `MarkStatus`.

### Overlay

One tree, several nodes. `path[n]` is the entry of `paths` for the tree, `open[n]`
that of `openConnections`. `link[c]` is a connection with its two ends: `sender` is
where the cover's `sendCoverMessageWorker` is (`asked` until the cover has seen the
answer), `handler` the parent's `handleApplicationMessageWorker`, and `forward` the path the
parent gave that worker when it started it (`handlers_tcp.go:232`), of which it uses the
next hop and the connection and which it never renews. The covers of a node are the
connections whose handler has not ended (`CoversOf`).

A node runs one `task`, one health round and one request of its own at a time; every request
in a task is a step, and other nodes take theirs in between:

- `Query` reads the answer of a peer, `Verify` or `NotVerified` that of the hop behind it
  (`node.go:279`, `309`). `QueryInVain` and `NotVerified` leave an offer that is not
  verified, of which only the peer is used: `POST /path` and `MoveUp` ask it to connect all
  the same (`handlers_tcp.go:54-66`), and `ConnectPath` finds no half-open profile.
- `CheckCovers` and `CheckPath` are the reads of a handler (`handlers_tcp.go:181-183`),
  `Insert` its insertion (`211`): several requesters pass the checks together, and a path
  that was found may be gone by the insertion. `admitted[n]` is where the handler for the
  requester `n` is. `Accepted` is `ConnectPath` after the answer, `SetOpen` its last write.
  A requester may give up in between (`Fail`); the connection then has nobody at its end.
- A health round examines the path (`FindAbandoned`, `FindUnanswered`, `FindChanged`) and
  keeps the whole profile it has read in `report[n]`; `CleanPath` cancels the worker of that
  profile, and `FixPath` writes the profile back, whatever the path has become
  (`workers.go:393-402`). A round waits for `MoveUp` (`Examines`), not for other tasks.

What is one step here: the reads and the insertion of `handleCreateProxyReq` before there is
a tree (`AskProxy`), and the read and deletion in the cleanup of `sendCoverMessageWorker`
(`SenderEnds`). These, more tasks at once, half-open profiles that outlive their task
(the mix-up of `paths_nexthop`), key caches and records without a worker
(`covers_ghosts`) are the subject of `Covers` and `Paths`. When `MoveUp` makes the node a
proxy it opens another tree, of which nothing is said here. `rejoined` and `member` are
history: which nodes have been in the tree and joined it a second time.

### Relay and KeyExchange

`wire[c]` holds the messages sent on a connection and not handled. A message has its
type, its content and the key of its symmetric layer; the asymmetric layer can be
opened by the proxy until it restarts (`AsymmetricDecrypts`). `PublishSends` and
`Forward` do what the code does: the key comes from the profile (of the path, or of the
path the worker was started with), the connection from `openConnections` as it is now.
`SendCover` uses the path and connection of its worker. `LosesClosed` goes with every
step of `Overlay`: what was sent to a worker that has ended is lost. `fate[m]` is what
became of a message; `Delivery` sees accepted, settled and stored messages.

The keys of a connection are computed: `Exchange` gives each connection its numbers,
`SymKey` is the key of the cover, `SecretKey` that of the parent. `UsableKeys` are those
with `KeySize` digits, as `big.Int.Bytes()` has no leading zeros and
`aes.NewCipher` takes full keys only.

### HealthRounds and MutexMap

`paths[n]` and `covers[n]` are locks here, and what the tables contain is left out. A
reader either reads or waits; `RLock` makes it wait when a writer has locked or is
waiting, and `Unlock` lets the waiting readers in, as `sync.RWMutex` does. `round[n]` is
`invalidPathProfiles`, which keeps its read lock while it waits for the answer of the
next hop (`asked`) or for its timeout. `query[m][r]` and `verify[m][r]` are the handlers at
`m` for the requester `r`, at each point where they take a lock; a handler takes the read
lock of `paths` up to three times, the last for a log statement after the answer. Writers
write `paths`, or hold `covers` and `paths` as `Publish` does.

## The runs

`tlc -config <cfg> <MC module>`; every pass run is exhaustive.

| run | instance | shows |
|---|---|---|
| `covers_concurrent` | 3 connections, addresses and proxy trees, 2 handlers at once, limit 1; 651k states, connections, addresses and trees each interchangeable | `RecordHasOwner`, `ServedHasRecord`, `RequestedProxyBound`, refinement of `CoverTable` with one cover more (which implies `CoverBound`) |
| `covers_serial` | 2 connections and addresses, a relay tree, 2 proxy trees, 1 handler, MoveUp; 67k states | `TypeOK`, `DepartedIsReleased`, `RequestIsDecided` |
| `covers_ghosts` | as above | a **violation**: the record of a peer that left before its answer stays |
| `paths_static` | 2 peers, 3 trees, 2 connections, 1 task, offers that never change; 114k states | `NextMatchesConn`, refinement of `PathTable`, `BrokenPathGoes` |
| `paths_changing` | 2 tasks at once, two peers that offer one tree, one that moves up, a child that offers the node's own tree; 2.0M states | `TypeOK`, `ConnServesTree`, `LoneConnectionKept`, `OwnTreesStay`, `OnlyFixStrands` |
| `paths_nexthop` | changing offers, 1 task | a **violation**: the next hop of a path is not the peer at its connection |
| `paths_zombie` | one peer that offers the tree and moves up in it, 1 task | a **violation**: a late fix brings a broken path back for ever |
| `publish_jobs` | 2 covers, 1 path, 2 jobs, 2 covers needed; 39k states | `TypeOK`, `CountsAreReal`, refinement of `PublishBoard`, `PublishReturns`, `PendingIsDecided` |
| `publish_late` | the same | a **violation**: a discovery after the timeout is sent on a closed channel |
| `relay` | a proxy that restarts and may return, 2 nodes, 3 connections with different keys, 1 message, limit 2; 1.6M states, two leaves symmetric | `TypeOK`, `TreeUnlessRejoined`, `SingleCopy`, `NothingIgnored`, `HopsDescend`, `IntactLosesNothing`, `OnlyFixRevives`, refinement of `Delivery` |
| `relay_live` | the same without restarts, limit 1, the key of the last connection too short, a node that asks for what it is not offered; 161k states | `RelayEnds`, `StoredIfIntact`, `ShortKeyPathGoes`, `AbandonedCoverLeaves` |
| `locks` | 2 nodes that are each other's next hop, a writer each; 77k states, no deadlock | `TypeOK`, `NoLockLeaks`, `NodeGoesOn`, `RoundEnds`, `WriterEnds`, `HandlerEnds` |

**Bounds.** The limit of one cover with two handlers and three peers reaches the
limit, passes it by one, and has a third peer to be refused. Two of its handlers may have the same
address, so that `contended` is not empty. In `covers_serial`, with one handler and a limit
of one, a second request from a served address finds the table full as well; that the check
for known covers matters by itself is seen in the theorem `ServedHaveRecords`, which holds
for any limit and rests on it. Two connections of
`Paths` are a path and its replacement; with two tasks they run against each other,
and the same tree is offered by two peers, which is what its races need (the theorems have
any number of both). A
connection is used once, so a run follows at most two connections of one life of
the process, and any number of lives. In `PublishJobs` two calls contend
for the locks and count on one path, and both covers are needed, so any one that
leaves matters.

Three nodes and three connections of `Relay` are the smallest tree with a hop that
forwards and one connection to spare: enough for a node to join below another, for
`MoveUp` to replace a connection, and for a loop of two live connections, which needs one
more that was lost (`a` below `p`, `b` below `a`, `a` below `b`). One message is enough
for `SingleCopy` and `Delivery`, as messages do not look at each other; the theorems have
any number. `MinCovers` is 0, so that a leaf can publish: the condition is the subject of
`PublishJobs`. `MayRestart` restarts the proxy once, the case in which a tree loses its
root and its message its reader; `MayReturn` lets it join its tree again. `MaxBusy` bounds
the tasks, requests at a parent and health reports that are under way at once: two, in
`relay`, are two requests that pass a parent's checks together, a late fix beside a new
connection, a late insertion beside `MoveUp`. `ConnLeft` refuses a request for which no
connection is left. At most one cover message is on its way, since they are only
discarded. `relay` does not go on from states in which every message is settled
(`Unsettled`): there the properties of messages have nothing more to say, and the others
have seen the same steps with a message still unsent. The two leaves are symmetric.
In `relay_live` the last connection has the short key, so a
connection that replaces or extends a path may be one that carries nothing; its limit of
one cover makes a node refuse another for want of room, and chains of three, where `relay`
has room for two. With `MaxBusy` one it does not have a late insertion beside a `MoveUp` of
the same parent, but it has one after the parent has lost its path, which is what
`AbandonedCoverLeaves` is about. `AsksInVain` names one node, as the others would only do
the same. Keys are two digits to the base four. In `HealthRounds` one writer for each node is what makes readers
wait; a next hop that is still busy with an earlier request of a node counts as
unreachable, and each node has one `VerifyCoverReq` at each other.

**Static offers.** The properties of `paths_static` hold when a tree is offered by one
peer, which stays where it is (`StaticOffersAssumption` of `MCPaths`). In the code a tree is
offered by each of its members, and they change their next hop whenever they move up, so
these three are statements about the rest of the code: within that instance the node
restarts, peers close connections, paths are blacklisted and cleaned, `MoveUp` fails and
opens own trees, and users post paths. `NextMatchesConn` needs one offerer
(`OneOfferer`), `ImplementsPathTable` steady offers (`SteadyOffers`), `BrokenPathGoes` both;
with the condition dropped TLC finds each violated, `paths_nexthop` and `paths_zombie` being
two of these violations. What holds whatever peers offer and however many tasks run is in
`paths_changing`, and proved: `LoneConnectionKept` and `OnlyFixStrands` name the two things
that do part a path from its worker. One is a second connection of the same tree: `ConnectPath`
overwrites a path and leaves its worker running (`node.go:362`), and the cleanup of a worker
(`workers.go:431-437`) reads the path and may delete the one another call has put there in
the meantime. The other is a late fix.

**An intact tree.** `StoredIfIntact` and `IntactLosesNothing` speak of a tree in which nobody
restarts, each node has one connection, all workers are on and the paths agree with the open
connections (`Intact`). The code does lose messages otherwise: see the findings.

**Fairness.** `Covers`: handlers and workers that can run do run, as goroutines do;
nothing is assumed of peers, timers, the user or `MoveUp`. `Paths`: workers run,
which includes that a worker notices a broken connection, because it writes to it
every `COVER_MESSAGE_SENDING_INTERVAL`; and the goroutines started for reports run.
`PublishJobs`: `Store`, `Encode`, `IsDiscovered` and queries have time limits and
timers fire (weak fairness of `PublishStep`, `CheckerStep`, `RoundEnds`); a
goroutine waiting for a lock that is free again and again gets it (strong fairness
of `LockCovers`, `LockPaths`, `Count`), as `sync.Mutex` hands itself to a waiter
that has waited long and a waiting writer stops new readers of a `RWMutex`.
`Relay`: the two workers of a connection go on (weak fairness of `ConnStep`: a worker
reads what there is, and notices the end of the other, a cancellation or a key it
cannot use), a task that has asked gets an answer or times out (`TaskGoesOn`, `Answers`), the
goroutines of a health round run (`CleanPath`, `FixPath`), and the health check visits
every path at its interval (strong fairness of `FindAbandoned`: a round waits for the
`MoveUp` before it, and for nothing that is not bound to end). Nothing is assumed of joining,
moving up, changed next hops or restarts.
`HealthRounds`: rounds and handlers go on, `TCP_REQUEST_TIMEOUT` strikes (`TimesOut`),
and a writer that waits gets the lock at last (strong fairness of `WriterStep`): a
waiting writer of a `RWMutex` keeps new readers out and `sync.Mutex` hands itself to one
that has waited long. Nobody has to start a round or a write.

## The theorems

Proved by TLAPS for every value of the constants that satisfies the assumption of
the module (`CoversAssumption`, `PathsAssumption`, `PublishAssumption`, `OverlayAssumption`,
`RelayAssumption`, `HealthRoundsAssumption`: finiteness of the sets that are counted,
trees of the node apart from those it relays, connections that are numbers, no node its
own next hop, a `None` that is no value).

**`CoversProofs`.** `TypeCorrect`. `RecordsHaveOwners`: by itself the property is
not inductive; `Located` adds that a connection past its insertion has an address
and a tree. `OvershootIsBounded` and `RequestedProxiesAreBounded`: `BoundInv` counts
the handlers that have passed the check together with what is in the tables
(`Admitted` and `Openers`): at most `MaxCovers + MaxHandlers - 1` covers and admitted
handlers together, because the last to pass found fewer than `MaxCovers` covers and
at most `MaxHandlers - 1` other handlers. `ServedHaveRecords`:
of an address that was never contended, at most one handler decides at a time, and what
it has read of `covers` stays true until it inserts (`AloneInv`).
`CoverTableImplemented`: by `BoundInv` a handler that inserts finds fewer than
`MaxCovers + MaxHandlers - 1` covers, so the table changes as `CoverTable` says for that
limit, whose value with one handler is `MaxCovers`.

**`PathsProofs`.** `Shape` says what a call carries at each stage and which
trees may stand in which table; above all, that an own tree that is known is in
`paths` with the profile of an own tree and in no other table. From it follow
`PathsTypeCorrect` and `OwnTreesAreKept`, an action property: `CheckOffer` skips
trees the node has a path of, and no half-open profile, worker or report of an own
tree ever exists. `Served` adds that a connection named by a path, a report or
an open connection has a worker and was accepted for that tree, which gives
`ConnectionsServeTheirTree`; a late fix makes the report part of the invariant.
`LoneConnectionsAreKept`: with `Shape` and `Served` the property is inductive. Whoever
deletes, overwrites or writes back a path is a worker of the tree, a call accepted for it, or
a report that names a connection of it (`WhoDeletes`, `TablesStep`): the connection itself,
or a rival. `OnlyFixStrandsCorrect`: a worker ends by looking at the path first, and if that
leads to its peer by deleting it (`WorkerStates`). Neither has a condition on offers or tasks.

**`PublishProofs`.** `Inv` says who holds which lock at each step of `Publish`, that
what `canPublish` found stays true while both are held, and how far a job has
come. `PublishIsAtomic` maps every step of `PublishJobs` to a step of `PublishBoard`
or a stutter. `CountInv` bounds the counts of a path, and those a fix would
write back, by the number of decided jobs on it, which grows with every count
(`CountsAreTrue`); `PublishTypeCorrect` then bounds the counts by the number of jobs.

**`KeyExchangeProofs`.** `EndsAgree`: `GetSymKey` gives both ends the same key for every base,
modulus and pair of secrets. `ModExp` is a recursive function, so the proof is by induction
over sets of naturals (`EveryNatural`): the function exists and is unique, it obeys the
recursion for any exponent, powers add and multiply like exponents, and multiplication of
exponents commutes.

**`OverlayProofs`.** `SameKeys` carries that over to connections. `TreeUnlessRejoined` is far from inductive: whether a connection
closes a loop depends on offers found long before, and on the next-next hops that `MoveUp`
goes for, which may be stale. `Shape` says that the connections a node names are its own,
and that a path leads to the parent at the end of its connection (`Leads`: a half-open profile
does not outlive its task here); it rests on a list of what a step can do to connections
(`LinkStep`) and to tables (`TableStep`). `Members` says that profiles, offers, blacklisted
profiles and those about to be written back name nodes that have been in the tree. `Ranked` is the reason: while no node has rejoined, the nodes can be numbered so
that next hops, next-next hops and offers of members lead to smaller numbers. A node
that joins is given a new number above all it will look at, and those that were
going to connect to it had no number to respect, because only members are offered. A finite
set of nodes with numbers has a smallest, so there is no loop (`TreeUnlessRejoinedCorrect`).
The proof uses nothing of what `VerifyCoverReq` says, so a wrong confirmation by a cover of
another tree makes no loop either.
`ProxyLasts` says what the proxy is until it restarts. `Older` says that the path a
connection's worker was started with belongs to an older connection. `Ties` says that a node
with a single connection whose worker is on has the path of that connection, and that only
the proxy has the path that ends at it.
`OnlyFixRevivesCorrect`: a worker that ends compares the path's next hop with the peer at its
connection (`workers.go:431-437`). If the path is the worker's own the two agree, by `Leads`,
and the path goes with it (`WorkersStay`); a path that is new has the worker of the connection
just accepted (`AcceptedTended`). By `TableStep` only a fix puts any other path there.

**`RelayProofs`.** Every step of `Relay` is a step of `Overlay` or leaves it alone, so the
theorem on loops carries over (`RelayTreeCorrect`). `Carried` collects what holds of
messages: `TypeCorrect`, `SingleCopyCorrect`, `KeysCorrect`, `NothingIgnoredCorrect` (which
rests on `ProxyLasts`). `DeliveryCorrect` maps each step to a step of `Delivery` or a
stutter; it needs `SingleCopy`, without which a message could be settled twice.
`HopsDescendCorrect`: `Forward` encrypts with the key of the worker's old path. If the
next hop can read the message, and keys differ, the connection now open is the one
of that old path, which by `Older` is older than the one the message came on. So a message
passes each connection at most once, although `Forward` counts no hops and next hops
can make a loop. The stale key that loses messages after `MoveUp` is also what keeps them
from going round: with the key of the current path (the mutant `ForwardNow`) a loop would
carry a message for ever. `IntactLosesNothingCorrect`: by `KeysOfTheSender` and `SameKeys` a parent
can read what a cover with one connection sends; the path its worker was started with
names a connection of the parent, by `Ties` the one its path names now, and that is
the one `openConnections` has. So `Forward` encrypts and sends on the same connection, to a
worker that is on. The proof has no bound on hops.

**`HealthRoundsProofs`.** `HealthRoundsTypeCorrect` and `NoLockLeaksCorrect`: the readers and
waiting readers of `paths` are exactly the rounds and handlers at a point where they read.
The invariant adds that no node queries itself (`NotItself`), as the lock tells a
node's round from its requests at other nodes by the name of the node. `NodesGoOn` is freedom
from deadlock within a node, without fairness: who holds or awaits the lock of `paths` or
`covers` includes somebody who can go on. The invariant adds who holds the lock of `covers`
(`CoversKept`) and that readers wait only where a writer has locked or waits
(`Orderly`). The run has one writer for each node; the theorem any number.

**Only model-checked.** All liveness properties (`DepartedIsReleased`,
`RequestIsDecided`, `BrokenPathGoes`, `PublishReturns`, `PendingIsDecided`, `RelayEnds`,
`StoredIfIntact`, `ShortKeyPathGoes`, `AbandonedCoverLeaves`, `RoundEnds`, `WriterEnds`,
`HandlerEnds`): they rest on fairness. For the safety that they
rest on see `OnlyFixStrandsCorrect` (who leaves a path with nobody to remove it), `NodesGoOn`,
`HopsDescendCorrect` and `IntactLosesNothingCorrect`. `NextMatchesConn` and the refinement of
`PathTable` stay with TLC as well: they hold under conditions on the offers that the code does
not give (see *Static offers*), so that as theorems they would say little of the code. The length of a key (`KeyLength`) is
evaluated by TLC only: the proofs say "a key that encrypts" and do not ask which keys do.

## Disagreements between the code and what is said of it

Four runs end in a violation; `PROJECT.json` quotes the comment or test for each.
They are: a record whose owner has no worker (`covers_ghosts`), a next hop taken
from another peer's offer (`paths_nexthop`), a broken path that is written
back (`paths_zombie`), a send on a closed channel (`publish_late`). Six more were
met while modelling and have no run: the nil response `QueryPath` logs
(`node.go:320`), the cancel function that self proxy paths lack (`workers.go:381`),
`MoveUp.md`, whose step 5 makes a node below a proxy a proxy itself where the
code returns (`workers.go:221-225`), the old path a worker forwards with
(`workers.go:526`), a node that rejoins a tree below its own cover and makes a loop
(`node.go:306`), and keys of less than 32 bytes (`codec.go:139`). The models follow the
code in all of them; the properties that hold nevertheless name the condition
(`TreeUnlessRejoined`, `Intact` in `StoredIfIntact`) or say what makes up for it
(`HopsDescend`, `ShortKeyPathGoes`).

## What is not modelled

- gob and JSON, the encryption of tree uuids, ECIES and AES-GCM beyond who can decrypt
  what. A protocol message that does not decode is a closed connection; a malformed key of
  a requester, for which `EncryptUUID` fails, has the effect of `ReplyFails`.
- Time: a timeout may strike at any moment.
- Several trees at once in `Overlay`: what ties them together in the code is the limit of
  covers and `IsCover`, which ask for the address and not for the tree. A cover of another
  tree makes `CheckCover` refuse a connection, of which the effect on the requester is that
  of `Fail`, or confirms a next hop that is
  not in the tree any more, which is missing.
- The counts in `Paths` and the connections in `PublishJobs`: each module has the
  part of a profile its properties are about. The peers' cached public keys and half-open
  profiles are in `Paths`, not in `Overlay`.
- The cluster (`GetMembers`, join and leave), immutable storage itself, the GET handlers of
  the HTTP API, loading of the configuration, logging: input and output without state of
  their own.
- Goroutines that block for ever but hold nothing (`getMorePaths` after a timeout,
  `waitForResponse` after a timeout).

## Plan

Done, in this order: cover admission, paths, publishing, the tree across nodes, relay with
its keys, the locks of health rounds, each with its proofs. What is left:

1. `Overlay`, seen from one node, as a behaviour of `Covers` and of `Paths`. Now the three
   are related by what they translate only: the contracts `CoverTable` and `PathTable` are
   implemented by `Covers`, and by `Paths` under steady offers, not by `Overlay`, whose late
   fixes and overlapping requests break them as those of the code do. It needs
   half-open profiles and key caches in `Overlay`.
2. Two trees in `Overlay`, for confirmations by a cover of another tree
   (`handlers_tcp.go:144` asks for the address only).
3. A bound on hops as a theorem: by `HopsDescend` a message that was sent is on connections
   of smaller and smaller number, which is the measure behind `RelayEnds`.

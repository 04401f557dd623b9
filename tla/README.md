# Vault: a verification development

This directory holds TLA+ models of Vault, the distributed object store under
`src/vault`, the TLC configurations that check them on small instances, and
proofs, checked by TLAPS, of theorems about them. `PROJECT.json` is the index:
the components, the runs, the source lines behind every definition, the
hazards and the theorems.

## 1. The system

Vault is a research prototype in Python. Three **storage nodes** keep whole
objects as files. A **control plane** decides where an object goes, records
where it went, repairs objects with too few replicas, and contains a **Raft
node** meant to replicate those records between two control-plane processes.
The storage path does not use the Raft node yet (README of the repository,
"Step 16c: Wire storage writes through distributed Raft log"): `put_object`
appends to an in-memory log and applies the entry at once to its own database.

| Component | State | Operations | Talks to |
|---|---|---|---|
| Storage node (`storage_node/grpc_server.py`, `object_store.py`, `local_store.py`) | one file per object | Put, Get, GetTelemetry; ten worker threads | answers gRPC calls |
| Metadata registry (`control_plane/metadata_registry.py`, `raft/state_machine.py`) | sqlite tables `objects`, `object_replicas` | register, record_replica, get_replica_nodes, lookup, list_all, one transaction each | called in process |
| Storage client (`storage_client.py`) | locals of a call only | put_object, get_object | probes, Put and Get on nodes; registry |
| Repair engine (`repair.py`) | locals of a pass only | find_under_replicated, repair_object, run_repair_pass | as the storage client |
| Health checker, telemetry aggregator, auction | locals of a call only | check_all, collect_all, compute_bids, select_winner(s) | GetTelemetry on nodes |
| Raft node (`raft/node.py`) | term, vote, role, commit and applied index, timers, heartbeat thread, one lock | start, stop, elections, RequestVote, AppendEntries, propose | the other Raft nodes |
| Raft log (`raft/log.py`) | a list of entries, in memory | append, entries_from | Raft node, storage client, repair |
| Admin API (`admin_api.py`) | none | five GET handlers | registry, health checker |
| Console (`src/src/App.tsx`) | React state: tab, menu, modal, toast, auction ledger, object directory, upload form | handlers of clicks and of the form, toast timers; a demonstration on invented data | nothing |

What is hard in it:

* **No lock spans a put, a get or a repair.** Each is a sequence of calls to
  other processes and of single transactions; any two of them interleave, a
  node may die during any call, and the caller may die between any two.
* **A file write is not atomic.** `write_bytes` truncates, then writes; a node
  killed in between keeps the truncated file and serves it later.
* **The Raft node's handlers act on copies.** RequestVote copies the vote state
  under the lock, releases it, decides, and takes the lock again to write. In
  between run timers, the node's own election and other handlers.
* **Nothing of the Raft node is persisted.** A restarted node has term 0 and no
  vote.
* **Timers cannot be recalled.** `cancel()` has no effect on a timer that fired.
* **The lock is not reentrant,** and one function takes it twice.

What makes each component correct:

* *Registry and nodes together:* a replica row names a node that has the
  object; a registered object has a row; a row names a complete copy; the last
  successful put survives on a recorded node; a read returns what was put.
* *Repair:* adds a replica and truncates none; every pass ends.
* *Election:* a leader has a majority of votes of its term; a term has one
  leader; one vote per term; a follower always has a timer;
  an election ends; propose returns.
* *Console:* the lists show what was done and nothing else; a toast is true of
  them and goes away.
* *Replication:* as far as the handler of AppendEntries goes, a node applies
  the committed entries of its log, each once, in order; the handler leaves the
  leader's majority and the follower's timer intact.
* *Auction:* a node that stays reachable is not passed over for one with less
  space, whichever others fail; the winners are different nodes.
* *Admin API:* an object is reported with replicas, and they hold it.

## 2. The modules

| Module | What it models |
|---|---|
| `ObjectModel` | the shared vocabulary: nodes, objects, payloads, what a file can hold |
| `StorageNode` | the nodes' files, the two halves of a Put, crash and restart (operators, composed by `VaultStore`) |
| `MetadataRegistry` | the two tables and their transactions (operators, composed by `VaultStore`) |
| `VaultStore` | `put_object`, `get_object` and `run_repair_pass` of concurrent clients over the two modules above |
| `WriteOnceStore` | what the store promises to callers that put an id at most once: a write-once register; implemented by `VaultStore` (refinement) |
| `AdminAPI` | `GET /objects` and `GET /objects/{id}` beside the clients of `VaultStore` |
| `Auction` | the health check, the telemetry round and the auction, probe by probe, over nodes that fail and disks that change |
| `RaftElection` | leader election between Raft nodes, one step per critical section of a node's lock |
| `RaftVotes` | `RaftElection` with a history variable: whether a term or a vote was changed under a deciding handler, or lost in a restart |
| `RaftAppend` | the AppendEntries handler, commit and apply, beside everything of `RaftElection` |
| `Console` | the web console: React state, event handlers, toast timers |
| `VaultStoreProofs`, `WriteOnceProofs`, `AdminAPIProofs`, `AuctionProofs`, `RaftElectionProofs`, `RaftVotesProofs`, `RaftAppendProofs`, `ConsoleProofs` | theorems |
| `MCVaultStore`, `MCAdminAPI`, `MCAuction`, `MCRaftElection`, `MCRaftVotes`, `MCRaftAppend`, `MCConsole` | instances for TLC (symmetry sets, small disks, keys typed) |

### VaultStore

`pc[p]` says where client `p` is in `put_object`, `get_object` or
`run_repair_pass`; the other `[Client -> ...]` variables are the call's locals.
A step ends where the code calls another process or the database:

* `PutStart` (the health check, which fails the put when no node is alive),
  `PutAuction` (telemetry, bids, winners), `PutSend` / `PutAcked` / `PutFailed`
  (one round of the loop; the row is recorded in `PutAcked`), `PutFinish`
  (register, or raise when every write failed);
* `GetStart` (the replica rows), `GetAnswered`, `GetFailed` (the fallback);
* `RepairStart` (the health check of find_under_replicated), `RepairList`
  (list_all), `RepairScan` (the rows of one object), `RepairNext`,
  `RepairRead` / `RepairReadFailed` (the get_object inside repair_object),
  `RepairPick` (second health check and the choice of the target),
  `RepairSend`, `RepairAcked` / `RepairFailed`, `RepairDone`;
* `Serve` is the node's half of a Put, `Crash` and `Restart` a node's process,
  `Kill` the client's process.

A killed client's Put goes on in its node. `latest`, `issued`, `overlapped` and
`faults` are history variables: they record the last put started, the puts
started (each payload is put at most once per object, which bounds the run),
whether a call ever started while another was under way, and the faults.

Abstractions. A payload is the put it came from; checksum, size and time are
functions of it. `Torn` stands for every content that is no complete payload.
When two Puts of different payloads write the same file at once the result is
either payload or `Torn` (the longer one's tail). The node accepts a Put and
truncates the file in one step with the client's sending it (`PutCall`): a Put whose
client is killed in between, and which truncates the file later, is left out. (It
would matter to a killed repairer's Put and another repairer.) A health-check pass over all
nodes is one step with any result: a probe of a live node may time out, and one
that was found alive may be down by the end of the pass (`Auction` has the
probes one by one). `RepairPick` takes its
health check and its row query together; rows are only ever added, and a crash or
a row that falls between the two also falls between `RepairPick` and
`RepairSend`. The auction returns any `ReplicationFactor` of the bidders: free space
decides, and is left open. `get_object` tries the rows in any order (sqlite
promises none), and repair takes any candidate (the code iterates over a set).
A node that hangs without dying is not modelled, nor is a full disk, nor the
loss of a file by other hands than the program's.

**The refinement.** Under write-once use with one repairing client, `VaultStore`
implements `WriteOnceStore`, which knows no node, file, row or repair. An object
is *readable* when it has a row, *listed* when it is registered; the payload is
the one its put was given, the answer what the client's last get returned:

    Abstract == INSTANCE WriteOnceStore WITH
        payload <- latest,
        readable <- {o \in Object : GetReplicaNodes(o) # {}},
        listed <- ListAll, answer <- result, ...

Three things it says that the invariants do not: an object never stops being
readable or listed, it is listed only after it is readable, and a get answers
with the payload of an object that was readable when it answered. A put that
raises may still leave its object readable: a winner's row was recorded and the
process died before the registration.

### AdminAPI

One request is served at a time (handlers share nothing): `GetObjects` is
`list_all`, `GetObjectSummary` is `lookup` with the 404, `JoinReplicas` the
`get_replica_nodes` of one object; `unjoined` and `body` are the loop's locals.
Every other step is one of `VaultStore`. `GET /nodes` is a constant; `GET /health`
and `GET /telemetry` are `check_all` and `collect_all`, modelled in `Auction`. (The
docstring of `GET /telemetry`, admin_api.py:68, says "for every node"; like
`collect_all` it leaves out those that do not answer.)

### Auction

`CheckNode` and `CollectNode` are one probe each, in the order of
`list_nodes()`; `CollectEnds` computes the bids, `Award` selects the winners.
`Crash`, `Restart` and `DiskChanges` come between any two of them. The first
round of probes has a deadline, so a live node may be counted out; the second
has none. A bid is the position of its snapshot in `collect_all`'s list, so `bids`
is a set of positions, in whose order `compute_bids` returns the bids. Scores are
compared by cross multiplication (`Higher`), which is exact; `compute_bids` divides
to a float (line 15), and the two differ only where two fractions round to the same
float. The sort is said by what it
returns: the winner at place k has k - 1 bids `Ahead` of it, the higher ones and,
since Python's sort keeps the order of equal scores also with `reverse=True`, the
equal ones that came first. `max` takes the first of the highest. `unavailable` is history: the nodes that were down, or
whose probe timed out, since the call began.

### RaftElection

The variables are `RaftNode`'s fields by node, and its threads:

* `delay`, `armed`, `expired`: start()'s initial timer, the election timer, and
  a fired timer whose thread has not taken the lock (`DelayFires`, `TimerFires`,
  `StartElection`, `TimerIgnored`). `_election_timeout` and the first block of
  `_start_election` test the same condition one after the other and are one step;
* `election[n]`: the thread inside `_start_election`, with the calls it waits
  for and the answers in order of arrival (`RequestVoteFails`, `ReplyVote`),
  counted in `Tally` by the loop of lines 186-199, which ends at the first
  answer with a higher term and looks at one more answer after it has won;
* `requests`, `handlers`: calls on their way and RequestVote threads.
  `ReceiveRequestVote` is `_get_vote_state` with the decision that follows from
  the copy, `StepDown` and `Grant` the two later blocks under the lock,
  `ReplyVote` the return. A call that has failed for its caller still reaches
  its handler;
* `replicating`, `heartbeat`, `proposing`: a leader's other threads
  (`Replicate`, `HeartbeatTick`, `HeartbeatExits`, `Propose`, `ProposeReturns`);
* `wedged`: a thread owns the node's lock and waits for that same lock.
  `Replicate` on a leader sets it: `_replicate_to_peer` (lines 224-227) holds
  the lock when it calls `_get_leader_replicate_state`, which takes it.
  From then on no step that needs the lock is enabled on the node, until its
  process is restarted;
* `Stop` is `stop()`, `Restart` a kill and a new start with nothing saved.

Because of `wedged` no node ever sends an AppendEntries, so the model has none, and
the log of a node is only what `propose` appended (terms).

Abstractions. `_reset_election_timer` is one step. A timer does not fire while
an election of its node runs, nor while the previous timer's thread still waits
for a free lock to run: timers run 1 s or more, an election's calls have a
deadline of 0.1 s. gRPC's pool of ten handlers is not modelled.

### RaftVotes

RequestVote acts on a copy of the term and the vote, and a restart forgets both.
`interfered` becomes true when a step changes the term or the vote of a node on
which some other handler is `Deciding` (has copied and not yet acted), or
restarts a node. It changes nothing of the behaviour. It separates what the
elections promise in orderly schedules (`OneLeaderPerTerm`) from what the
unlocked decision takes away: see the disagreements of section 3.

### RaftAppend

The service accepts AppendEntries from any caller of `rpc.proto`, so the model
lets requests with any term, index and commit index (non-negative) come at any time,
beside all steps of `RaftElection`. One action per critical section: `ReceiveAppend` copies
the state and decides from the copy, `AppendStepDown`, `AppendReset`,
`AppendDemote` and `AppendUpdate` are the four blocks under the lock; a handler
is a record with what it has still to do, and `appends` the bag of them.
`ApplyUpTo` is the apply loop: it ends at the commit index or at the entry that
raises, `last_applied` being advanced first.

The log of `RaftElection` holds terms, which do not tell entries apart. So
`propose` numbers its entries (`ProposeEntry`), and three histories speak of the
entries themselves: `entries`, the numbers of those in the log, `applied`,
the numbers of those applied, and `proposed`, the last number. `applyRaised` and
`cutApplied` say what has happened to the node: an apply raised, a request cut the
log below `last_applied`.

What the model says of the code, besides the properties:

* `rpc.LogEntry` has no field `term`, which line 345 reads: a request with
  entries raises after it has changed the role and the timer, before the log.
  So AppendEntries never appends.
* A request without entries cuts the log at `prev_log_index`, committed and
  applied entries included; `commit_index` may then fall (lines 352-355). Entries
  that `propose` appends afterwards take the indexes of applied ones and are
  not applied: `CommittedAreApplied` is violated (section 3). What remains true
  is that no entry is applied twice or out of order (`AppliedOnceInOrder`), and that
  the log is applied up to the commit index as long as nothing applied was cut and
  no apply raised (`AppliedToCommitIndex`).
* The role is set and the timer started in different critical sections; the
  handler demotes a node that was a candidate when the state was copied, also if
  it is leader by now.

The election timer that `AppendReset` starts runs for a second or more; the model
assumes that it does not fire before the same handler has taken the lock for its
next step (`Demoting`).
`StartElection` reads the log in the same step as it casts its own vote; the code
reads it after it has released the lock (lines 143-144). A truncation in between
has the effect of one before the step. (One between the two lines themselves, which
pairs an old length with a new last term, is left out; the properties checked here
do not depend on which log a vote is granted to.) `MaxTerm` and `MaxAppends` bound the
requests, `Commits` are the values of their `leader_commit`.

### Console

Every state hook of `App` is a variable, and every button and field an action: React applies the updates of a click before the next event, so a
handler is atomic. A button is there when its tab is. `Report` stands for all
the buttons that only show a toast. What is drawn from the lists is an operator:
the feed of the overview (`AuctionFeed`), the ledger of its tab (`LedgerTable`).
What runs beside the handlers are the timers of `showToast`: none is ever
cancelled, all have the same delay and so fire in the order of `timers`, and
each clears whatever toast is shown. A toast is what it claims of the lists (an object
stored, streamed or deleted, an auction finalized); its wording, prices, dates
and the static tables are left out. A
size is its text and the number parseInt takes from it. A key is a sequence of "/" and one other character. The modal
covers the page, but the keyboard still reaches what is under it, so it
disables nothing. `toasts`, `auctions`, `uploads` and `deleted` are history.

Seen while modelling, and not the subject of a run: an object uploaded with the
size "1 GB" gets one chunk, since parseInt reads 1 (line 74), where the option
announces 128 (line 1039); the filter field of the directory (line 685) has no
handler and filters nothing; the key "/" is stored as the empty key; a second click of a double click on Delete removes the row
that moved up; the overview counts 1,280 nodes for US-East where the fleet tab
says 1,536.

## 3. What is checked

The runs (the constants are in the `.cfg` files; all of
them exhaust the state space of their instance):

| Run | Instance | Properties | Result |
|---|---|---|---|
| `store_general` | 2 clients, 1 of them repairs, 2 nodes, 1 object, 2 payloads, 1 fault, fairness | TypeOK, RowsBacked, RegisteredHasReplica, LatestStored, CallsReturn | holds, 3.2e5 states |
| `store_write_once` | 3 clients, 1 of them repairs, 3 nodes, 1 object put once, 2 faults | RowsWhole, ReadsWhole, RepairTargetIsNew, IsWriteOnceStore | holds, 2.1e5 |
| `admin_listing` | a request beside 2 clients, 1 of them repairs, 2 nodes, 2 objects put once each, 1 fault | ApiTypeOK, ReportedHasReplicas, ReportedNodesHold | holds, 5.5e5 |
| `auction_winners` | 3 nodes with disks of size 0 to 2 that change at any time, every crash and restart | TypeOK, SteadyNodesCompete, WinnersAnswered, WinnersAgree | holds, 1.0e6 |
| `store_stale_read` | 1 client, 3 nodes, 2 payloads, no fault | ReadReturnsLastPut | violated |
| `store_two_repairers` | 2 repairing clients, 3 nodes, 1 payload, no fault | ReadsWhole | violated |
| `raft_two` | 2 servers, 2 elections, 1 proposal, 1 stop or restart, fairness | TypeOK, LeaderHasQuorum, FollowerHasTimer, OneLeaderPerTerm, ElectionEnds | holds, 1.3e5 |
| `raft_append` | 2 servers, 1 election, a log of 2 entries, 1 stop or restart, 2 AppendEntries of terms 1 and 2 that commit index 1 or 2 | AppendTypeOK, LeaderHasQuorum, FollowerHasTimer, AppliedOnceInOrder, AppliedToCommitIndex | holds, 3.2e6 |
| `raft_committed` | 2 servers, 1 election, a log of 1 entry, 2 AppendEntries of term 1 that commit index 0 or 1 | CommittedAreApplied | violated |
| `raft_double_vote` | 2 servers, 2 elections | OneVotePerTerm | violated |
| `raft_propose` | 2 servers, 1 election, 1 proposal, fairness | ProposeEnds | violated |
| `console_lists` | 3 toasts (uploads, deletions, auctions, reports), fairness | TypeOK, ToastHasItsTimer, ToastIsTrue, AuctionsAreLatest, DirectoryIsUploadsLessDeleted, ToastGoes | holds, 3.5e5 |

Every property of a run that holds has a mutant in `PROJECT.json`: a plausible
slip in the code, as a definition next to the original, under which TLC finds
the property violated.

**Why these bounds.** Three nodes and a factor of two are the program's own
(`node_registry.NODES`, `auction.REPLICATION_FACTOR`): a put leaves one node
out, a second put may choose that one, a repair has exactly one new target. Two
nodes are enough where the properties speak of one node or of the loop's end
(`store_general`, `admin_listing`): a winner that fails beside one that does not,
and a replica that a repair restores on the node a put did not reach. One object is
enough where a property speaks of each object by itself and calls meet only on
the same object (`store_general`, `store_write_once`); with one repairer, two
passes do not meet either, which `store_two_repairers` is about. Two
clients are what it takes to interleave, three let two callers read
and write around a repair. Two payloads of one id make an overwrite; two objects,
a listing that could mix up their replicas. One or two faults give a crash
during a Put, the loss of the caller, and both. Disks of sizes 0, 1 and 2 give
the empty disk, ties (also between disks of different sizes, both full or both
free) and every order of three scores. Two servers are the program's
`PEERS`; for three, which its README announces, and any other number
`LeaderHasQuorum`, `FollowerHasTimer` and `OneLeaderPerTerm` are proved (section 4). Two elections
let a leader be elected and deposed, or two nodes stand against each other.
Two AppendEntries overlap, one cutting what the other checked, and a log of two
entries has an order. Three requests, in one term and without faults, were checked
apart from the runs (5.2e6 states); any number of them, and logs of any length, are
covered by the theorems about `RaftAppend`.
In the console three toasts let the ledger overflow (four auctions are there
from the start), and let an upload, a deletion and an upload follow each other.
Permutations of the nodes (`admin_listing`: of the objects too) and of the servers
are used as symmetry in the runs without temporal properties, and in
`store_write_once`, whose refinement names no node.

**Fairness.** `VaultStore!FairSpec` assumes that a client that started a call
goes on with it and that a node finishes the Put it accepted; neither that
anyone calls nor that a crashed node comes back. `RaftElection!FairSpec`
(and `RaftVotes!VotesFairSpec`, with the same conditions) assumes that timers fire, that a thread which can take the lock does, that calls
end by their deadline (line 163) and that handlers go on; neither proposals nor
stops nor restarts. Weak fairness suffices everywhere: on each node and each
client these steps stay enabled until they are taken, or until the lock is
wedged, which `ElectionEnds` names.

`Console!FairSpec` assumes only that the browser fires its timers.

**Deadlock** is not checked: every system here may stop (all clients idle or
dead with every payload issued; the bound on elections or on toasts reached).

### Disagreements between the code and what is said of it

* `ReadReturnsLastPut` (`manual_check.py:27`, `assert retrieved == test_data`).
  Put v1 on nodes 1 and 2; put v2, whose auction picks 2 and 3; the rows are now
  1, 2 and 3, and a read of node 1 returns v1. The check passes as long as free
  space does not reorder the nodes between two puts.
* `ReadsWhole` with two repairers (`manual_repair_check.py:55`, "Data mismatch
  after repair"). Both passes find the same node without a row; the first writes
  and records it, the second truncates it again.
* `OneVotePerTerm` (`manual_raft_check.py:60`, "Follower rejects vote if already
  voted for another in same term"). A handler copies term 0; the node's own
  timer starts an election in term 1 and it votes for itself; the handler,
  for a request of term 1, steps down into term 1 and grants.
  Its consequence is two leaders of one term in the two-node cluster, which takes
  four elections (so no run here shows it). A handler of s2 has
  stepped down for s1's election of term 1 and not granted yet; s2 starts the
  elections of terms 2 and 3, and s1 has handlers of both before their
  `StepDown`. The grant of s2, late, makes `voted_for` s1 while s2 is a candidate of
  term 3. s1 steps down to term 3, and then, by the older handler, to term 2; its
  own next election is of term 3 again. Each node now finds its `voted_for` to be
  the other and grants. (A restart, which forgets the vote, does the same.)
  `OneLeaderPerTerm` says under which condition this cannot happen.
* `ProposeEnds` (`node.py:80`, "Lock held briefly"). See `wedged` above. The
  repository's manual check tests propose only in pieces, so it does not meet it.
* `CommittedAreApplied` (`manual_raft_check.py:281`, "entries committed and applied").
  A leader has proposed one entry. A request without entries that names no
  previous entry passes the check; before it takes the lock for its last step, another
  commits and applies the entry. Then the first cuts the log to nothing, and
  `commit_index` and `last_applied` stay 1. The next proposal gets index 1, which
  counts as committed and applied: no request applies it any more. (The requests
  come from a caller of the service. No node sends one, see `wedged`.)

## 4. What is proved

For every value of the constants (any finite set of servers; any nodes, objects,
payloads, clients, replication factor; any number of faults), from the named
assumptions of the modules and nothing else:

| Theorem | Statement |
|---|---|
| `VaultStoreProofs!TypeCorrect` | `Spec => []TypeOK` |
| `VaultStoreProofs!RowsAreBacked` | `Spec => []RowsBacked` |
| `VaultStoreProofs!RegisteredObjectsHaveReplicas` | `Spec => []RegisteredHasReplica` |
| `VaultStoreProofs!LatestIsStored` | `Spec => []LatestStored` |
| `WriteOnceProofs!RowsAreWhole` | `Spec /\ []WriteOnce => []RowsWhole` |
| `WriteOnceProofs!ReadsAreWhole` | `Spec /\ []WriteOnce => []ReadsWhole` |
| `WriteOnceProofs!RepairTargetsAreNew` | `Spec /\ []WriteOnce => []RepairTargetIsNew` |
| `WriteOnceProofs!StoreIsWriteOnce` | `Spec /\ []WriteOnce => IsWriteOnceStore` |
| `WriteOnceProofs!OneRepairerWritesOnce` | with one payload per id and one repairer, `Spec => []WriteOnce` |
| `AdminAPIProofs!ApiTypeCorrect` | `ApiSpec => []ApiTypeOK` |
| `AdminAPIProofs!ReportsHaveReplicas` | `ApiSpec => []ReportedHasReplicas` |
| `AdminAPIProofs!ReportsHold` | `ApiSpec /\ []WriteOnce => []ReportedNodesHold` |
| `AuctionProofs!TypeCorrect` | `Spec => []TypeOK` |
| `AuctionProofs!SteadyNodesAreServed` | `Spec => []SteadyNodesCompete` |
| `AuctionProofs!WinnersHaveAnswered` | `Spec => []WinnersAnswered` |
| `AuctionProofs!FirstWinnersAgree` | `Spec => []WinnersAgree` |
| `AuctionProofs!AuctionServesStore` | `Spec => []StoreMayChoose` |
| `RaftElectionProofs!TypeCorrect` | `Spec => []TypeOK` |
| `RaftElectionProofs!LeadersHaveQuorums` | `Spec => []LeaderHasQuorum` |
| `RaftElectionProofs!FollowersHaveTimers` | `Spec => []FollowerHasTimer` |
| `RaftVotesProofs!TermsHaveOneLeader` | `VotesSpec => []OneLeaderPerTerm` |
| `RaftVotesProofs!SerialVotesOnce` | `VotesSpec => [](~interfered => OneVotePerTerm)` |
| `RaftAppendProofs!AppendTypeCorrect` | `AppendSpec => []AppendTypeOK` |
| `RaftAppendProofs!EntriesAppliedOnce` | `AppendSpec => []AppliedOnceInOrder` |
| `RaftAppendProofs!CommittedEntriesApplied` | `AppendSpec => []AppliedToCommitIndex` |
| `RaftAppendProofs!LeadersKeepQuorums` | `AppendSpec => []LeaderHasQuorum` |
| `RaftAppendProofs!FollowersKeepTimers` | `AppendSpec => []FollowerHasTimer` |
| `ConsoleProofs!TypeCorrect` | `Spec => []TypeOK` |
| `ConsoleProofs!ToastsAreTimed` | `Spec => []ToastHasItsTimer` |
| `ConsoleProofs!LedgerIsLatest` | `Spec => []AuctionsAreLatest` |
| `ConsoleProofs!DirectoryIsExact` | `Spec => []DirectoryIsUploadsLessDeleted` |
| `ConsoleProofs!ToastsAreTrue` | `Spec => []ToastIsTrue` |

**The store's invariant.** `RowsBacked` is not inductive: `PutAcked` writes a row
for a node because of an answer received earlier. `IInv` therefore adds, for
every client, what its locals hold at each `pc` (`LocalsOK`), that a Put which a
node accepted has created the file (`PutBacked`; it stays true when other
clients truncate or overwrite the file, because none removes it), and that the
nodes in `acks` have rows (`AcksRecorded`), which is why `PutFinish` registers
only objects with a row. The effect of a Put on a node that is up or down is one
lemma, `PutCallLemma`.

**The last put.** `LatestStored` is about calls that do not overlap. `SInv` says what
the one client in a call has done so far (`CallerS`): a put whose payload is
`latest` differs from what is registered, since a payload that is registered was
put before (`IssuedOK`), and has its payload on every node in `acks`; a
Put under way has left the file torn, on a node that is not in `acks`; a repair
writes to a node without a row, so that it truncates no replica.

**Write-once use.** What two runs find violated in general (`ReadReturnsLastPut`,
`ReadsWhole`) holds under a condition on the callers. `WriteOnce` says that no id is
put with two payloads and that two repair passes do not overlap; it is a
condition on the behaviour, not on the constants, so it covers any number of
clients, of whom several repair in turn, and `OneRepairerWritesOnce` proves it of
the instance that the run checks. It does not assume that puts of one id do not
overlap: that follows from the model's one put per payload (`issued`). The
invariant `WInv` keeps puts and repairs of an object apart: a put works on an id
that is not registered and on nodes without a row (`PutOK`), a repair on one that
is (`RepairOK`); so there is one Put under way at most that could tear a
file, and no row names it yet. What a read may return follows (`ReadOK`). For the
refinement, each action is shown to be a step of `WriteOnceStore` or a stutter
(`NextAbstract`): `PutAcked` and `RepairAcked` make an object readable or change
nothing, `PutFinish` lists it, `GetAnswered` answers.

**The admin API.** A response joins reads of different moments. `AInv` says that
what was read is still true: rows are never removed, by any step of the store
(`NextGrows`), and the payload of an id that is put once never changes. The theorems
about `VaultStore` carry over because every step of `AdminAPI` is one of it or
leaves it alone (`ApiSpecSpec`).

**The auction.** The ranking comes first. `Higher` orders scores as fractions do
(`NotHigherTransitive`, by cancelling a total that is not 0: the reason for leaving
out empty disks); so `Ahead` is a strict total order of the bids, a bid ahead of
another has fewer ahead of it, and the numbers 0, 1, 2, ... of bids ahead are taken
once each (`RankBijective`, by the library's theorem on injections between sets
of the same size). That is what makes the winners well defined (`WinnersRanked`)
and the loser beaten by all of them (`LoserIsBeaten`). `AuctionInv` follows the
rounds of probes: no node is probed twice, and one that stayed up is in the list
still to probe or has answered (`SteadyProbed`). `AuctionServesStore` justifies the
abstraction of `VaultStore`, which lets any `ReplicationFactor` of the bidders win:
`StoreMayChoose` is its `Winners`.

**The election's invariant.** A leader has a quorum because the granted answers
its election counted are votes of that election's term. Behind it are: a granted
answer, from the moment a handler has passed `Grant`, is in `votes`
(`HandlerOK`); a call carries the term of the election with its id, if that
election still runs (`CallOK`); the answers collected so far are votes
(`ElectionOK`). Nothing in it relies on terms being monotonic or on a server
voting once, which the code does not provide. Majorities are compared by
cardinality (`MajorityGrows`, from the library's theorems on finite sets), and
`LeadersKept` disposes of every step that makes no leader. `FollowerHasTimer` is
inductive together with the types.

**One leader per term.** Two leaders of a term have majorities, which share a server
(`MajoritiesMeet`), and that server voted twice. `SerialOK` excludes it: no vote
is ahead of its voter's term, a vote in that term is the `voted_for`, and what a
deciding handler found of both is still so. The last part is what
interference breaks, and TLC's counterexample (section 3) is why the condition is
there: without it the theorem is false. Terms do not decrease as long as nothing
interferes, since a handler that steps down then does so to a later term.

**AppendEntries.** `AppendInv` joins the election's invariant, `FollowerHasTimer`
and three parts. `DemoteOK`: a handler about to make its node a follower has left a
timer on it, unless the node was stopped; this is what the two separate critical
sections rest on, and why `Demoting` is assumed. `Numbered`: the numbers of the
entries in a log increase, those applied increase, and every entry beyond
`last_applied` has a larger number than all that were applied. That is why the loop,
which starts there, repeats nothing: a new entry has the largest number of all, and
a cut removes entries only. `AppliedPrefix`: on a node that nothing disturbed,
`last_applied` entries of the log are applied and the commit index is not beyond them.
For the loop runs to a commit index that is within the log it has just cut, or is the
old one, which was reached before (`ApplyUpToApplies`); so it never reads past the
end. The steps of `RaftElection` keep the invariant by the lemmas
of its own proofs; for the handler's steps on role and timer one lemma
(`RoleStepInv`) says what they must not do.

**The console's invariants.** The toast's timer and the ledger are inductive with
the types. The directory needs that no deleted number exceeds the last upload
(`DirectoryInv`), so that a new object's number is new; what inserting and
removing a row do to the order and to the set of numbers are the lemmas
`ConsDirectory` and `WithoutDirectory`. That the toast is true (`ToastHolds`) rests on
them, and on every handler that changes a list replacing the toast.

Every inductive invariant was checked by TLC before it was proved: those of the
runs' instances on these, `WInv` on 3.0e5 states, `SInv` on 2.2e6 (three payloads,
three nodes, two faults, up to the first overlap), `AuctionInv` on the 1.0e6 of
`auction_winners`, `OneLeaderPerTerm` also with four elections of two servers and
two of three.

**Only model-checked.** Every invariant that a run checks is a theorem above. The
liveness properties (`CallsReturn`, `ElectionEnds`, `ToastGoes`) are not: liveness
under fairness is out of TLAPS' reach here. Nor is the refinement outside
write-once use, where it is false.

## 5. Not modelled, and why

* What follows the blocked lock in `_replicate_to_peer`, and
  `_advance_commit_locked` (lines 229-259, 122-128): dead code, because the
  thread never gets there. AppendEntries with a negative index.
* The window inside `_reset_election_timer` when start()'s initial timer calls it
  without the lock (line 62).
* `run_dev.py`, the `main` modules, generated stubs, the build configuration: no
  state of their own. The manual checks: their assertions are sources of
  properties.
* The console's static content, styles and charts.
* Hung processes, full disks, a blocked sqlite database, gRPC's pool limits.

## 6. Plan

Modelling of the program is complete up to section 5, and the invariants are proved.
What could be proved next:

1. Action properties of the store in every schedule: no row is removed, a file
   once there stays (both are lemmas now: `NextGrows`, and a part of `IInv`).
2. `LatestStored` with calls that overlap without a put among them.
3. That `RaftAppend` implements `RaftElection` in what concerns votes, so that
   `OneLeaderPerTerm` covers AppendEntries handlers too.

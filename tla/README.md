# TLA+ models of psiphon-tunnel-core

Specifications, model-checking configurations and TLAPS proofs for the core of
Psiphon, on both sides of the tunnel:

* the client: how the controller establishes, keeps, replaces and closes
  tunnels, what happens inside one tunnel from its connection to its close,
  the packet transport that runs over whatever tunnel is current, and the
  datastore of server entries and persistent stats;
* meek, the HTTP transport, with the client's and the server's end of it;
* the server: the registry of its clients and their port forwards;
* the in-proxy broker's matcher.

File references are to the repository (`psiphon/...` is `src/psiphon/...`).
`PROJECT.json` maps every definition to the lines it models and lists the
runs, the mutants, the hazards, the findings and the theorems.

## 1. Inventory

| Component | State it keeps | Operations | Interacts with | Module |
|---|---|---|---|---|
| Controller (`psiphon/controller.go`) | the pool (`tunnels`, `nextTunnel`, `tunnelPoolSize`, `establishedOnce` under `tunnelMutex`), the channels `connectedTunnels` and `failedTunnels`, the establishment (`isEstablishing`, `establishCtx`, wait group, candidate channel, server affinity, dial counters) | `Run`, `runTunnels`, `startEstablishing`, `launchEstablishing`, `stopEstablishing`, generator, workers, `registerTunnel`, `terminateTunnel`, `SignalTunnelFailure`, `Dial`, `TerminateNextActiveTunnel`, restart signals | tunnels (activate, close, failure signal), datastore (candidates), tactics, local proxies, host | `Controller` |
| Tunnel (`psiphon/tunnel.go`, `serverApi.go`) | `isActivated`, `isClosed`, `isDiscarded`, `operateCtx`, conn, the in-flight connected request, keep alive state | `ConnectTunnel`, `Activate`, `operateTunnel`, `sendSshKeepAlive`, `AppResumed`, `Close`, port forwards, API requests | controller, server | `Tunnel` |
| Packet tunnel transport (`psiphon/packetTunnelTransport.go`) | current channel and tunnel, `closed`, read deadline, condition variable, worker wait group | `Read`, `Write`, `UseTunnel`, `setChannel`, `getChannel`, `failedChannel`, `Close` | controller (`UseTunnel`), `tun.Client` | `PacketTunnelTransport` |
| Client datastore (`psiphon/dataStore.go`) | server entries, tags, tombstones, affinity, dial parameters, persistent stats, SLOKs, tactics, key/values on disk; the reference count of the open datastore | store, promote, prune, iterate; open and close; take out, put back and clear stats | status requests, establishment, server list imports | `ServerEntries`, `PersistentStats` |
| Client meek (`psiphon/meekConn.go`) | round-trip buffers, relay state | `relay`, `relayRoundTrip`, `Read`, `Write`, `Close` | server meek | `Meek` |
| Server meek (`psiphon/server/meek.go`, `meekBuffer.go`) | sessions, cached responses, the shared buffer pool | request handling, session expiry, retry from the cache | tunnel server, client meek | `Meek`, `CachedResponse` |
| In-proxy broker and matcher (`psiphon/common/inproxy`) | announcement and offer queues, pending answers, sessions | `Announce`, `Offer`, `Answer`, matching, limits | clients, proxies, server | `Matcher` |
| Tunnel server (`psiphon/server/tunnelServer.go`, `common/net.go`) | SSH clients by session ID, port forward counts and LRU, traffic rules, OSL and DSL state | register, unregister, stop, port forward allocation | meek, OSL, tactics, API | `TunnelServer` |
| Server replay (`psiphon/server/replay.go`) | cached dial parameters with TTL | get, set, failed | tunnel server | – |
| Server API, rules, services, demux | rule sets, listeners | handshake, status, hot reload | tunnel server | – |
| OSL (`psiphon/common/osl`) | seed progress, SLOKs | seed, issue, paving, download | tunnel server, datastore | – |
| Tactics (`psiphon/common/tactics`) | stored tactics, tags, expiry, speed test samples | fetch, apply, TTL extension | controller, server | – |
| DSL fetcher, remote server list, upgrade download | ETags, partial files, persisted fetch state | resumable fetch | controller, datastore | – |
| `tun` server and client | sessions, packet queues | connect, resume, reap | tunnel server, packet transport | – |
| Obfuscator, common wrappers | seed history; LRU, throttling, burst and activity monitors; reloader | – | everything | – (the LRU: `TunnelServer`) |
| Configuration, dial parameters | parameters with tags, replayed dial parameters | select, store | controller, tunnel | – |
| Local proxies, notices, host bindings | listeners; callbacks | relay, log, start, stop | controller | – |

The hard behaviours:

* **Many goroutines around one pool.** Only `runTunnels` starts and stops
  establishing, but workers deliver tunnels, every `operateTunnel` signals its
  own failure, the host dials, asks for restarts and terminates tunnels, and
  the shutdown of any component ends the run context at any step.
* **Waiting under a lock.** `terminateTunnel` and `terminateAllTunnels` hold
  `tunnelMutex` while `Tunnel.Close` waits for `operateTunnel`; a meek handler
  holds `session.lock` while it pumps, and the reaper wants the same lock.
* **Values that are stale when used.** `runTunnels` computes whether a tunnel
  is the first or the last before it waits for the establishment to stop and
  before the handshake; registration comes after both. The match worker gives
  up a mutex in the middle of a pass; the server entry iterator walks a list
  of IDs whose entries change between its transactions.
* **Requests without a timeout.** Status and connected requests end with an
  answer or with the conn; liveness depends on who closes the conn.
* **Retries.** A meek round trip that fails is made again, while the handler
  of the first attempt may be alive; a status request may have been processed
  although it failed.
* **Condition variables, wait groups and atomics** used beside each other in
  the packet transport, and a condition variable whose condition another mutex
  guards in the tunnel server.
* **Limits.** Queues with entry limits by IP, slots for port forwards that
  dial and that are established, a shared pool of response buffers: each has
  a counter that is raised in one place and lowered on many paths.
* **Crashes** between the transactions of a status request, of a prune and of
  the iterator.

What makes each modelled part correct: the pool has open tunnels to distinct
servers and a valid round-robin index; a tunnel that fails is replaced; no
establishment overlaps the next; shutdown ends and leaves nothing open; Close
of a tunnel is orderly, ends, and never overlaps what it waits for; a dead
tunnel is noticed; the packet transport never keeps a dead channel, leaks none
and ends on Close; a meek session is a reliable stream in each direction; an
offer goes to the best waiting proxy and its answer comes back to it; a
session has one tunnel at a time and the slots of its port forwards add up; no
server is left out of a round, a pruned one stays away; no stat is lost.

## 2. Modules

| Module | Models |
|---|---|
| `Controller` | `runTunnels`, the pool, one establishment at a time, the failure signals, the watcher, the host's calls |
| `Tunnel` | one tunnel after `ConnectTunnel` |
| `PacketTunnelTransport` | all of `packetTunnelTransport.go` |
| `ByteStream` | abstract: one direction of a `net.Conn` |
| `CachedResponse` | the response cache of `meekBuffer.go`, as operators |
| `Meek` | one meek session, both ends; implements `ByteStream` twice |
| `Matcher` | the in-proxy matcher |
| `TunnelServer` | the clients of one session and their TCP port forwards |
| `ServerEntries` | the server entry buckets and the iterator |
| `PersistentStats` | the reference counted datastore and the life of a stat |
| `MC...` | instances for TLC (symmetry sets, catalogs of inputs) |
| `ControllerProofs`, `TunnelProofs`, `PacketTunnelTransportProofs`, `MeekProofs`, `MatcherProofs`, `TunnelServerProofs`, `ServerEntriesProofs`, `PersistentStatsProofs` | theorems about the module of that name (section 4) |

In all of them a step is the code between two synchronisation operations, and
an outcome that the modelled code does not decide (a dial, a timeout, a rate
limiter's verdict) is a choice.

### Controller

`rt` is the program
counter of `runTunnels` and `rtNext` where it continues after
`stopEstablishing`; `launch`, `gen` and `worker[w]` are those of the
establishment's goroutines; `op[t]` is the `operateTunnel` goroutine of tunnel
`t`, seen from outside; `host` is a `TerminateNextActiveTunnel` call. The
correspondence follows the code's names: `RunRestart`, `RunFailed`,
`RunConnected` and `RunShutdown` are the cases of `runTunnels`' select,
`RunCount` to `RunRegistered` the body of the `connectedTunnels` case,
`RunTerminateAll` to `RunDrainFailed` the code after the loop;
`StartEstablishing`, `StopEstablishingThen` and `EstablishingStopped` are the
two functions with their wait; `DialSucceeds`, `DialFails`, `DeliverTunnel`
and the `Skip` actions are the exits of one turn of the worker loop.

`tunnelMutex` is a variable because it is held across the wait in
`Tunnel.Close`. Other critical sections are single steps. `failedTunnels` and
`connectedTunnels` are sequences bounded by `MaxPoolSize`, as in the code,
where both channels have the capacity `MAX_TUNNEL_POOL_SIZE`. A tunnel object
that nothing refers to is reused by the next dial (`Unreferenced`), so an
execution may connect tunnels without end over a finite set. Server entries
are abstract; the generator may offer any of them in any order, and a dial has
an outcome only. `fault` records a Go panic instead of stopping the model.

The tunnel's side of a close is abstracted here to `TunnelClosed`, which waits
for `OperateStops`; `Tunnel` is the detail of that wait.

### Tunnel

`activation`, `closer`, `op`, `status`, `keepAlive` and `connected` are the
program counters of `Activate`, of the `Close` calls, of `operateTunnel`, of
its three workers and of the controller's connected request. `dead` says that
the server no longer answers, `conn` distinguishes an SSH connection that has
ended from a conn that was closed on this side. `Close` is called by the owner
(the controller) or by `Activate` itself when the handshake is interrupted;
the owner acts as the controller does: it never terminates a tunnel that it is
still activating. That the controller does not is a property of `Controller`
(`ActivatingTunnelOpen`), not of the tunnel, whose `Activate` has a branch for
it (section 5). A request ends with an answer or with the end of the conn; a
keep alive also at its timeout. Periodic keep alives are taken to be enabled
(`DisablePeriodicSshKeepAlive` is false, its default).

### PacketTunnelTransport

The condition variable has its lock (`condLock`) and its wait set
(`condWait`) spelled out, because the broadcasts are made without the lock.
The atomic `closed` is loaded in a step of its own wherever the code can be
overtaken before it uses the value. `worker` holds the goroutines that
`UseTunnel` spawned; `arg` is the tunnel that a caller passes to `UseTunnel`,
which for a call whose channel failed is the tunnel of that channel. A write may
find the read deadline passed at any time.

### Meek, CachedResponse, ByteStream

Bytes are numbered in each direction as they are written, so that what arrives
shows at once whether something was lost, repeated or swapped. The client is
the relay goroutine: `StartTrip`, `TryRequest` with its network errors,
`ReadPayload` chunk by chunk, `Retry` and `GiveUp`. The model starts when the
client holds the session ID cookie and its first round trip is over. The
network delivers requests in order or loses them; the response is the `wire`
of the client's current try, which ends when the client gives the try up. The
server has as many handlers as requests that are alive, of abandoned tries
too; each takes `session.lock`, discards itself if it was overtaken, pumps the
payload unless its checksum says it was relayed before, and answers from the
tunnel or from the cache. Checksums are two values that alternate: a payload is
compared with the last one relayed only, and a round trip ends only after its
payload was relayed, so more would not tell more apart. Status errors are those
of a fronted session (a 404 reaches the client). A session uses payload padding
or not (`session.padding`, chosen when it starts; the parameter is off by
default). With padding every request and response has a body, and a response
starts with a pad, whose write may fail before the chunk it precedes is written
(`PumpHeaderFails`).

The cached response is one ring with a write position; the code's list of
equal buffers with two indices is the same order. `Up` and `Down` are instances
of `ByteStream`: `sent`, `received` and `broken` are mapped to the bytes of
that direction, to `session.closed`, and in the down direction also to
`overrun` and `spoiled`, the history of the cases in which an open session
loses or repeats bytes: a response is dropped that could not be resent, a chunk
is dropped with its padding header, or a poll that never arrived is answered
with the response before (section 5).

### Matcher

`ann[a]` and `off[o]` are the progress of an `Announce` and an `Offer` call;
the queues are the multi-queue of the code, per kind, priority and compartment;
entries are numbered as they are enqueued, so that a queue is the set of its
entries and its order that of their numbers; `worker`, `rest` and `index` are
the pass of `matchAllOffers`, which gives the announcements' mutex up every
`YieldCount` offers. `MatchOffer` is the search of `matchOffer`: `Search` is
its state after each place of the merged queues, with the probe limits and the
NAT preference; `BestMatch` states what it should return without the search.
`pending` is `pendingAnswers`. Deadlines are those of the order of the calls,
which is what the code assumes of them; the rate limiter's verdict is the
environment's; the entry limit of an IP is `EntryLimit`, the sanity limit for
an exempt proxy; the broker chooses the connection IDs, and a proxy answers
what it was offered, once. `Stop` and `SetLimits` are not modelled.

### TunnelServer

`client[c]` is `sshClient.run` after the SSH handshake, with the three parts of
`registerEstablishedClient` (the check and eviction, the wait for the evicted
client, the registration, which the count of all clients may also refuse) and
the end of `runTunnel`. `StopClients` is the
server's shutdown. `fwd[i]` is a TCP port forward from its request to its end:
the reservation of a dialing slot by the manager `handleTCPPortForwards`, the
dial, `establishedPortForward` with its `CloseOldest` loop and condition
variable, the relay, which touches its LRU entry, and the return of the slot.
The condition variable's mutex and wait list are variables; the slot counter
is guarded by another mutex.

### ServerEntries

`entries`, `tags`, `tombstones` and `dialParams` are the buckets. Every
transaction is a step, with the whole of what it does: `StoreServerEntry` with
its checks of an existing record and of a tombstone, its tag record and the
placeholder dial parameters of a prioritised import;
`PruneServerEntry`; `PromoteServerEntry`; the two constructors of the iterator
and `Next`, which looks an entry up in one transaction and deletes or tags it
in another. `it.first`, `it.front` and `it.rest` are the affinity server, the
candidates moved to the front and the others; each part is shuffled in the
code, so its order is chosen as it is consumed. `Corrupt` damages a record at
any time, so that it fails its signature or does not unmarshal: imports and
prunes look at the second only, the iterator, with a signature key configured,
at both. The deletion of a damaged record may fail, and then the record stays;
`Restart` is a crash or an exit, after which the region may change.

### PersistentStats

`record[r]` is a stat in its bucket, `request[q]` the status request of a
tunnel. `OpenFirst` and `ResetAll` are the two parts of `openDataStore`, which
releases its mutexes before it resets the stats of an earlier run; the reset
may fail, which is ignored (`ResetFails`). `Invalid` are the records whose key
does not unmarshal: `TakeOut` deletes those that its cursor comes to. A request
may fail before or after the server processed it, an update of the datastore
may fail, and the client may crash at any point with any of the running
requests processed later. `processed`, `doubtful`, `stranded` and `raced` are
history, for the properties.

## 3. Runs

| Run | Checks | Instance | States |
|---|---|---|---|
| `ctl_safety` | `TypeOK`, `NextTunnelInBounds`, `PoolServersDistinct`, `PoolTunnelsOpen`, `OneStatusReporter`, `ExitClosesTunnels`, `EstablishmentContained`, `ActivatingTunnelOpen`, `NoPanic` | 2 tunnels, 2 servers, 2 workers, pool of 1 or 2 by the launch, 1 intensive dial, one host signal | 1 500 000 |
| `ctl_liveness` | `ShutdownCompletes`, `PoolRefilled` | 2 tunnels, 1 server, 1 worker, pool of 1, channels of 3, one host signal, `FairSpec` | 36 000 |
| `tunnel_life` | `ClosedNotOperated`, `OneStatusRequest`, `ConnectedRequestAwaited`, `CloseReturns`, `DeadTunnelSignalled` | a status reporter, with app resumes, `FairSpec` | 15 000 |
| `ptt` | `CurrentChannelLive`, `OpenChannelReachable`, `CloseReturns`, `FailedCallRedials` | 2 tunnels, 2 dialed channels, 2 workers, `FairSpec` | 649 000 |
| `meek_safety` | `BuffersReleased`, `UpStream`, `DownStream` | with and without padding, 2 handlers, 1 byte up, 2 down, 2 failures, buffers of 1 byte, pool of 1 | 4 050 000 |
| `meek_liveness` | `UpDelivered`, `DeleteCompletes` | with and without padding, 2 handlers, 1 byte each way, 1 failure, `FairSpec` | 281 000 |
| `meek_gap` | `DownComplete`: violated | 3 bytes down | – |
| `matcher` | `CountsExact`, `LimitsHold`, `AnswersRouted`, `NoMissedMatch`, `BestMatch`, `AbortedMatchReported` | 2 announcements of 3 kinds, 2 offers of 2 kinds, a limit of 1 entry and a sanity limit of 2, queues of 2, a yield after every offer | 2 580 000 |
| `server` | `SlotsExact`, `OneTunnelPerSession` | 3 clients, 3 port forwards, limits of 2 dialing and 1 established | 324 000 |
| `server_wakeup` | `ClosedTunnelExits`: violated | 1 client, 2 port forwards, `FairSpec` | – |
| `entries` | `PrunedStaysPruned`, `TagRecordsCurrent`, `RoundComplete` | 2 servers, 4 entries with 3 tags, 2 regions, 1 damaged record at a time | 1 370 000 |
| `stats` | `NoStatLost`, `NotReportedTwiceAtOnce`, `DuplicatesExplained`, `EventuallyReported` | 4 stats of 2 types, one invalid of each, 2 requests, 2 users, 2 faults, no room but for one record, `FairSpec` | 193 000 |

What each property says of the code is in the comment above it. Deadlock
checking is off where the system may stop: a client that has exited, a closed
transport or session, a matcher whose bounded calls have all returned, a server
that has stopped. `entries` and `stats` check for deadlock.

The modules whose run does not list `TypeOK` define it all the same, as the
description of their state; section 4 says for which it is proved.

**Bounds.** Controller: two tunnels with a pool of two give a full pool, and
one of one a surplus tunnel that is discarded and a replacement that connects
while the failed one is being closed. Two servers are the least with which a
pool of two can fill and a duplicate can happen. Two workers are the least that
can dial the same server, contend for the intensive dial and be caught in
different places by a stop. `TunnelPoolSizes` of 0 and 3 against a ceiling of 2
exercise both ends of the clamp. `MaxSignals` bounds only what the host sends;
tunnel failures are unbounded. In `ctl_liveness` `failedTunnels` has room for
every signal that can be pending, which is how the code is dimensioned
(capacity 32 against a pool of one or two); see section 5 for a full channel.
Transport: two tunnels let a failed call redial the older one; two channels let
one be replaced while a call still uses it; two workers are what two callers of
`UseTunnel` can have running together.

Meek: two failures allow a retry that itself fails and is retried, and with two
handlers the handler of an abandoned try meets the one of its retry. With
one-byte buffers and a pool of one, a response of a pad and two bytes fills the
cache, extends it and overruns it; a payload and a poll are two requests that a
handler can mix up, and without padding a poll has no body. Matcher: two
announcements and two offers are the least with which an answer can reach the
wrong client, an entry arrive behind the pass and a choice be wrong, and fill a
queue of two (more than the probe limits is out of the run's reach: `BestMatch`
is checked within them); the three kinds of proxy cover priority, the exempt
address, quality, version and NAT preference. Server: three clients let two new
ones evict the same old one; with one slot and three port forwards two wait
while one relays. Entries: the catalog has a server whose record is recycled
under a new tag, one that is updated by a list, an embedded one with no tag,
and an address that is a prefix of the other. Stats: four records, of each type
a valid and an invalid one, of which each type keeps two; two faults allow a
put back that fails and a crash, or two lost answers.

Symmetry is used in safety runs without temporal properties only.

**Fairness.** Goroutines run (weak fairness on their steps). Dials,
handshakes, keep alives, meek round trips and shutdowns end because the code
gives each of them a timeout. The cases of `runTunnels`' select, of the meek
relay's and the two cases of `operateTunnel`'s select that end it have strong
fairness: Go picks among the ready cases at random, so one that is ready again
and again is picked; the same holds for the periodic keep alive signal, whose
timer is set anew after each firing, and for a contended `sync.Mutex`
(meek session, the server's condition variable), which hands itself
over to a waiter that starves. In `PersistentStats` the client runs again and
again for long enough to make a status request. Nothing is assumed of tunnels
failing, of the server answering, of the host's calls, of anybody writing or
closing, or of requests that have no timeout.

## 4. Proofs

TLC checks the instances above; the theorems hold for all values of the
constants that satisfy the `ASSUME` of their module: any numbers of tunnels,
servers and workers, any positive pool ceiling.

**`ControllerProofs`.** `TypeOK` alone is not inductive: `runTunnels` appends,
terminates and sends the tunnel "in hand", and a worker delivers the tunnel it
dialed, so the step that uses the tunnel needs to know that there is one.
`TypeInv` adds this: `RunHandsOK` (at every program counter that uses
`rtTunnel`, or `hostTunnel`, it is a tunnel), `WorkerHandsOK` (a worker that
delivers holds a tunnel), and `NextTunnelInBounds`, which the removal from the
pool and the advance of the index need of each other. From it follow
`ControllerTypeOK` and `ControllerNextTunnelInBounds`.
`ControllerEstablishmentContained` is inductive relative to `TypeInv`: the one
step that clears `isEstablishing` is enabled only when every goroutine is in
its end state, and the goroutines start in an establishment only.

`ControllerPoolServersDistinct` needs more than the check in `RunRegister`: a
tunnel object in the pool must not get a different server by a new dial. A
dial writes only to an object that nothing refers to; `WorkerOwnsTunnel` says
that a tunnel a worker has in hand is known to nobody else (`Known`: it is not
operated, not in the pool nor in a channel, not in the hand of `runTunnels` or
of the host) and to no other worker, and it is proved
inductive first (`ControllerWorkerOwnsTunnel`).

`ControllerLifeInv` is the invariant for the life of a tunnel. `PoolTunnelsOpen`
and `ExitClosesTunnels` are about two ends of the same path and neither is
inductive: that nothing is open at the exit requires that every open tunnel
can be found. `PlaceInv` gives each its place: a worker's hand, the
channel `connectedTunnels`, the hand of `runTunnels`, the pool, or a close in
progress (`OpenPlaced`, with `OperatedPlaced` for those that run); it says that
a closed tunnel is not operated (`ClosedIdle`), that `tunnelMutex` is held
across a close by whoever waits for it (`MutexHeld`), and which of these places
are empty after which step of the shutdown (`ShutdownOrder`). `NoPanic` needs
two more facts: the right to close `serverAffinityDoneBroadcast` passes from the
launch to the generator to one worker (`AffinityOnce`), and the channels are
closed when nobody of the controller is left to send. `OneStatusReporter`
follows from `FirstAlone`: a tunnel is made the reporter only when the
controller counted none, and between the count and the registration
no other can be added. `ControllerActivatingTunnelOpen` follows from the places:
the tunnel that `runTunnels` activates is in its hand and in no other place, so
nobody else can close it.

**`TunnelProofs`.** `TunnelInv` is `TypeOK` with three statements of who is
where: `CloseOwnership` (which of the two closers can be active at which point
of `Activate`, and that `isClosed` has one of them), `OperateOwnership`
(`operateTunnel` runs exactly in an activated tunnel, its workers only until it
has drained them, and the owner passes its wait only after it exited) and
`ConnectedOwnership` (a connected request in progress is announced, and it is
over when `operateTunnel` has ended a commanded shutdown). The three
properties `TunnelClosedNotOperated`, `TunnelOneStatusRequest` and
`TunnelConnectedRequestAwaited` follow from it without a further induction.

**`PacketTunnelTransportProofs`.** `TransportInv` is `TypeOK` with what each
caller and each worker holds: a call past `getChannel` has a channel that was
dialed, and whoever calls `UseTunnel` has a tunnel (`CallsHold`, which is the
theorem `TransportCallsHold`); a worker about to install a channel holds an
open one of its own tunnel, which is not the current one and which no other
worker holds (`WorkersHold`); an open channel is current or held so
(`OpenHeld`). `CurrentChannelLive` is not inductive without `WorkersHold`:
`setChannel` would install a channel that somebody closed.

**`MeekProofs`.** `MeekInv` has four parts beside the types. `LockInv`:
`session.lock` is held by exactly the handler that is past it, and a deleted
session has its buffers released; `MeekBuffersReleased` is this. `CloseOrder`:
the `meekConn` is closed before a session is deleted. `LiveInv`: the client
listens to one request at most, the newest, and every handler of an older one
is superseded or still waits. `UpInv` is the argument for the retry: as
long as the session is open, a request with a payload carries either the
payload that was relayed last, and its checksum says so, or exactly the bytes
that come next; what the client takes as acknowledged has been relayed in
full. With it `MeekUpStream` shows that each step is a step of
`ByteStream` or a stutter, for any numbers of bytes, handlers and failures.

**`MatcherProofs`.** `RoutingInv` relates the queues, the channels and
`pending` to the calls: what is queued has a call that waits, what is pending
was given to that proxy, an answer in a channel is that of the proxy that was
given the offer. `MatcherAnswersRouted` and `MatcherAbortedMatchReported` are
parts of it; `MatcherCountsExact` is inductive relative to it, by the
cardinality of the queue with and without the entry, and `MatcherLimitsHold`
relative to both: an entry joins a queue only when the counter is below the
limit, and the counter is exact. `MatcherBestMatch`
compares the search with a definition that does not search. `Search` is a
recursive function over the places of the merged queues; that it exists, and
that after each place it holds the best of the candidates seen, is proved by
taking the least place at which it would fail. The theorem has the search's
own limits as its condition: with more queued announcements than
`MaxProbe + 2` or `MaxPreferredNATProbe + 1` the code gives up a better match
on purpose. `MatcherNoMissedMatch` has the first limit as a hypothesis for the
same reason; `PassCovers` (a matchable offer is still ahead in the pass,
unless a signal will start another) is the part that the yield in the middle
of a pass would break.

**`TunnelServerProofs`.** `OneTunnelPerSession` is inductive with the types of
the registry. `ForwardInv` is what `SlotsExact` needs: which port forwards
are in whose queue and wait list and of whom the manager has one in hand, the
counters as cardinalities of the phases (`Exact`), and that the manager which
is free, or was signalled, has room for one more reservation (`WithinLimits`),
without which the reservation before the check would pass the limit.

**`ServerEntriesProofs`.** `EntriesInv` adds to the three properties that
an entry's tag is one that the catalog has for its server (`FromCatalog`),
that the derived tag of an entry without a tag has no record yet
(`UntaggedUnrecorded`, for the iterator's back-fill), and for the rounds that a
server that is owed is still ahead (`RoundCovers`) and would be returned now
(`OwedNow`). The assumption on the catalog is that a tag names
one server, as it does when it is derived from the server's address and secret.

**`PersistentStatsProofs`.** `StatsInv` says where a record may be: a request
that holds one holds it alone, and it is a valid one (`HeldValid`, as the
deletion of an invalid record must not take one from a request), unless the
late reset came or the record is in doubt (`HeldOnce`); a request with its
answer was processed (`AnsweredProcessed`); a record that was processed and is
not in doubt is cleared or held by such a request (`Settled`).
`StatsOpenWhileUsed` is the reference count of the datastore.

The constants are as general as the code: the sets of tunnels, clients,
handlers, calls and entries are arbitrary. Those that are counted (users,
requests, stats, port forwards) are assumed finite. The
matcher's assumption also states what `enqueue` and `Offer` refuse.

**Only model-checked:** everything about liveness (TLAPS has no support for
reasoning about fairness and ENABLED), that is the temporal properties of the
runs other than `UpStream`; the two violations; `DownStream`, because what
the ring of `CachedResponse` holds after a write is a fold over the bytes, and
a statement about it for any number of bytes is an induction over data;
`TypeOK` of `Meek`, for the same reason: the types in `MeekInv` leave out what
the responses carry and the size of the pool; `TypeOK` of `TunnelServer`, where
the LRU list is filtered with `SelectSeq`, a recursive definition.

## 5. Where the code and its comments differ

Two of these are runs with a counterexample; the quotations are in
`PROJECT.json`.

* `meek_gap` – a retry at position 0 of a response that has overrun the cache
  takes the branch for a new response (`meek.go:853`): the session stays open
  and the client misses the bytes of the first response.
* `server_wakeup` – the slot that `closedPortForward` signals is not guarded
  by the condition variable's mutex (`tunnelServer.go:5154`), so the signal may
  come between the check and the `Wait` of `establishedPortForward`. The port
  forward sleeps beside a free slot, and the tunnel waits for it.

The models exhibit the following too; no run is kept for them. In the
controller:

* a second failure signal for a tunnel that was replaced already starts an
  establishment with a full pool; its tunnels are discarded as surplus and
  nothing stops it (`controller.go:1155`);
* a launch sets a larger pool size while `runTunnels` stops it for what was
  the last tunnel, and the pool stays below its target with no establishment
  (`controller.go:1194`);
* when `failedTunnels` is full, `SignalTunnelFailure` calls `terminateTunnel`
  from within `operateTunnel`, and `Tunnel.Close` waits for that same goroutine
  (`OperateTerminates`); the capacity makes this remote;
* `doConstraintsScan` lowers its own copy of the pool size and leaves the
  controller's as it was (`DoConstraintsScan`, `controller.go:2412`);
* a host that calls `TerminateNextActiveTunnel` during the shutdown may send
  on the closed `failedTunnels` (`controller.go:575`); `NoPanic` is about the
  controller's own goroutines.

In the tunnel: `Activate` has a return for the case that "the tunnel gets
closed while Activate is running" (`tunnel.go:362-367`), and on it
`tunnel.mutex` stays locked, so that a later `Close` would block. The
controller closes no tunnel that it activates, which `ActivatingTunnelOpen`
checks and `ControllerActivatingTunnelOpen` proves, so `Tunnel` does not have
this return. The result of `CompareAndSwapInt32` is used inverted, so that the
first failed keep alive is the one not recorded and later ones each are
(`tunnel.go:2312`; "Ensure that at most one of the two SSH keep alive workers
(periodic and probe) perform the log and reset actions."); a reconnect asked
for by `AppResumed` waits for a status request that nothing ends
(`tunnel.go:2121`).

In the packet transport: a `Read` or `Write` between its check and
`channelReady.Wait` misses the broadcast of `Close` or of `setChannel` and
waits on (`packetTunnelTransport.go:189`); `UseTunnel` may add a worker after
`workers.Wait` has returned (`:212`). A worker for every call of `UseTunnel`
"ensures that the latest tunnel is used to dial a new channel" (`:216-218`), but
nothing orders the workers: a call that failed on a channel of an older tunnel
dials that tunnel again (`:338`), and when its worker comes last it closes the
channel of the newer tunnel and installs its own.

In meek, without payload padding: "when a client sends a request that never
reaches the server, it will retry with a Range header and position 0 [...] this
can lead to sending a response body twice, breaking the stream"
(`server/meek.go:840-847`). `allowCachedResponse` is FALSE for a body that was
not seen before, so the case that is left is a poll without a body; the model
has it, and it is part of `spoiled`. With padding every request has a body, and
`DownStream` holds without this exception. The other part of `spoiled` is a
failed write of the padding header: `pumpWrites` returns before the chunk that
the server's `Write` handed over is in the cache, and the retry gets the
response without it (`server/meek.go:2769-2782`). `net/http` buffers what a
handler writes first, so that write is not expected to fail in practice.

In the tunnel server: `stoppingClients` is checked in the first critical
section of `registerEstablishedClient` only (`tunnelServer.go:982`), so a
client that waited for the one it evicts is registered after `stopClients` took
its snapshot, and runs on. The dialing limit counts the reservation being made
with `>=`, so one dial fewer than the limit proceeds at a time, and a limit of
one makes every dial wait for a signal; `abortedTCPPortForward` does not give
that signal.

In the datastore: `Next` back-fills a missing tag with a record that holds the
tag in place of the server entry ID (`dataStore.go:1276-1278`; the comment at
1217-1220 wants the entry found by it). `deleteServerEntry` compares the ID
with records that have a version, which never match, and so leaves them behind
(`:1495`; "Remove any tags pointing to the deleted server entry."). A failing
tag update leaves its error in `err` and closes the iterator, although the
comment says "Do not stop." (`:1292`); `RoundComplete` leaves such a round out.
Dial parameters are deleted by the prefix of an address and so for addresses
that continue it (`:1550`). `dialParameters.go:1518` hands an address to
`PruneServerEntry`, which looks for a tag. The reset of the stats comes after
the mutexes of `openDataStore` are released, so it may hit the records of a
request that runs already (`:175`, `raced`), and its error is dropped: a record
that it did not reset stays in the state "reporting" until the next open. The
sanity check of a nested open returns with a mutex locked (`:139`); no state of
the model reaches it.

## 6. Plan

1. **The rest of the proofs.** The types of `Meek`'s cache and of the server's
   LRU, with both written so that the provers can follow them; the
   downstream refinement, at least for the requests that find their whole
   response in the cache.
2. **Pool refinement**: an abstract pool (a set of tunnels that gains and
   loses members, and ends) implemented by `Controller`.
3. **Composition** of `Tunnel` with `PersistentStats` at the status request,
   and of `TunnelServer` with `Meek` at the closing of a session.
4. **OSL seeding, tactics, server replay, seed history, reloader**: small
   sequential modules; pure parts as functions against a reference.

Later, if the abstractions allow: `tun` sessions, the DSL fetcher, resumable
downloads, the controller's fetch and reporter loops, the start and stop of
the host bindings.

## 7. Not modelled, and why

* Byte formats, cryptography, obfuscation, traffic shaping and parameter
  selection: no control state, or none that a small instance says anything
  about. Vendored and forked code (`vendor/`, `replace/`, the SSH and gQUIC
  forks) is left aside.
* In the controller: protocol selection constraints, tactics requests, the
  remote server list, upgrade, reporter and in-proxy proxy goroutines. They
  reach the modelled part as outcomes (a candidate is skipped, a dial fails) or
  as signals.
* In the tunnel: dialing, port forward channels, the contents of API requests.
* In meek: the dial and the creation of a session, rate limits, the other
  endpoints, polling intervals, the receive buffers, and the errors of
  unfronted meek, which close the connection.
* In the matcher: `Stop`, `SetLimits`, the rate limiter's arithmetic, the proxy
  quality state; and the unlocked lookup and deletion in `Answer` against an
  aborting `Announce`, which only a proxy that makes up connection IDs can
  bring about. Of the broker only the order of its calls to the matcher.
* In the tunnel server: UDP port forwards (the same functions with another
  counter), the rejection by a full queue, traffic rules that change, the SSH
  handshake, OSL and alert goroutines.
* In the datastore: the tactics and target iterators, the age below which an
  entry is not pruned (a prune of a young entry is a stuttering step), the
  iterator without a signature key (it returns an altered record), the state
  that is set and read whole (SLOKs, tactics, OSL and DSL), the storage
  engines.
* Real time: timeouts are steps that may happen when the timer runs, staggering
  and grace periods are steps without a duration.
* Configuration, notices, local proxies and host bindings: little state of
  their own; the host's calls are actions of `Controller`.

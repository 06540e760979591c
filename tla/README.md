# A verification development for cryomongo

cryomongo is a MongoDB driver written in Crystal. Its fibers share one client:
application fibers that run commands, one monitor fiber per server, a fiber per
pool that opens connections in advance, a fiber that polls DNS. The program is
built for one thread and, with `-Dpreview_mt -Dexecution_context`, for several.
What is hard about it is what these fibers do to each other: a mutex is given
back for every handshake and every wait, answers of servers are applied in
another order than they were given, and `close` may run at any moment. This
directory holds TLA+ models of those parts, what TLC checks of them, and what
TLAPS proves of them.

Paths below are relative to `src/src/cryomongo/`.

## Running the checks

    tlc -config pool_threads.cfg MCConnectionPool
    tlapm ConnectionPoolProofs.tla

`PROJECT.json` lists every run with its module and configuration, every
definition with the source lines it models, and for each property a variant of
the model with a plausible bug that the property rejects. In the modules, a
definition whose name has an underscore (`PickIdle_Peeks`) is such a variant of
the one whose name it begins with; no specification uses it.

## Inventory

| Part | State it keeps | Operations | Interacts with |
|---|---|---|---|
| Connection pool (`connection/connection_pool.cr`) | idle and used connections, total, in-flight handshakes, generation, paused/closed, availability channel | checkout, release, drop, mark_ready, start_min_size, clear, close, drain | commands, cursors and transactions (checkout/release), errors and monitor (clear), hello (ready), client (close) |
| Load-balanced pool (same file) | generation and count per serviceId | the same, per service | pinned cursors and transactions |
| Topology description (`sdam/topology_description.cr`, `server_description.cr`, `topology_version.cr`) | type, set name, last election, servers, session timeout, compatibility | update, apply_application_error, add/remove_srv_seed, close_to_unknown | monitors, handshakes, errors, SRV poller, selection |
| Server monitor (`sdam/monitor.cr`, `client/monitoring.cr`) | socket, resume channel, request flags | scan, request_immediate_scan, cancel_check, close | topology, pools, selection, RTT monitor |
| RTT monitor (`sdam/rtt_monitor.cr`) | socket, samples | measure, close | monitor |
| SRV poller (`sdam/srv_poller.cr`) | interval, closed flag | rescan, close | topology, monitors, pools |
| Client (`client.cr`) | topology, monitors, pools by address, setups under way | create/ready/clear pool, checkout with wait, on_topology_update, apply_srv_hosts, close | everything |
| Server selection (`client/server_selection.cr`, `sdam/selector.cr`) | none; waits on `@topology_update` | server_selection, wait_for_selectable_pin | topology, monitors |
| Command execution (`client/commands.cr`, `deadline.cr`) | a deadline | execute_command, handle_application_error | pool, session, topology |
| Retryable operations (`client/retryable_*.cr`, `backoff.cr`) | attempt, error, server to avoid | retry loops | session, selection, pool |
| Sessions (`sessions/sessions.cr`, `client/implicit_session.cr`) | server sessions, dirty, transaction number, last use | acquire, release, recycle, end, close | commands, retries |
| Transactions (`sessions/transactions.cr`) | state, pins, recovery token | start, commit, abort, with_transaction, pin/unpin | commands, pool |
| Cursor (`cursor.cr`) | cursor id, batch, pinned connection | next, close, kill | session, pool |
| Change stream (`change_stream.cr`) | resume token, operation time, batch | next, resume_after_error | cursor, session |
| Bulk writes (`bulk*`, `client/bulk_write*`) | batches and merged result | execute | retryable writes |
| GridFS, collections, databases, commands | none between calls | builders of commands | command execution |
| Messages, compression, authentication, TLS, encryption, URI, events, errors | buffers and values | codecs, parsers, bindings, observers | connection |

### What is hard, and what makes each part correct

- **Pool**: checkout tests its limits, unlocks, and counts what it opened only
  when it has locked again; clear, ready, close and drain fall in between. It
  is correct if limits hold, no connection has two owners, no slot is lost, what
  is handed out is live and of the current generation, clears and closes reach
  everybody, and nobody sleeps beside what he waits for.
- **Topology**: answers are read without the lock and applied with it, so they
  overtake each other, outlive the server's membership, and come from servers
  with an outdated opinion of who is primary. It is correct if a set has one
  primary, that of its last election; no answer undoes a later one; strangers are
  expelled; and the client ends up seeing a deployment that stays as it is.
- **Monitors**: anybody who changes the topology starts the missing monitors, a
  monitor leaves by itself, DNS and close stop others. Every known server should
  have one monitor, and a closed client none.
- **Pools of a server and its monitor together**: the pool is cleared inside the
  topology lock and made ready outside; checkout and selection wait on a channel
  shared by the client and ask the monitor for a scan. A pool should be ready
  only while its server is known, and no wait should miss its news.
- **Sessions and transactions**: a transaction number identifies one write over
  all its attempts; a server session has one user; the state machine keeps up
  with commands that failed half-way; a pinned connection is returned once.
- **Cursors and change streams**: batches are delivered once and in order, a
  pinned connection is returned once, a resumed stream misses and repeats nothing
  and does not end in silence.

`PROJECT.json` lists these hazards one by one with their lines, and the properties
that cover each, or why none does.

## Modules

| Module | Contents |
|---|---|
| `ConnectionPool` | the pool of one server, not load balanced |
| `PoolContract` | what users of the pool rely on: leases, limits, clear and close |
| `ConnectionPoolRefinement` | the mapping from the pool to the contract |
| `ConnectionPoolHistory` | the pool with the generation at which each handshake began |
| `ConnectionPoolProofs`, `ConnectionPoolRefinementProofs` | theorems |
| `MCConnectionPool`, `MCConnectionPoolHistory` | instances for TLC |
| `MCConnectionPoolLive` | two pools for TLC, limited and not, of which a behaviour follows one; both without a fill |
| `TopologyUpdate` | pure operators: what one description does to a topology |
| `Topology` | monitors, handshakes, errors, SRV poller and close around them |
| `TopologyUpdateProofs` | lemmas on each rule, and the theorem that every update leaves a sound topology |
| `TopologyProofs` | theorems about `Topology` |
| `MCTopology` | deployments for TLC |
| `ServerMonitoring` | one server with its monitor, its pool's readiness, and the fibers that select it and use it |
| `ServerMonitoringProofs` | theorems |
| `Transactions` | pure operators: the table of the transaction state machine, and what errors mean to it |
| `Sessions` | server sessions, implicit and explicit sessions, attempts of commands, a server that gets messages late |
| `SessionsProofs`, `SessionsOutcomeProofs` | theorems; the second about commit, abort and withTransaction |
| `MCSessions` | small applications for TLC |
| `ChangeFeed` | what a change stream promises its caller |
| `ChangeStream` | the stream and its cursor, and the mapping to `ChangeFeed` |
| `ChangeStreamProofs` | theorems |

### ConnectionPool

Variables are the pool's instance variables under their own names: `total`,
`idle` (the code's stack, last in first out), `inUse`, `inflight`, `generation`,
`paused`, `closed`; `lock` is `@mutex`; `queue` holds the fibers receiving from
`@availability_channel` and `channelOpen` says whether it is open. A connection
is an identity with a socket (`open`, `interrupted`, `copied`) and a generation
(`connGen`). `pc`, `held`, `startGen` and `timedOut` are the local state of a
fiber in checkout; `starters`, `filler` and `fillConn` that of the background
fill.

Everything inside one `synchronize` is one action. checkout keeps the mutex from
one turn of its loop to the next, so its actions are guarded by `lock = f` and
each is one turn: take an idle connection, discard a stale one, begin a
handshake (and unlock), wait (and unlock). `Established`, `ConnectRefused` and
`ConnectFails` are the three ends of a handshake; `Park` is the step from the
unlock to the receive, which only a build with threads (`Parallel`) interleaves
with other fibers: fibers of one thread switch at blocking operations only.
A wait may end by its timer at any time. A generation is a counter
bounded by `MaxGeneration`, the only bound; connections nobody refers to are
used again as new ones.

A clear that interrupts (`Client#clear_pool`) shuts sockets down in two ways, both
after the pool's mutex is free again. `ClearPool` returns the connections in use
(`toInterrupt`), and `InterruptInUse` shuts one of them down, at any later time.
Then `interrupt_pending_setup` copies `@pending_setup` (`CopySetups`), and shuts
down the connections it found there, also at any later time (`InterruptSetup`),
whatever has become of them by then: counted, idle or handed out. That list is the
client's and not the pool's, so the clear may be that of another server's pool,
and `CopySetups` comes at any time. Which of the connections being set up it
finds is a choice: one is listed from the opening of its socket to its last
reply, and `untrack_setup` compares numbers which every pool counts from 1, so
that the end of another pool's setup may take it off. `copied` remembers which
were found, so that the properties can tell connections shut down in use
(`ShutInUse`) from those.

Left out: `checkout_some` (nothing in `src/` calls it with candidates), the
constructor's loop for `initial_pool_size` (always 0), the purposes of
`@in_use` (they word an error), events, and the serviceId branches.

### PoolContract

A user of the pool should not have to know of generations, channels or fills:
there are connections that are available and connections that are leased, each
to one fiber; no more than `MaxPoolSize` of both; a lease starts only while the
pool is ready; a clear empties what is available and makes every current lease
one that cannot become available again; a closed pool leases nothing.
`ConnectionPoolRefinement` maps `idle` to what is available and the connections
held by users to leases.

### TopologyUpdate and Topology

`TopologyUpdate` translates `apply_description` rule by rule; each operator has
the name of the method or of the branch. A topology is a record whose servers
are a function from addresses to descriptions. nil is 0 for numbers and `None`
for names. electionIds (ordered byte strings) are ordered numbers; hosts,
passives and arbiters, which the code always walks together, are one set.

`Topology` surrounds it with what is concurrent. `fiber` is, per address and
slot, the state of a `Monitor#scan`: `StartCheck` is the moment the server
answers, `EndCheck` the moment the answer takes the topology lock, `EndScan` and
`StopMonitoring` the end of the loop and its `ensure`. `listed` is `@monitors`.
`PollRemoves` takes a server out of the topology and out of `@monitors`, and stops
its monitor, in one step (`client.cr:953-954`); pools are not in this module.
`outdated` stands for the identity test of line `sdam/monitor.cr:68`: it holds the
fibers whose server got another description object during their check. `notify` is
an `on_topology_update` that is still to run, outside the lock; `answers` are
hellos of connections being set up; `poll` is the SRV poller between its steps.
`ApplicationError` is `handle_application_error`, which may cut a monitor's
hello short (`cancel_check`).

The servers are the environment. A scenario is a sequence of eras, in each of
which every address describes itself in a fixed way or is unreachable; eras
advance at any moment. Slots bounds monitor fibers alive per address (an old one
that is about to end and its successor), `faults` failed checks and errors,
`handshakes` new connections.

Left out: pools (an error whose connection is of an old generation is ignored,
which is one of the outcomes `ApplicationError` has by not happening), RTT,
cooldown and streaming, which decide when a check runs and not what it does.

### ServerMonitoring

The composition of what `Topology` and `ConnectionPool` look at one by one, for
one server. Every part has its own lock or none: `known` (the description, in
the topology's lock), `pool` (ready, ever cleared, idle connections, in the
pool's), the monitor's loop, and two channels with room for one token. `news` is
`Client@topology_update`, which all waiting selections and checkouts share;
`waiting` holds who receives from it, in order. `token` is in
`Monitor@resume_scan`, `requested` is the flag beside it. `owed` is a history
variable: a scan was asked for and none has begun since.

A fiber's `pc` follows `server_selection` (select, request a scan, look again,
wait), `Client#checkout` (the fallback `ready_pool` of `get_connection`, the
pool's checkout, 50 ms of rest after `PoolCleared`), a handshake, and
`handle_application_error` with what follows it outside the lock (`Tell`,
`CancelCheck`). The monitor's loop has the actions of `Monitor#scan`, cut where
it takes or gives back a lock: an error may fall between any two. `replaced` is
the identity test that tells an overtaken check. `Cools` takes a token that is in
the channel, as the `select` of `wait_cooldown` does; that the cooldown may
already be over when it is called, and the token be left for the next wait, is
not modelled. The server crashes and recovers
at any moment; only faults the client heeds are counted in `faults`.

Left out: a topology of type Single, in which Unknown servers are selected; the
topologyVersion of errors (`Topology` has it); `Client#close`; several servers;
RTT.

### Transactions and Sessions

`Transactions` is the state machine of `sessions/transactions.cr` as a table:
which call is accepted in which state (`Accepts`) and where it leads (`After`),
what is restored after an error (`Restores`), and which errors are transient,
leave the outcome open, or unpin. `Sessions` runs it. A server session is one of
`Lsids` with its number (`txnNumber`), dirty or not; the pool of them is a stack.
A fiber's command takes its implicit session (`Lookup`), which exchanges a dirty
server session (`Recycle`, `Exchange`), takes a number once for all its attempts,
sends, and ends with a reply, a network error, an error that may be retried, or
an error of the client before anything was sent. A command may need another one
first (`NestedCommand`: a key for automatic encryption). `StartSession` to
`EndSession` are the calls of one explicit session, with `with_transaction` and
its retries. The server is the environment: messages lie in a bag until
`Deliver`, after the client has given up on them or never, and the server
applies a write unless it has one with that lsid and number.

A deadline, a server too old for sessions being selected, and staleness are
choices. The application does not commit a transaction of which a statement
failed with a transient error, which MongoDB forbids. Left out: cluster times,
snapshot reads, retryable reads (they change nothing on the server), the backoff
delays, options, and `prune_fiber_sessions`, which ends the sessions of fibers
that are dead: a fiber of the model ends its calls and keeps its session until
the client closes.

### ChangeFeed and ChangeStream

A position in the server's log stands for a resume token, a batch token
(`postBatchResumeToken`) and an operation time, so that they can be compared; a
batch is the part of the log behind `read` and up to `upto`. The memory of a
stream is what the code has: `pbrt`, `token`, `saved`, `seen`, `late`
(`@resume_on_timeout`), and the options `first`. `Opened` and `Resumed` are the
aggregate's reply with `apply_init_result`; `Take` is an event out of the batch
with `apply_document_token`; `MoreFetched`, `TimesOut`, `FetchFails` and
`FetchRefused` are the ends of a getMore, where the reply that was given up may
have moved the cursor; `Call` resumes first if the call before timed out.
A resumption fails with an error (`ResumeFails`), or times out
(`ResumeTimesOut`), which nobody rescues: `@resume_on_timeout` stays as it is.
`told`, `failed` and `last` are what the caller knows; `cut` is a history
variable: a resumption has timed out. `ChangeFeed` has only
`told`, `seen`, `failed`, `last` and the log: each event of the log once and in
order, and the end of the stream only after the event that invalidates it or
after an error that told the caller of it. A timeout is no such error.

The server is external: it drops cursors, answers with one batch or several,
with batch tokens or without (older than 4.0.7), refuses `resumeAfter` a
token of an invalidating event, and only with batch tokens may send a first batch
before it looked at the log. This last restriction is the model's. The driver's
README supports servers from 8.0, all of which send batch tokens, while the code
accepts any from wire version 6 (`client.cr:35`); what the older ones could do to a
stream is told below.

Left out: events without an `_id` (`change_stream.cr:228`), `limit`, the end of the stream's session, a
call after `close`, and cursors that stay open on the server.

## Runs

| Run | Instance | What it shows |
|---|---|---|
| `pool_threads` | 2 fibers, 3 connections, maxPoolSize 2, two handshakes, fill to 1, idle timeouts, one clear, interrupts of this and other pools, threads | the pool's books are right in every interleaving with unlocked handshakes; limits, exclusive use, what a clear means to a waiter and to the sockets it shuts, and the contract |
| `pool_live` | 2 fibers, 2 connections, maxPoolSize 1 or 0, one thread, fair | no wake-up is lost on one thread; waiters of a cleared pool leave; sockets of before a clear are closed in the end; close releases everybody and every socket |
| `pool_lost_wakeup` | 2 fibers, maxPoolSize 1, threads | **violated**: a signal between unlock and receive is lost |
| `pool_clear_in_handshake` | 1 fiber, one thread | **violated**: a clear and a ready during a handshake leave the connection looking fresh |
| `topology` | twelve deployments of up to three servers, in up to three eras | the nine safety properties of `Topology` and `Converges` |
| `topology_compatible` | two members, one too old for the client | **violated**: `compatible` is what the last server that answered says |
| `topology_closed_watch` | two members, one handshake, close | **violated**: close returns and a monitor is running |
| `monitoring` | 2 fibers, one outage or error that counts, fair | no requested scan is lost, a server a command found Unknown is checked at once, server and pool recover, nobody is forgotten |
| `sessions` | thirteen applications of one or two fibers, 4 server sessions, 2 servers, 2 connections, fair | writes are applied once, outcomes told are true, sessions have one holder, connections are returned, commands end |
| `sessions_nested_retry` | one write that needs a key each time it is sent | **violated**: a retry goes out with another session and number |
| `change_stream` | a log of 3 entries, batches of 2, one fault, load balanced, fair | the token is exact, the stream is a `ChangeFeed` but for the end after a resumption that timed out, every event is told |
| `change_stream_timeout` | a log of 1 entry, one fault | **violated**: a resumption that times out ends the stream |

Connections and fibers are symmetric in the safety runs of the pool; the fair
ones use no symmetry. `CHECK_DEADLOCK FALSE` is set because these systems may
stop: a closed pool whose fibers stay outside, a closed client without monitors,
an application whose calls are made, a closed stream.

### Why the bounds are enough

**Pool.** Two fibers and the background fill on two slots, with three
connections, is the least instance in which somebody waits while others use,
return and clear, two handshakes run at once, and a stale connection lingers
while a new one is opened. One clear falls before, into or after a handshake or a
wait; `pool_clear_in_handshake` shows what a ready after it does. A setup may be shut down
at each of its steps and after them. `pool_live` has one slot, for which two fibers
contend, or no limit, where every check-in is in excess and what closes a socket
is the check-in itself. It has no fill, since with one `NoSleeperBesideFreeSlot` does
not hold (see below). `CloseReleasesAll` holds under `FairSpec` with a fill and threads
too (one fiber, three connections, maxPoolSize 0, minPoolSize 1), which is not among
the runs. The theorems below hold for every size.

**Topology.** Three addresses are a primary, its successor and a server that
enters or leaves; three eras are before, during and after a failover. Each
scenario is aimed at one rule: `Failover` (a new primary with a higher electionId
and a lower setVersion), `OldFailover` and `Upgrade` (the rule of before 6.0, and
both at once), `Reconfiguration` (a member dropped and one added while the old
primary is down), `Strangers` (another set, a standalone), `Lone` (restart, a new
process id), `Direct` (single topology with a set name), `Alias` (a seed that
calls itself otherwise), `Routers` and `Listed` (DNS with a limit; DNS for what
turns out a replica set), `Closing` and `Balanced`.

**Monitoring.** Two fibers are one that finds the server Unknown and one that
waits for news, or whose handshake overtakes a check. One fault meets every step
of everybody; failures that change nothing (a hello to a server that is down, a
timeout, an error on a stale connection) are not counted. With two faults the
same properties hold, in three minutes instead of one.

**Sessions.** Each of the thirteen applications is aimed at one mechanism:
`writer` and `writers` (retries and late messages, the pool of sessions
shared), `closing`, `recycling` (a dirty session is replaced), `nested`, `mixed`
and `ending` (implicit beside explicit), `calls` (every call in every state, on
two routers), `failing` (the statements of a transaction fail), `balanced` (pinned
connections), `shared` (pinned connections beside those of another fiber),
`overtaken` (a close hands the session of a write under way to a transaction),
`with` (withTransaction). Two servers are the one a transaction was pinned to and the one a retried commit goes to; four lsids are those two
fibers and one explicit session hold, and one to exchange.

**Change stream.** Three entries are an event told, one that does not match and one
not told yet, or one that invalidates, in every order; batches of two have a first
and a last event, which get different tokens. One fault, and a caller that times
out as a choice of `next`, give every pair of a failure and a resumption that
fails. With two faults the same properties hold. The theorems hold for every
bound.

### The properties of ConnectionPool

`PoolSizeBounded` and `ConnectingBounded` relate the books to the handshakes under
way without the mutex. `OneOwner` and `NoLeakedSlot` say of every connection that it
has one owner, and of every slot and every open socket that it has one, over
handshakes, clears and drains that fall into each other. `InterruptsOnlyStale` is
about the sockets that a clear found in use: they are shut down late, when their
connections may have been checked in and the pool may be ready again, and yet none
of them is handed out, since all are stale. `FreshHandOut` says the same of the
hand-out itself: the pool is ready, the connection of the current generation, its
socket open and not shut down. Both make one exception, the connections
that a clear found being set up (`copied`), because the code makes it: see below.
`ClearedWaiterNotServed` is about a clear and a ready while a fiber sleeps.
`ImplementsContract` has all of it as a user sees it.

### The properties of Topology

`OnePrimary`, `PrimaryIsNewest` and `ElectionNeverBack` say that answers of
deposed primaries do no harm in any order. `VersionNeverBack` says the same of
hellos and errors of one server process. `RemovedServerSilent` is about an
answer that arrives after its server was removed: it changes no server, no name and
no election (it may still flip `compatible`, and recompute the session
timeout). `SessionTimeoutSafe` relates the recorded session timeout to every
data-bearing server through additions, removals and demotions. `ServersBelong`
says no server of another kind or another set stays. `OneMonitorListed` is about
monitors added by several fibers. `Converges` says that once the environment no
longer changes and the client is not being closed, the topology becomes and
stays what the last era amounts to, with a running monitor for each server.

### The properties of ServerMonitoring, Sessions and ChangeStream

`RequestNotLost` and `UnknownIsRechecked` are about the monitor's flag and token,
cleared in four places of its loop: a scan asked for at any moment comes before
the next long sleep. `Recovers` says that a pool cleared inside the topology lock
or after it, and made ready by answers that were overtaken, ends up ready.
`Served` is about one token of news for many who wait.

`ExactlyOnce` relates what the fibers were told to what the server applied, over
retries and late messages; it excludes a client that is being closed and commands
nested in a retry, where it does not hold (see below). `OutcomeAgrees` does the
same for commit and abort, and `WithTransactionOnce` for a body that is run
again; both leave out a client that is being closed, whose writes under way may
move the number of a transaction. `OneHolder` is about the pool of server sessions and the fibers' implicit
ones, `ConnectionsAccounted` about a pinned connection over errors, aborts and
ends.

`TokenExact` is the promise of a resume token: not behind the last event told, not
beyond one that was not told, and accepted by the server. `ImplementsFeed` says
that nothing is lost or repeated over any sequence of resumptions, and that the
stream does not end without an error that told of it. `ChangeFeed` is the strict
contract; `EndsByTimeout` is the one step by which the code breaks it, the end of
the stream after a resumption that timed out, and `TimeoutNotTheEnd`, what
the code's comment says of that case, is checked by itself
(`change_stream_timeout`). `Delivers` says that an event is told in the end, unless
the stream was ended in one of these ways.

### Fairness

Pool: a fiber that holds the mutex goes on (weak fairness); a fiber that asks
for it again gets it, which is strong fairness, since `Sync::Mutex` queues its
waiters; a handshake ends because `connectTimeoutMS` bounds it; a fiber
returns what it uses; the client drains each pool it closes; who cleared the pool
shuts down the connections he got. Nothing is assumed of clears, readies, new
checkouts or interrupts of connections being set up. Topology: a hello is answered or times out,
a spawned fiber and a due `on_topology_update` run, a handshake under way ends,
the poller goes on (its interval is a timer), close goes on. Nothing is assumed
of the eras, of commands, of errors or of whoever closes the client. Monitoring:
fibers are scheduled, timers of the code end (rest, cooldown, heartbeat), a hello
is answered or times out, no outage is for ever; nobody has to begin a command,
and the time a caller allows for selection is not relied on. The condition names
the places a step leads to, so that it does not ask for each kind of outcome.
Sessions: an attempt ends (the socket has a timeout), a fiber goes on with its
calls, a message on its way arrives, late as it may be. Change stream: the fiber
in `next` runs, a getMore ends, and the caller goes on calling; nobody has to
write, and faults are bounded.

## Proofs

Of the pool TLAPS proves, for every number of fibers and connections, every limit,
with or without threads:

- `PoolInvariant`: `Spec => []Inductive`. From it `PoolTypes`, `PoolSize`,
  `PoolConnecting`, `PoolOwner`, `PoolSlots`, `PoolIdle`, `PoolInterrupts`.
- `PoolHandOut`, `PoolClearedWaiter`, `PoolClosed`: action properties.
- `PoolImplementsContract`: every behaviour of the pool is one of the contract.

For the build on one thread (`~Parallel`, Crystal's default) it proves besides

- `PoolClearWakes`: `Spec => []NoSleeperOnClearedPool`;
- `PoolNoLostSignal`: `Spec => []NoSleeperBesideFreeSlot`, for `MinPoolSize = 0`
  (the URI's default).

They assume `ConstantsAssumption` of `ConnectionPool`: the limits are natural
numbers, maxConnecting is not 0 (the URI's default is 2), connections and fibers
are finite sets, and the model values differ.

The properties are not inductive by themselves. Between the moment checkout
tests `total + inflight` and the moment it counts its connection the books
mention the connection nowhere, so the bound on the pool's size needs
`inflight` to be exactly the number of handshakes (`ConnectingBounded`), and the
slots need who holds what (`Ownership`). That idle connections are never stale
needs that a clear destroys what is idle and pauses the pool (`IdleUsable`'s
second part), that nothing becomes idle while it is paused, and that connections
counted in a paused pool are of an earlier generation (`Generations`): a check-in
that races with a clear then meets a stale connection. That late interrupts of what was in
use do no harm needs `HandshakeUncounted`: a connection being set up is open and in
nobody's books, so that only `interrupt_pending_setup` can have shut it down.
Nothing is proved of the sockets it shuts but that they are accounted for.
`LoopHasMutex` lets each action of checkout's loop use what was tested when the
mutex was taken. `ConnectionPoolProofs` has one lemma per conjunct of
`Inductive` (`TypeStep`, `LoopStepInv`, `OwnershipStep`, `SlotsStep`,
`HandshakeStep`, `GenerationStep`, `IdleStep`, `InflightStep`, `SizeStep`), each
with a step per action that can disturb it. The refinement proof maps each action
to an action of the contract or to a stutter, using `HandshakeMayJoin`: a
connection whose handshake ends fits because its place was reserved.

Both hypotheses on the wake-ups are needed. On several threads the mutex is free
between the unlock and the receive (`pool_lost_wakeup`). With a fill, `populate_min` frees a
handshake's slot and adds an idle connection with one signal, and TLC finds a
second waiter beside the free slot. Without either, `SleepersCurrent` says that
who is in the loop, about to wait or in the queue has the current generation,
because a clear needs the mutex and empties the queue. `SignalsKept` counts:
beside a sleeper there are at least as many *runners* (fibers in the loop, or
awake and bound for it) as idle connections and free slots. It is stated as two
alternatives, one for each limit, since the code frees by both and the smaller
one decides (`EnoughRunners`). Whatever frees one unit of either sends one signal,
which makes a runner of a sleeper (`SignalRuns`); who takes a unit was a runner;
who goes to sleep has found neither (`QuietQueue`). The one check-in that frees
without a signal, `ReleaseExcess`, happens in an unlimited pool only, where that
slot is of no use to anybody (`IdleFits`). `CountStep` has this, action by action.
TLC checked both invariants on three fibers, and limits of 0, 1 and 2, before the
proof.

Of the change stream TLAPS proves, for a log, batches and faults of every size:

- `StreamInvariant`: `Spec => []Inductive`. From it `StreamTypes` and
  `StreamTokenExact`.
- `StreamImplementsFeed`: every behaviour of the stream is one of `ChangeFeed`, but
  for `EndsByTimeout`.

They assume that `None` is no number and the bounds are (`NoneAssumption`,
`BoundsAssumption`). A resumption may start from the token, from the time of the
first reply, or from where the stream was opened, so `TokenExact` alone is not
inductive: `Memory` says of each of the three that nothing lies between it and
what the caller was told, in the cases in which it is used. For a stream opened
"now" that has neither token nor time this is false, and what saves it is that
such a stream has an event in its first batch (`Memory`'s last part) and is
resumed only when its batch is used up (`Places`). `Batch` ties the batch to the
caller's place and to its token; the log may grow meanwhile, which `LogGrows`
shows harmless. `Endings` says when a cursor is gone for good, which the end of
the stream needs: only after the invalidating event, or while that is still in
the batch, or after a resumption that failed and was told, or one that timed out
(`cut`). There is a lemma per
conjunct (`TypeStep`, `OutsideStep`, `BatchStep`, `MemoryStep`, `PlacesStep`,
`EndingsStep`), with a step per action; `Reply` and `ResumptionPlace` say what an
aggregate's reply does and where a resumption starts.

The theorems of `ServerMonitoring` hold for any finite set of fibers and any
number of faults (`FiberAssumption`, `MaxFaultsAssumption`):
`MonitoringInvariant`, and from it `MonitoringTypes`, `MonitoringRequests`
(`RequestNotLost`) and `MonitoringUnknown` (`UnknownIsRechecked`). The last two
speak of a monitor about to sleep and are not inductive: how it came there
matters. `Requests` says that a scan asked for is in `token` or ahead in the
loop, and that no token is left while the monitor sleeps or cools. `Found` says
of a server that became Unknown after the monitor's last answer that there is a
token, or that the fiber that marked it is still on its way to send one ("tell",
"cancel"). `Line` relates `waiting` to the places of the fibers: who waits is
in line once, and nobody waits beside a token. `Connections` bounds the idle
connections by the fibers that hold none, which the type of `pool` needs. The
lemmas `LineTail`, `LineAppend` and `LineRemoveAt` say what taking from a line
without repetitions, joining and leaving it do; `Counted` and `ErrorCounted` do
the counting of connections; `AnnounceEffect`, `WaitEffect`, `WakeEffect` and
`ErrorEffect` say once what each call changes, for the steps that make it.

Of the topology TLAPS proves, for every scenario, any addresses and names of sets,
and any number of monitor fibers:

- `ApplyKeepsSound` (`TopologyUpdateProofs`): what `apply_description` does to a
  sound topology, whoever answers whatever a hello can say.
- `TopologyInvariant`: `Spec => []IInv`. From it `TopologyTypeCorrect`,
  `TopologyOnePrimary`, `TopologyPrimaryIsNewest`, `TopologySessionTimeout`,
  `TopologyServersBelong`, `TopologyOneMonitorListed`, and the action properties
  `TopologyVersions`, `TopologyElections`, `TopologyRemovedServer`.

They assume `NoneAssumption` and `WireAssumption`, that there is a slot for a
monitor, and `ScenariosAssumption`: a scenario has an era, DNS answers in each of
them if it is polled, and in every era a server says what
`ServerDescription#initialize` can make of a hello, or is not reached
(`FromHello`). That a member of a replica set names its set is in there, because
the code decides by `setName` whether a server is a member at all; no server of a
hello is a load balancer or a possible primary.

The safety properties are no invariants each for itself. A topology is *sound*
when each of its servers fits it (`Fits`: its kind and its set are the topology's,
the recorded election is not later than the one it won, it keeps sessions long
enough) and there is one primary at most; a single server may be of any kind. An
update first stores the description, with which the topology is sound but for one
server (`SoundBut`), and then every case of `apply_description` either removes
that server, or forgets what it said, or makes the topology fit: `OfUnknown`,
`OfStandalone`, `OfMongos`, `OfPrimary`, `OfMember`, one lemma per case, on top of
one lemma per building block (`RemoveEffect`, `AddEffect`, `PossibleEffect`,
`DescribeEffect`, `ReplaceEffect`, `CheckEffect`, `DemoteEffect`,
`MembersEffect`). The type of a set is checked after the primary has left or come,
not before, so `CheckEffect` asks only that the servers would fit a set with a
primary. For the action properties the same lemmas carry `Inherits`: of what a
topology says of a server after the update, it said the same before, or it is
nothing a server said, or it is the new description; a primary among them is the
new one only if it is not stale. `Follows` puts both together; `Forward` says of a
step of the whole system that neither versions nor elections go back, and
`TopologyProofs` has one lemma per action, which proves `IInv` and `Forward`
together. `IInv` adds where monitors and answers are: a listed monitor has a
fiber, who is `outdated` is checking, no address is listed twice, whatever is
still to be applied came from a hello, and the poller is at rest while the
topology is load-balanced, since a server it added there would not fit.

The proof corrected the model once: the cases of `Dispatch` overlapped (a single
topology and a standalone server), and `CASE` does not promise to take the first.

Of the sessions TLAPS proves, for every scenario, any fibers, lsids, routers and
connections, and any bounds:

- `SessionsInvariant`: `Spec => []IInv`. From its parts `SessionsTypeCorrect`,
  `SessionsOneHolder`, `SessionsConnectionsAccounted` and `SessionsExactlyOnce`.

They assume `FiberAssumption` (the names are different from one another),
`RetryAssumption` and `ScenarioAssumption`.

`Typed` is the types with the shape of an operation between its steps
(`WellFormed`: who has a reply was sent or failed, who owns a connection was sent)
and of a message (`Carries`: the call it names exists). `Holders` adds to
`OneHolder` that while nobody closes the client, who executes a command holds a
live session (`OnLiveSessions`): with `OneHolder` this means that no two fibers
work with one lsid, on which everything about numbers rests. `ReturnedQueue` and
`AcquireCases` say what giving a server session back and taking another make of the
queue and of what is held; `OneHolderExchange` puts them together. `Accounted` adds
to `ConnectionsAccounted` that an ended session has no pin.

`ExactlyOnce` is far from inductive. `Exact` relates the four places that know of a
write: the fiber that executes it (`FiberExact`), its messages (`MessageExact`), the
server's record of the lsid (`Agrees`) and the history of the call. All messages of
a write have the number its fiber has, and no other message has it (`NumbersOwned`);
before the number is taken nothing was sent, nothing applied; what was applied has
a record that is not behind its number, and a record that tells of a write with
this number means that it was applied once; a good reply means the same. That
nothing else has a new number needs `NumbersGiven`, which holds in every case, also
in those that `ExactlyOnce` leaves out: no message and no record has a number the
client did not give out, and an lsid that is given out anew is one that nobody holds
and no message names. `EffectRecord` says what a message can make of a record,
`AgreesStill` what still agrees with it then, `ExactStep` that a step of one fiber
leaves the others alone. The proof shows where the two exceptions come in: a nested
command breaks that a fiber keeps its lsid, and close breaks `OnLiveSessions`.

Of the transaction of the explicit session (`SessionsOutcomeProofs`), on top of
`SessionsInvariant` and from the same assumptions:

- `SessionsTransactionKept`: `Spec => []OutcomeInv`. From it
  `SessionsOutcomeAgrees` and `SessionsWithTransactionOnce`.

What a commit tells is decided long before it is told. `TransactionKept` relates
the transaction, its command, its messages (`OursOf`: those with the session's lsid
and number) and the server's record (`Outcome`). The command goes with the state
(`CommandFits`), and so does what was told (`ToldFits`). Statements that succeeded are
in the record, and where the client takes the transaction to be empty there were
none (`StatementsHeld`). The record is not committed while the client has asked for
no commit (`NotCommitted`). A statement that is still on its way is the one the owner
waits for, or one whose connection broke; the application was told to begin again
then, so no commit follows (`StatementsUnderway`). Hence what a late commit finds is
final: a commit that was answered "ok" is in the record, and one that was answered
with TransientTransactionError never will be, because the record can be opened by a
statement only, and none is left (`Decided`, `Doomed`, `NoneLate`). `SentOnce` is what
ties the answer to the command: an attempt is one message, so that the answer to an
earlier one is not taken for it. `EffectOutcome` says what a message can make of a
record, `RecordMoves` what an answer makes of this one; `QuietKept` serves all steps
of other fibers, `GoesOnKept` the attempts, `CommandEndsKept` and one lemma per call
the rest. The transaction that the session has left (`told` is "over") is excluded
throughout: a write without transaction restores its state after some errors, and
the number has moved on.

For `WithTransactionOnce`, `CommitsApart` adds that nothing can be added to what a
commit on its way commits, `CommandAtStep` that the command executed is the one
withTransaction is at, and `CommittedOnce` that the transaction committed is the
session's, that no commit on its way can succeed once one did (`Commits`), and that
none did, or can, where withTransaction may begin again. There the answer to a
commit, `Doomed`, is what allows it.

The proof corrected the properties once. Both were stated for every live session,
and the invariant failed for a client that is being closed:
`end_fiber_implicit_sessions` returns the server session of a fiber whose write is
under way, the explicit session may take it, and the write, as it goes on, takes the
next number of what is now the transaction's lsid. TLC finds it in the application
`overtaken`, which was added.

### Only model-checked

Liveness (`CloseReleasesAll`, `ClearedWaiterLeaves`, `ClearedSocketsClose`,
`Converges`, `Recovers`, `Served`, `OperationsEnd`, `Delivers`), because it rests
on fairness and ENABLED. Every invariant and every action property that a passing
run checks is a theorem, `NoSleeperBesideFreeSlot` and `NoSleeperOnClearedPool`
under the hypotheses above; so are the two refinements.

## What the models showed of the code

- **A lost wake-up on several threads.** `wait_for_available` unlocks and then
  receives; `signal_available` sends without blocking. A check-in in between
  finds no receiver, and the waiter sleeps to the end of its wait beside a free
  connection (`pool_lost_wakeup`). One thread cannot interleave there
  (`PoolNoLostSignal`), but with minPoolSize set, two waiters and a handshake of
  the fill as the only one allowed, the fill's single signal
  (`connection/connection_pool.cr:619`) wakes one of them although the other could
  now open a connection; it waits for the next check-in.
- **A cleared connection that looks fresh.** The generation is stamped when the
  handshake has ended. A clear and a ready that both fall into it leave a
  connection of before the clear with the generation of after
  (`pool_clear_in_handshake`).
- **A connection shut down during its setup is handed out.** A clear that
  interrupts shuts the sockets of all setups of the client, of whichever server
  and generation (`client.cr:1023`), at a moment of its own: after the last reply
  of a setup, or into one that began after the pool was ready again. Checkout looks
  at `@closed` and `@paused` only (`connection/connection_pool.cr:236`), the fill does
  the same (`connection/connection_pool.cr:607`): the first hands such a connection
  out, the second makes it idle, with the generation of now, and its first use
  fails. `release` looks at the socket and would not have it idle
  (`connection/connection_pool.cr:350`); a comment on `clear_pool` speaks of "checked-out
  sockets" only (`client.cr:997`). No run of its own: the properties except such
  connections by name (`copied`), and without the exception TLC finds `FreshHandOut`
  and `InterruptsOnlyStale` violated.
- **Compatibility of the last server.** `compatible` is overwritten by each
  description, though its comment speaks of any server (`topology_compatible`).
- **A monitor after close.** `on_topology_update` does not look at `@closing`: a
  handshake or an SRV poll that was under way starts a monitor that close, which
  has copied the list, does not stop (`topology_closed_watch`).
- **A retry in another session.** A retried write that fetches a key before it is
  sent again has its dirty session exchanged under it (`sessions/sessions.cr:151`):
  it goes out with another lsid and number, and may be applied twice
  (`sessions_nested_retry`).

- **A stream that ends by a timeout.** A timeout inside a resumption, before the
  call proper (`change_stream.cr:129`) or in it (`change_stream.cr:145`), is rescued
  by nobody and does not set `@resume_on_timeout`, so the next call finds no cursor
  and returns the end of the stream, though the caller saw a timeout like any
  other; the comment at line 94 says that the next call resumes
  (`change_stream_timeout`).

The comments on `max_set_version` and `max_election_id` call them the largest
ever reported by a primary, while the rule for 6.0 and later records a lower
setVersion with a higher electionId. The code is right: a variant that keeps the
largest breaks `PrimaryIsNewest`, and takes the new primary for a deposed one.

Other places where code and comments, or code and what one would expect, part.
The models have them as they are, unless noted; none has a run of its own.

- *Change stream.* Any other error inside a resumption ends the stream too, even
  one that would be resumed elsewhere; `ChangeFeed` allows it because that error was
  told. An empty first batch of a resumed stream overwrites
  `@saved_operation_time` (`change_stream.cr:217`, against 88 and 92). What was
  written between the two times is lost if the server answered before it looked at
  the log and sends no batch token: servers before 4.0.7, which the code does not
  refuse, but the driver's README does not support. The model excludes this
  reply, and no property covers it.
  The error for a missing token (228) is itself one that resumes. A watch whose
  first aggregate fails keeps its implicit session. The resumption after a timeout
  has a deadline of its own before that of the call. `@omit_kill_cursors`
  (`cursor.cr:238`) is never reset.
- *Sessions.* close releases implicit sessions that are in use
  (`client/implicit_session.cr:34`): a session started meanwhile may get one, and the
  write under way then moves the number of its transaction. A commit tried again
  names a transaction the server does not know, and withTransaction runs again
  what was committed. The cursor of a fiber's implicit session
  changes its lsid when a later command recycles the session (`cursor.cr:79`).
  A retry may be numbered where its first attempt was not
  (`client/retryable_writes.cr:52`).
- *Transactions.* `start_transaction` sets its options before it looks at the
  state. The third commit of an empty transaction is sent
  (`sessions/transactions.cr:239`). A statement that failed with PoolCleared
  leaves the commit to carry `startTransaction`. Errors of selection and checkout
  in a retried commit carry no UnknownTransactionCommitResult label. A commit
  tried again after overload loses the majority write concern its retry had. A
  client error after the reply restores Starting although the server has the
  transaction open.
- *Monitoring.* One change of the topology wakes one of several waiting
  selections, the others sleep until the next (`client/server_selection.cr:42`);
  they are served in the end (`Served`). A check cut short by an error, which ends
  when a handshake has made the server known again, marks it Unknown once more and
  clears the pool (`sdam/monitor.cr:57`). An authentication error after the first
  clear is taken for stale, because a connection has generation 0 until it is
  counted (`connection/connection.cr:21`). `get_connection` makes a cleared pool
  ready (`client.cr:519`).
- *Registry of pools* (no model). A connection that outlives an SRV removal and
  return is checked in to the new pool of its address, whose connection ids begin
  at 1 too (`client.cr:880`, `connection/connection_pool.cr:505`). close empties
  the registry before the monitors stop, and a last answer may create a pool
  (`client.cr:218`). A raw runCommand that opens a second cursor forgets the
  pinned connection of the first (`client/commands.cr:503`).

## Plan

1. `ConnectionPool`, `PoolContract` and their proofs: done.
2. `TopologyUpdate`, `Topology` and their proofs: done.
3. `ServerMonitoring` and its proofs: done.
4. `Transactions`, `Sessions` and their proofs: done.
5. `ChangeFeed`, `ChangeStream` and their proofs: done.
6. The load-balanced branches of the pool, as constants of `ConnectionPool`, and
   the registry of pools with addresses that leave and return.

## Not modelled

Byte layouts, codecs, cryptographic exchanges, TLS and sockets, parsing of
URIs, events and logging: data without concurrency, or pure I/O. The library
libmongocrypt and the server itself are outside. Retry backoff and latency
windows depend on clocks and chance and are left to the unit tests. The builders
of commands, GridFS and the merging of bulk results keep no state between calls.
The generated documentation under `src/docs/` (a search index and the script of
its page) is no part of the driver.

# Verification of host-container

`host-container` is a Go server that runs a user's projects in Docker
containers: it creates, starts, stops and removes them over HTTP, keeps a row
per container in PostgreSQL, stops the ones that run too long, and restarts the
ones that crash. Users have accounts with links sent by e-mail, API keys and
private networks between their containers. This directory holds TLA+ models of that code, the TLC
configurations that check them, and TLAPS proofs.

## 1. Inventory of the system

| Component | State | Operations | Hard because |
|---|---|---|---|
| Container lifecycle (`service/hostContainerService.go`, `service/repository.go`, `service/ContainerHandlers.go`) | table `containers`; Docker | StartContainer, StopContainer, RemoveContainer | a row and a Docker container are changed in one request without a common transaction; the row is read before it is locked; contexts of 30 s end at any call |
| Auto-stop watcher (`checkAndStopExpiredContainers`) | the list of one tick | tick, loop of StopContainer | the list is old when it is used; one context of 2 min for the whole list |
| Event listener (`service/containerEventsService.go`) | Docker event stream | listen, dispatch | no `Since`: events are lost while the stream is down; a goroutine per event |
| Recovery (`service/recoveryService.go`) | `restart_count`, `circuit_open`, `oom_killed`, `health_status`, table `notifications` | HandleCrash, HandleOOM, HandleHealthChange, ResetCircuit | sleeps of up to 60 s between check and use; no transaction; competes with the lifecycle for the row |
| Provisioning (`CreateContainer`, `CreateContainerWithPort`) | rows, Docker, folders on disk | create with cleanup on failure | seven steps that can fail, cleanup with the context that ended, quota checked without a lock |
| Accounts (`service/UserService.go`, `service/userHnadler.go`, `service/adminHandler.go`, `repository/tokenRepo.go`) | tables `users`, `email_tokens` | register, login, refresh, verify, resend, reset, delete, change of plan | deletion races with creates; links are made by goroutines that outlive the request, in statements of their own |
| API keys and authentication (`service/apiKeyHandler.go`, `middlware/auth.go`, `jwt/helper.go`) | table `api_keys`; JWTs that live outside the server | create, delete, resolve | limit checked before the insert; a JWT outlives its account |
| Networks (`service/networkService.go`) | tables `networks`, `container_networks`; Docker networks | create, connect, disconnect, delete | two systems without a common transaction |
| Notification bus (`service/notificationBus.go`, `service/notificationHandler.go`) | table `notifications`; subscribers' channels | Subscribe, Publish, unsubscribe, Stream, MarkAllRead | a send may race with the close of the channel; full channels drop; a client that stops reading |
| Rate limiter (`middlware/ratelimit.go`) | limiters per address | getLimiter, Allow, cleanupLoop | a limiter is used after the mutex is released, and dropped by age |
| Connection pool and shutdown (`db_config/db.go`, `main.go`) | ten connections; the phase of main | Acquire, Release, Close, Shutdown | two connections per lifecycle request; Shutdown gives up after ten seconds |
| WebSockets (`websocket/`) | two goroutines, a context and a Docker stream each | terminal, logs, metrics | client, container and goroutines end in any order |
| CORS, logging, audit, panic recovery | none | per request | wrappers hide what a ResponseWriter can do |
| Files in a container, tree parser, templates, images, mailer, migrations | none of their own | commands, read-only queries, text | |

How they interact: HTTP handlers, the watcher and the event goroutines all
write the same row of `containers` and call Docker for the same container. The
only thing that orders them is the row lock that a transaction's first write
takes. Docker answers the lifecycle's calls with events, which the listener
turns into recovery handlers, which call Docker again.

What makes each part correct:

- lifecycle: row and container agree whenever no transaction is open, except
  after failures that nothing can undo; no row outlives its container; no
  container outlives its row unnoticed;
- watcher: an expired container is stopped eventually, and only such ones;
- recovery: restarts are bounded, come to rest, are not done on containers the
  user stopped or while the circuit is open; the owner is told; `starting` is
  transient;
- provisioning: no orphaned container or folder, no row without a container, the
  plan's limit;
- accounts: a link is accepted once, verifies or resets the account it was mailed
  to and no other, and every registration is sent one; tokens go to verified
  accounts that exist; the limit of API keys;
- networks: a container joins networks of its own user only; rows and Docker
  networks agree; the plan's limit;
- notifications: no send on a closed channel, no publisher held up by a client,
  each notification once to each tab that keeps up, the rest in the table;
- rate limiter: one bucket per client, whatever the cleanup does;
- pool and shutdown: no connection is lost, calls that wait for each other's
  connections do not keep it from the others, the process exits and never in a transaction;
- sockets: both goroutines and Docker's stream are released.

`PROJECT.json` lists every component, the hazards at the line where they bite,
and the lines of the source that each definition stands for.

## 2. Modules

    DockerDaemon <- ContainerManager <- RecoveryService
                         ^      ^             ^
                         |   ContainerManagerProofs <- RecoveryProofs
                         |
        ContainerContract (INSTANCE)

    Server <- Sockets <- SocketsProofs
    Networks <- NetworksProofs
    Notifications <- NotificationsProofs
    Provisioning <- ProvisioningProofs
    Accounts <- AccountsProofs
    RateLimiter <- RateLimiterProofs,  RateLimiter INSTANCEs TokenBucket

An arrow points to the module that is extended. The modules named MC... only add
the symmetry sets for TLC, and MCNetworks the owner of its container and the names
each user asks for.

**DockerDaemon** (external; modelled from how `src/` calls it). `docker[c]` is
running, exited or absent; `events` is the stream of the events that `dispatch`
tells apart. A stop, a restart and a forced removal of a running container emit
a `die`; for the first two the exit code is the process's choice, so both codes
are possible. Events are emitted only while the stream is open.

**ContainerManager**. `row[c]` is the committed row, `lock[c]` the transaction
that has written it, `call[a]` the program counter and the locals of actor `a`
(an HTTP request or the watcher), `late` the Docker calls that the server has
given up and the daemon has not. StopContainer is BeginCall (the read through
the pool), UpdateContainer (waits for the lock; returns ErrNotFound when the row
is gone), DockerCall, Commit. StartContainer is the same and then ResetHealth,
the UPDATE after the commit. RemoveContainer is BeginCall, DeleteContainer,
CommitDelete, CleanupStop, CleanupRemove; its disconnection from networks and the
removal of its folder do not touch this module's state (the folder is in
Provisioning). WatcherTick and StopExpired are `checkAndStopExpiredContainers`.
Failures: Abort (a step fails without effect, the deferred rollback runs),
DockerCallGivenUp and LateDockerEffect (Docker reports an error, and acts at any
later time all the same, after other calls and after a crash too), LateCommit (the
COMMIT takes effect and reports an error), CleanupStopFails, CleanupRemoveFails,
WatcherTimeout, ContainerExits (the process ends by itself) and ServerCrash. Two
history variables hold what the code has no remedy for. `slipped[c]` says that row
and container were left apart: a rollback or a crash after the Docker call, a late
effect, a process that ended; the next Docker call of a Start or Stop that succeeds
clears it. `orphans` are the containers that a removal left behind without a row:
its cleanup failed, a crash came before it, or the COMMIT of the DELETE took effect
and reported an error. NoUntracked excuses only these.

**RecoveryService** extends ContainerManager on the same rows. `hnd[h]` is an
event goroutine; each of its statements is a step: Lookup (the SELECT and the
early returns), OpenCircuit, CountRestart (after the sleep), Restart,
MarkRunning, MarkStopped, MarkOOM, MarkHealth, Tell. HandlerError is a failing
statement; which errors the code ignores is in AfterError. `restarts` counts
the calls of ContainerRestart since the last ResetCircuit (history). `lost` is the
history of the restarts whose last UPDATE failed, or whose handler a crash took
between 'starting' and it; StartingIsTransient excuses only these, not a failing
ContainerRestart and not a crash or fault elsewhere.

**Provisioning** is about one account. `job[w]` is a create request with its
context (`live`). AfterFailure holds the error paths of the two create methods,
UndoContainer and UndoFolder their cleanup. A call that fails may have had its
effect: CreateFails is a failure without one, LateCreate a container whose id the
server does not learn, LateStart a start, LateCommit a row that CreateContainer
then takes the container and the folder from. A process may end at any time after
its start (ContainerExits), also before the commit, which then makes a row
'running' whose `die` event has found no row. RemoveRow, LateRemoveRow,
RemoveMachine and RemoveFolder are RemoveContainer once more, now with the folder;
DeleteUser and UpdateUserPlan are the account's. The folder is made of a name and an
ID that the client chooses, so two creates may name the same one. `excused` and
`kept` are the histories of the containers and folders the code knowingly leaves
behind, and `unsure` that of the rows whose COMMIT was reported as failed.

**Accounts**. `users[u]`, `tokens[t]` and `keys[k]` are the rows of `users`,
`email_tokens` and `api_keys`; `inbox[e]` holds the links mailed to an address
and `jwts` the JWTs that have not expired. `send[s]` is a goroutine of Register,
ResendVerification or ForgotPassword: Lookup, InvalidateOld and InsertToken (the
two statements of `TokenRepo.Create`), SendMail. `req[r]` is a request with two
steps: VerifyEmail or ResetPassword (Consume) and then MarkVerified or
SetPassword; Login or RefreshToken (the read of the row) and then IssuePair or
IssueAccess; CountKeys and then InsertKey. DeleteUser and AdminDeleteUser delete
by cascade. SendFails, RequestFails and CountKeysFails are the error paths: the
error of the invalidation and that of the count are dropped by the code. A token
that was used and one that has expired are both "dead", since nothing tells them
apart. `redeemed` is a history variable. Guessing a raw token of 256 random bits
is not modelled: a request presents a link that was mailed.

**Networks**. `docker`, `machine` and `endpoints` are Docker's side (external),
`networks`, `containers`, `members` and `accounts` the tables, `limit[u]` the
max_networks of a user's plan, which UpdateUserPlan changes (0 without a row). `req[r]` is a
request: CreateNetwork is BeginCreate, CountNetworks, NetworkCreate,
InsertNetwork, UndoCreate; ConnectContainer and DisconnectContainer are the two
lookups, the Docker call and the statement; DeleteNetwork is the lookup, Inspect,
Detach for each container listed, NetworkRemove, DeleteNetworkRow;
RemoveContainer is there with what it does to networks. Docker refuses a second
network of the same name and a second endpoint of a running container, lists and
counts only the endpoints of running containers, and does not start a container
whose network is missing. `excused` records the networks that are left without a
row by a failing undo, a crash or the deletion of the account, and the rows left
without a network when the last DELETE does not happen; `loose` records the
connections that are left unlisted because their INSERT does not happen or the
DELETE of an earlier disconnection comes after it. A failing call is taken to
have had no effect: a NetworkCreate, NetworkConnect, NetworkRemove or INSERT that
reports an error and takes effect would leave behind one more network, endpoint or
row, which the code would not notice either.

**ContainerContract** is what the lifecycle promises: a start or a stop changes
status and container at one instant, a removal is final, and only a mishap (a
failing call, a crash, a Docker call carried out late) changes one without the
other. ContainerManager
implements it under the mapping in which the status of a row is the one its
transaction will commit once the Docker call was made (`SettledStatus`).

**Notifications**. `subscribers[u]` is the map of the bus, `chan[s]` the channel
of a stream, `stream[s]` the handler of `GET /notifications/stream` and its
client, `pub[p]` a goroutine in `persistAndNotify` or in the watcher's push. A
publisher holds the read lock from the read of the list to its last send; what
Subscribe and unsubscribe do under the write lock is one step, which waits for
the readers. `StreamWriter` is what the chain of middlewares leaves of the
ResponseWriter: `LoggerWraps` says whether RequestLogger is in it. The run that
is about the bus takes it out, because with it no stream is ever subscribed (see
section 4).

**RateLimiter**. `visitors` is the map, `waiting[r]` a request between
getLimiter, which runs under the mutex, and Allow, which does not. The clock
counts in the time of one token. **TokenBucket** is what a client is promised:
a bucket that is never thrown away. The map implements it with an absent entry
standing for a full bucket.

**Server** has the pool (`inUse`), the calls of creates, starts, stops and removals
reduced to the connections they hold and wait for (`proc`, with the context of
each), and the end of main (`phase`): the signal, Shutdown, Close of the pool,
exit. A create holds one connection from BeginTx to its commit, with the pull of the
image and its deferred undoing in between; the other three ask for a second one
while they hold the first. Each way to fail is an action: AcquireFails (the wait:
its context ended, or the pool is closed or cannot connect), QueryFails (the second
connection goes back), TransactionFails (a statement, the plan or Docker), each of
which leads to Rollback, and CommitFails, which gives the connection back by itself;
RemoveContainer drops the error of its second query and goes on. Requests that take
one connection for a single statement, and those of the accounts with a transaction
of their own, wait for nothing while they hold it and are left out.
**Sockets** extends it with the three
WebSocket handlers: `sock[s]` has the place of the handler, its helper goroutine,
their context, the client and Docker's stream. The lookups of ExecTerminal and
StreamLogs wait for a connection with a context that only the socket's own end
cancels. A terminal's input is written to Docker at once: a `Write` that blocks
because the shell does not read (terminalHandler.go:90) is not modelled.

What is abstracted: names, images, ports, resource limits and messages; times
to a small clock; the reading side of the API. `installPackages` has no effect
on the modelled state and its error is only logged. A commit that reports an error
has taken effect by then, or never does. A single statement outside a transaction
that reports an error, a call of a cleanup that does, and a failing
ContainerRestart are taken as without effect. Database reads see committed rows
(PostgreSQL, READ COMMITTED), and an UPDATE or DELETE waits for the row's lock.

## 3. Runs that pass

| Run | Instance | Shows |
|---|---|---|
| Manager | 1 container, 2 requests and the watcher, 2 faults, 1 crash | StatusAgrees, ExpiredIsStopped, ImplementsContract |
| RecoverySafety | 1 container, 2 event goroutines, 1 request (starts and removes), limit 1, health checks, 1 fault, 1 crash | RestartBudget, OpenedIsTold, and RowHasContainer and NoUntracked with recovery at work |
| RecoveryLiveness | 1 container, 2 event goroutines, 1 request (starts), limit 1, 1 fault | StartingIsTransient, RecoveryQuiesces, CrashIsHandled |
| ProvisioningSafety | 2 creates, 2 containers, 1 folder, limits 1 and 2, 1 fault, 1 crash | NoOrphan, RowIsReal, NoOrphanFolder, QuotaOvershoot |
| AccountsSafety | 2 addresses, 2 accounts, 2 links, 2 goroutines, 2 requests, 2 keys with a limit of 1, 1 fault, 1 crash | VerifiedByMail, PasswordByMail, RedeemedOnce, JwtOfVerified, MailedIsStored, KeyOvershoot, NoTokenAfterDeletion |
| AccountsLiveness | 1 address used by 2 accounts, 3 links, 2 goroutines, 1 request, 1 fault | LinksBounded, LinkIsSent |
| NetworksSafety | 2 users with 2 names and 1 (the first may be deleted), 1 container, 2 networks, limits 1 and 2, 2 requests, 1 fault or crash | Isolation, RowHasNetwork, NoUnrecordedNetwork, NetworkOvershoot, ConnectedIsListed |
| Notifications | 1 user with 2 tabs, 2 publishers, 2 notifications, channels of 1, 1 failing INSERT | NoSendOnClosed, OnceEach, PushedIsStored, PublishReturns, GoneIsUnsubscribed |
| RateLimiter | 2 addresses, 2 requests at a time and 5 in all, buckets of 2, entries that live 3 ticks, 6 ticks | NeverOrphaned, ImplementsBucket |
| Server | 2 connections, 1 request and the watcher, 1 socket of each kind in turn | PoolBalanced, NoCutTransaction, SocketServed, ShutdownEnds, SocketReleased |

The bounds. Containers share nothing in these modules but the watcher's list,
so one container shows the races. Two requests and the watcher are a holder of the
lock and two waiters, in each of the three operations, and two faults let a Docker
call be given up and the next call fail as well; what more of them do is covered by
the proofs. `MaxTime = 1` with a timeout of 0 makes a container expire, or be started
anew, around the watcher's query. `MaxEvents` only holds back new operations and
exits while events are waiting. `MaxRestarts` of 1 makes the circuit open
with two handlers overlapping; the bound of RestartBudget is reached in the
run (it fails with one less). In both runs of RecoveryService the
request does not stop the container: for the handlers a stop is an exit of the
process, which happens at any time (a stop through the API is in Manager and in
StopIsNotACrash). RecoveryLiveness has two handlers that race with each other, and a
fault that makes any call of theirs fail, ContainerRestart among them, or drops the
stream. Its request starts the container again and again: a start between a crash and
the end of the handler's sleep is what makes ContainerRestart hit a running container,
and so begins the loop that RecoveryQuiesces is about. Remove, and a crash of the
server, are in RecoverySafety. The two runs compare states by a VIEW that leaves
out what neither a guard nor a property of the run reads: histories, the
notifications in RecoveryLiveness, and columns such as oom_killed and health
(MCRecoveryService lists them). This loses nothing: states with the same view have
the same steps, to states with the same view, and every step under fairness changes
the view. In Provisioning
two creates that name one folder reach the
bound of QuotaOvershoot, and a lowered plan leaves more rows than it allows;
the proof is for any number of folders. In
Accounts two accounts with one address, one after the other, are the case in which
a goroutine finds another account than the one it was started for; two goroutines
and two requests make every statement of one fall between any two of another; a
goroutine is started only while a token is left for it. LinksBounded, KeyOvershoot
and NetworkOvershoot allow one more for each failing call, because the code
drops the error of the statement they rest on. `maxApiKeysPerUser`, 10 in the code,
is 1 here, and two key ids let two creations pass the check together and exceed it:
only the distance from the limit matters. In Networks two networks are
what one name can stand for, the one being deleted and its successor, or two
names that overshoot a limit of one, which is also what a plan of two leaves when
it is changed for one; the other user's network is what the
container must not join. Only the account that owns the container is deleted
(`Leaving`); the proofs have any set of users there. In Notifications two tabs of one user share the list that
unsubscribe shifts, two publishers hold the read lock together, and a channel of
one (32 in the code) is full after one notification. In RateLimiter a bucket of two
(30 in the code, refilled in three seconds, against ten minutes of an entry's
life) fills before an entry dies, and the clock goes far enough for an entry to
die and come back. In Server two calls of the lifecycle and two connections (ten
in the code) exhaust the pool while each waits for a second one, or a create and
the watcher while the socket waits for its first.

Fairness. Manager: each step of a request or the watcher is strongly
fair, because PostgreSQL grants a row lock to waiters in turn, whereas other
transactions may take it again and again in between; the ticker and the loop are
weakly fair. Failing is never fair, and neither are users, processes or the
clock. RecoveryLiveness adds strong fairness of handlers (same reason), and weak
fairness of the listener's loop, which always reads or reconnects. AccountsLiveness
takes the steps of a goroutine as weakly fair: it waits for nobody. In
Notifications publishers and the handler of a client that has gone are weakly
fair; no client ever has to read. In Server the fair steps are these:
contexts end (30 seconds; two minutes for a create and the watcher), and a call
whose context has ended does not block any more; Shutdown returns (ten seconds); a
socket's goroutines run and Docker and the database answer them, and a socket that
waits for a connection gets one when it comes free again and again (strong fairness:
the semaphore of the pool serves its waiters in turn). While its context lasts a
call need not get on at all: so SocketServed, that a socket gets its connection
although calls hold the whole pool and wait for each other, rests on the contexts
alone. No request, client, container or signal is fair.
StartingIsTransient excuses the restarts in `lost`, and LinkIsSent
claims nothing once a call has failed or the server has crashed, since
nothing in the code resumes what was lost. Liveness is checked without symmetry.

## 4. Runs that show a disagreement

| Run | The source says | The code does |
|---|---|---|
| StopIsNotACrash | containerEventsService.go:70, exit code 0 is the user's stop | a process that dies of SIGTERM or SIGKILL exits with 143 or 137 and is restarted |
| StreamIsServed | notificationHandler.go:24, a long-lived SSE connection | RequestLogger's wrapper of the ResponseWriter has no Flush, so the stream is answered with status 500 |

More were met and have no run of their own; the models contain all but the
figures of the metrics.

- The watcher stops what its list holds, also a container restarted since
  (README.md:73 speaks of idle containers).
- It pushes its notification to user "": the query of its list
  (repository.go:96) does not select `user_id`, whereas the comment at
  hostContainerService.go:699 speaks of the owner. NotifyAutoStop has NoUser for
  that.
- A handler that slept while another opened the circuit restarts the container
  all the same (recoveryService.go:66 says: no more restarts until a reset).
- A crash between the commit of a manual start and its trailing UPDATE is dropped
  when the circuit was open, and the row stays 'running'; so does the row of a
  process that ends with exit code 0.
- Two goroutines that make a link both invalidate before either inserts: two links
  work (tokenRepo.go:44 says only the latest does).
- Two creates at once both see room under the plan's limit (the message at
  hostContainerService.go:107).
- They may also name the same folder, and when one of them fails or its container
  is removed the folder of the other goes (hostContainerService.go:120, 533).
- A COMMIT of CreateContainer that took effect and reported an error leaves a row
  whose container and folder have been removed; one of RemoveContainer, a container
  that no row names.
- NetworkInspect does not list stopped containers, so they keep a network that
  DeleteNetwork has removed (networkService.go:155 says that all are disconnected).
- The handler of a terminal whose shell has exited stays in ReadMessage until its
  client sends something or goes: SocketReleased speaks of clients that have gone.
- The CPU share of the metrics (metricHandler.go:97) is a division of unsigned
  integers, 0 unless the container takes all of the system's time, and its divisor
  is 0 for a container that does not run. The figure is not modelled; the panic is
  (SnapshotPanics).
- The network figures of the metrics are never filled in.

The passing properties next to them say what does hold instead: RestartBudget,
QuotaOvershoot and LinksBounded bound the overshoot by the number of concurrent
handlers, creates and goroutines.

## 5. Proofs

`ContainerManagerProofs` proves for any number of containers and requests and
any bounds:

- `TypeCorrect`: `ManagerSpec => []TypeOK`;
- `StatusAgreement`: `ManagerSpec => []StatusAgrees`;
- `RowsHaveContainers` and `NoneUntracked`: `ManagerSpec => []RowHasContainer` and
  `ManagerSpec => []NoUntracked`.

None of the three safety properties is inductive. StatusAgrees says nothing of a
row with an open transaction, so it does not survive the commit; the invariant
adds AgreeInv, in which the row counts with the status its transaction will
commit (`Pending`) once the Docker call was made. That needs LockInv (the
holder of a row's lock is exactly the call that has written it, so there is at
most one) and PresenceInv (a locked row exists; a container that is being cleaned
up has no row), and CallInv (a call under way is about a container; only Start and
Stop make the Docker call). `IInv` is `SafeInv`, everything but AgreeInv, and AgreeInv; `InitIInv`, one lemma per
action and `NextIInv` prove it inductive. The lemmas on types use nothing but
types, so that RecoveryProofs can use them where handlers write the rows
as well (there StatusAgrees does not hold: a restart of a stopped container is one
of the disagreements above).

It also proves the refinement, `ManagerImplementsContract`:
`ManagerSpec => ImplementsContract`. With `IInv` before and after, every step of
the manager is a step of the contract or leaves its variables alone: the Docker
call is where a start or a stop takes effect, since SettledStatus looks at the
operation of the row's holder from there to the commit (`SettledBefore`), and the
commit itself changes nothing; a rollback or a crash after the Docker call is the
contract's mishap, a call that was given up one that it owes (`late`), and the COMMIT
of a DELETE that reports an error a removal that leaves the container.

`RecoveryProofs` proves of recovery composed with the lifecycle, for any finite
number of event goroutines:

- `RecoveryTypeCorrect`: `RecoverySpec => []RecoveryTypeOK`;
- `RestartsBounded`: `RecoverySpec => []RestartBudget`;
- `RowsHaveContainersBesideRecovery` and `NoneUntrackedBesideRecovery`:
  RowHasContainer and NoUntracked are invariants of RecoverySpec;
- `OpenedCircuitsAreTold`: `RecoverySpec => []OpenedIsTold`.

RestartBudget bounds the counter and the calls of ContainerRestart, and is not
inductive: it forgets the handlers between the check of the counter and its
increment (across the sleep), and those between the increment and the call. The
invariant `RInv` is TypeInv, HandlerTypes and BudgetInv: the counter plus the
handlers that have passed the check stays below the limit plus the number of
handlers, and the calls plus the handlers about to call stay within the counter
plus that number. Each step either moves one handler from one of these sets to
the next (MoveShrinks, HandlersAtShrinks) or leaves them alone (BudgetFrame);
ResetCircuit sets counter and calls to zero, and what is left is bounded by the
number of handlers. For rows and containers `SafeInv` of the lifecycle is
inductive beside recovery as well: an UPDATE of a handler neither makes nor
deletes a row (`UpdateRowSafe`), and ContainerRestart fails on a container that is
gone (`RecoveryFrame`). OpenedIsTold is inductive given the types: only OpenCircuit
opens a circuit, and its handler goes on to Tell.

`NetworksProofs` proves of the networks, for any number of users, containers,
networks, requests and failures:

- `NetworksTypeCorrect`: `Spec => []NetworksTypeOK`;
- `NetworkIsolation`: `Spec => []Isolation`;
- `NetworksAreRecorded` and `RowsHaveNetworks`: `Spec => []NoUnrecordedNetwork` and
  `Spec => []RowHasNetwork`;
- `ConnectionsAreListed`: `Spec => []ConnectedIsListed`;
- `NetworksBounded`: `Spec => []NetworkOvershoot`.

Isolation is not inductive: it says nothing of a Connect between its lookups and
its call, when the rows it has read may be gone. The invariant adds `KnowsInv`:
what a request has looked up stays true because the label of a network and the
owner of a container never change once it is created (`Grows`), although the rows
do; and `RowsInv`, a row is that of a network that was created, so that a new
network is one nothing refers to. `Frame` reduces each action to what it adds.

`MirrorInv` is the second invariant, proved inductive with IInv before and after
the step. NoUnrecordedNetwork does not survive the INSERT or the undo of a create
by itself, and RowHasNetwork not the steps of a deletion: MakingInv says that a
network being created is in Docker, without a row and without an endpoint, so the
INSERT is of a network that exists and the undo can succeed; AloneInv, that no
other request knows such a network, so nobody removes it meanwhile; GoneInv, that
the row a deletion deletes is of a network that has gone. Most actions are `Ordinary` steps, which neither
create, record nor remove a network. ConnectedIsListed is inductive given the
two, since `loose` takes what a Connect or a Disconnect leaves behind. For
NetworkOvershoot each step is compared with the count of rows and of requests
that have passed the check: the step that passes it adds one where the count was
below the limit of the user's plan, hence of the largest one, whatever the plan
becomes afterwards; the INSERT moves one from one count to the other.

`NotificationsProofs` proves for any number of users, streams and publishers, and
channels of any size:

- `NotificationsTypeCorrect`: `NotificationsSpec => []NotificationsTypeOK`;
- `NeverSendsOnClosed`: `NotificationsSpec => []NoSendOnClosed`;
- `PushesAreStored`: `NotificationsSpec => []PushedIsStored`;
- `StreamsGetOnceEach`: `NotificationsSpec => []OnceEach`.

NoSendOnClosed needs to know that a channel is closed only after it is off every
list. `BusInv` adds that a list holds a stream at most once (ListsAreDistinct;
else `append(subs[:i], subs[i+1:]...)` would leave a second entry behind) and only
streams of its user whose channel is open (ListedIsOpen, ClosedIsDone), and that
what a publisher has left to send to is listed (LeftIsListed), which no writer
changes while it reads. `PushInv`, on top of it, says that every publisher has a
notification of its own, which no stream is owed before it is published and which
is stored, or has failed to be, by then (PublisherInv); and that a handler that has
subscribed is in the list (StreamInv), so that Publish reaches every stream it
owes. OnceEach is an equation between sets, and its left side forgets where a
notification is. `OnceInv` says of each stream that is served that what it was given
(its client's list, the handler's hand and the channel's buffer, in this order)
has no notification twice, that a notification is owed exactly if it was given,
missed or is on the way, and that what is on the way was not given: so a send
appends something new.

`RateLimiterProofs` proves for any number of addresses and requests:

- `LimiterTypeCorrect`: `LimiterSpec => []LimiterTypeOK`;
- `NoneOrphaned`: `LimiterSpec => []NeverOrphaned`;
- `LimiterImplementsBucket`: `LimiterSpec => ImplementsBucket`.

`LInv` bounds the times: a limiter is used at most MaxStall after its entry was
last seen (`UsedInTime`), and a waiting request got its limiter at most MaxStall ago
and its entry was not seen earlier (`WaitsInTime`). So an entry that is older than
IdleTimeout, which is at least MaxStall and the time to refill a bucket, is used by
nobody and full: dropping it changes no bucket.

`ProvisioningProofs` proves for any finite number of creates and containers, any
number of folders, failures and crashes:

- `ProvisioningTypeCorrect`: `Spec => []TypeOK`;
- `ContainersAreKnown` and `RowsAreReal`: `Spec => []NoOrphan` and
  `Spec => []RowIsReal`;
- `FoldersAreKnown`: `Spec => []NoOrphanFolder`;
- `QuotaBounded`: `Spec => []QuotaOvershoot`.

`PInv` is the conjunction of these and of what each of them lacks. A create holds a
container that Docker has brought as far as the create's place says (JobInv), no
two creates hold the same one (DistinctInv), a container that does not exist yet has
no row (FreshInv), and a removal has its container for itself (RemovingInv): so a
commit makes a row of a container that was started, and a cleanup or a removal takes
away one that has no row, or one whose row is `unsure`. For NoOrphanFolder HomeInv
says that a container has the folder of the create that holds it, so what the create
gives up at its commit its row takes over. QuotaOvershoot is inductive given
the types: a create that passes the check found fewer rows than its limit, and
there are at most as many other admitted creates as there are creates but one.

`AccountsProofs` proves for any number of accounts and links, any finite number of
goroutines, requests and keys, and any number of failures and crashes:

- `AccountsTypeCorrect`: `Spec => []AccountsTypeOK`;
- `LinksAreRedeemedOnce`: `Spec => []RedeemedOnce`;
- `MailedLinksAreStored`: `Spec => []MailedIsStored`;
- `VerificationByMail` and `ResetByMail`: `Spec => []VerifiedByMail` and
  `Spec => []PasswordByMail`;
- `JwtsOfVerified`: `Spec => []JwtOfVerified`;
- `KeysBounded` and `LiveLinksBounded`: `Spec => []KeyOvershoot` and
  `Spec => []LinksBounded`;
- `DeletionBarsTokens`: `Spec => NoTokenAfterDeletion`, an action property.

`AInv` follows a link through its life. A goroutine that makes one has read an
account with the address it was given, has a token that no other goroutine has
(DistinctInv), not stored before the INSERT and stored for that account after it
(SenderOK); an accepted link is dead and was accepted once (TokenOK), which the
conditional UPDATE of Consume keeps so; a request between Consume and its second
statement has such a link of its account (RequestOK), and so is the account that
is verified or has a new password (UserOK). All of this is about facts that only
grow: an id, an address and an accepted link are never taken back, also by
deletion. KeyOvershoot and LinksBounded count, and are inductive given AInv.
NoTokenAfterDeletion holds of every step from AInv, since a request reads the row
of an account that is not deleted.

`SocketsProofs` proves of Server and Sockets together, for any finite number of
requests and sockets and any size of the pool:

- `SocketsTypeCorrect`: `SocketsSpec => []SocketsTypeOK`;
- `ConnectionsBalance`: `SocketsSpec => []PoolBalanced`;
- `TransactionsAreWhole`: `SocketsSpec => []NoCutTransaction`.

PoolBalanced compares a counter with what calls and sockets hold, one or two
connections for a call and one for a socket: the connections held are a set of
pairs of a holder and a number, and the lemmas say how its size changes when one
holder moves (`SlotsMove`, `OneCallMoves`, `SocketMove`). Each action takes from the
pool and gives back what its call or socket holds more or less than before.
`PoolInv` adds ExitedInv: main exits when nothing is in use, and as nothing moves
afterwards no call or socket has a connection then, which is NoCutTransaction.

The assumptions are the named ASSUMEs of the modules: the watcher is not a
request, `None` and the like are none of the values they stand beside, bounds are
naturals, the sets that are counted are finite (handlers and requests, the creates and
containers of Provisioning, goroutines and keys of Accounts, sockets), the limits
of restarts, networks and API keys, the size of a channel and that of the pool are
at least one, every plan allows between one container or network and a largest number, a
container has one owner, and `MaxStall + Burst <= IdleTimeout`: a bucket is full again, and a
request through getLimiter and Allow, within the ten minutes after which an entry
is dropped (a bucket takes three seconds, which leaves the request the rest).

## 6. Only model-checked

The liveness properties: ExpiredIsStopped, StartingIsTransient, RecoveryQuiesces,
CrashIsHandled, LinkIsSent, PublishReturns, GoneIsUnsubscribed, SocketServed,
ShutdownEnds and SocketReleased. Fairness and ENABLED are beyond the prover. Every
invariant that a run checks, both refinements and the action property
NoTokenAfterDeletion are theorems as well; the type invariants are theorems only
and not part of the runs. The inductive invariants of section 5 were checked by
TLC on the instances of section 3 as well.

Quantities are stated as cardinalities of sets, PoolBalanced too: a sum over the
processes would be a fold, and what a fold computes needs an induction over data
that the installed provers cannot do.

## 7. Not modelled, and the plan

Left out for good, with the reason:

- signatures and the parsing of headers and addresses: what is presented is a
  model value;
- the role of an administrator, read anew by each request;
- CORS, panic recovery and audit: wrappers without state; the audit's INSERT drops
  its error and nothing reads it back;
- templates, images, listings and statistics: queries that only read;
- files in a container: commands run in it, on files that no other part reads;
- the tree parser: a pure function on text, whose cases are those of its format;
- the bytes and JSON of the sockets, and the figures of the metrics, about
  which section 4 says what there is to say;
- SMTP, migrations, configuration, routes and telemetry: I/O and wiring that runs
  once, before the first request.

What could follow: inductive invariants that relate the modules with each other (a
removal's row lock and the networks and folders it leaves), and the safety half of
the liveness arguments, that a handler or a publisher has only a bounded number of
its own steps ahead.

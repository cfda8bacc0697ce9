-------------------------- MODULE ContainerManager --------------------------
(***************************************************************************)
(* StartContainer, StopContainer, RemoveContainer and the auto-stop        *)
(* watcher of service/hostContainerService.go, over the containers table   *)
(* (service/repository.go) and the Docker daemon.                          *)
(*                                                                         *)
(* A call of one of the three methods is a process: it reads the row, then *)
(* writes it in a transaction (which takes the row's lock until the commit *)
(* or the rollback), then calls Docker, then commits.  Each of these is a  *)
(* step, and HTTP requests, the watcher, faults and a crash of the server  *)
(* interleave between them.                                                *)
(*                                                                         *)
(* row[c] is the COMMITTED row: what a transaction has written and not yet *)
(* committed is in call[a].                                                *)
(***************************************************************************)
EXTENDS DockerDaemon

CONSTANTS Requests,         \* concurrent HTTP requests
          Watcher,          \* the goroutine of StartAutoStopWatcher
          None,
          AutoStopTimeout,  \* cm.autoStopTimeout
          MaxTime,          \* bound on the clock
          MaxFaults,        \* bound on failing calls
          MaxCrashes,       \* bound on crashes of the server
          MaxEvents,        \* no new operation starts with more events queued
          ApiCalls          \* bound: the operations that requests ask for

ASSUME ManagerAssumption ==
    /\ Watcher \notin Requests
    /\ None \notin Requests \cup {Watcher} \cup Containers
    /\ AutoStopTimeout \in Nat
    /\ {MaxTime, MaxFaults, MaxCrashes, MaxEvents} \subseteq Nat
    /\ ApiCalls \subseteq {"start", "stop", "remove"}

VARIABLES row,        \* row[c]: the committed row of c in table containers
          lock,       \* lock[c]: who has written row[c] in an open transaction
          call,       \* call[a]: where actor a is in its method, and its locals
          expired,    \* what the watcher's loop still has to stop
          now,        \* the clock, in units of the code's durations
          late,       \* Docker calls given up by the server, not by the daemon
          slipped,    \* history: row and container were left apart (see below)
          orphans,    \* history: containers left behind without a row
          faults, crashes

loose == <<late, orphans>>
managerVars == <<row, lock, call, expired, now, slipped, loose, faults, crashes>>
vars == <<dockerVars, managerVars>>

Actors == Requests \cup {Watcher}
Operations == {"start", "stop", "remove"}
Statuses == {"running", "stopped", "starting"}

Row == [present : BOOLEAN, status : Statuses, startedAt : Nat,
        restartCount : Nat, circuitOpen : BOOLEAN, oomKilled : BOOLEAN,
        health : HealthStatuses \cup {"none"}]

PCs == {"idle", "update", "docker", "commit", "reset",
        "delete", "commitDelete", "cleanupStop", "cleanupRemove"}
DockerCalls == [op : {"start", "stop"}, id : Containers]
Call == [pc : PCs, op : Operations, id : Containers \cup {None},
         startedAt : Nat]

\* pcs at which the transaction has written the row and so holds its lock
Writing == {"docker", "commit", "commitDelete"}
Cleaning == {"cleanupStop", "cleanupRemove"}

TypeOK ==
    /\ DockerTypeOK
    /\ row \in [Containers -> Row]
    /\ lock \in [Containers -> Actors \cup {None}]
    /\ call \in [Actors -> Call]
    /\ expired \subseteq Containers
    /\ now \in Nat
    /\ late \subseteq DockerCalls
    /\ slipped \in [Containers -> BOOLEAN]
    /\ orphans \subseteq Containers
    /\ faults \in Nat
    /\ crashes \in Nat

NoCall == [pc |-> "idle", op |-> "stop", id |-> None, startedAt |-> 0]

\* Every container has just been created and started.
NewRow == [present |-> TRUE, status |-> "running", startedAt |-> 0,
           restartCount |-> 0, circuitOpen |-> FALSE, oomKilled |-> FALSE,
           health |-> "none"]

ManagerInit ==
    /\ DockerInit
    /\ row = [c \in Containers |-> NewRow]
    /\ lock = [c \in Containers |-> None]
    /\ call = [a \in Actors |-> NoCall]
    /\ expired = {}
    /\ now = 0
    /\ late = {}
    /\ slipped = [c \in Containers |-> FALSE]
    /\ orphans = {}
    /\ faults = 0
    /\ crashes = 0

-----------------------------------------------------------------------------
(***************************************************************************)
(* slipped[c] records the ways in which a row and its container come apart *)
(* that the three methods do not undo, until the next successful Docker    *)
(* call of a Start or a Stop:                                              *)
(*   - the transaction is rolled back after its Docker call had its        *)
(*     effect, by an error or by a crash of the server;                    *)
(*   - the daemon carries out a call that the server has given up;         *)
(*   - the container's process ends by itself.                             *)
(* orphans are the containers that RemoveContainer leaves behind without a *)
(* row: the cleanup after a committed DELETE fails, the server crashes     *)
(* before it, or the COMMIT takes effect but reports an error and the      *)
(* method returns without a cleanup.                                       *)
(***************************************************************************)
Slip(c) == slipped' = [slipped EXCEPT ![c] = TRUE]

At(a, pc) == call[a].pc = pc
Goto(a, pc) == call' = [call EXCEPT ![a].pc = pc]
Return(a) == call' = [call EXCEPT ![a] = NoCall]
Free(c) == lock[c] = None

\* GetContainerByID, then the assignments to info: the call carries on with this
\* copy.  StartContainer takes the time here, before it waits for the row.
Begin(a, op, c) ==
    call' = [call EXCEPT ![a] =
        [pc |-> IF op = "remove" THEN "delete" ELSE "update",
         op |-> op, id |-> c,
         startedAt |-> IF op = "start" THEN now ELSE row[c].startedAt]]

\* An HTTP request reaches StartContainer, StopContainer or RemoveContainer and
\* finds the row.
BeginCall(r, op, c) ==
    /\ At(r, "idle")
    /\ row[c].present
    /\ Len(events) < MaxEvents
    /\ Begin(r, op, c)
    /\ UNCHANGED <<dockerVars, row, lock, expired, now, slipped, loose,
                   faults, crashes>>

\* Mutant: the write neither waits for the row's lock nor minds who holds it.
WriteRowWithoutLock(a, next) ==
    LET c == call[a].id IN
    /\ IF row[c].present
       THEN Goto(a, next) /\ lock' = [lock EXCEPT ![c] = a]
       ELSE Return(a) /\ UNCHANGED lock
    /\ UNCHANGED <<dockerVars, row, expired, now, slipped, loose, faults,
                   crashes>>

\* The first write of a transaction waits for the row's lock; with no row left
\* (0 rows affected) the method returns ErrNotFound.
WriteRow(a, next) ==
    LET c == call[a].id IN
    /\ Free(c)
    /\ IF row[c].present
       THEN Goto(a, next) /\ lock' = [lock EXCEPT ![c] = a]
       ELSE Return(a) /\ UNCHANGED lock
    /\ UNCHANGED <<dockerVars, row, expired, now, slipped, loose, faults,
                   crashes>>

UpdateContainer(a) == At(a, "update") /\ WriteRow(a, "docker")

\* Mutant: RemoveContainer cleans Docker up before it commits.
DeleteAfterCleanup(a) == At(a, "delete") /\ WriteRow(a, "cleanupStop")

DeleteContainer(a) == At(a, "delete") /\ WriteRow(a, "commitDelete")

\* The Docker call of StartContainer and StopContainer, in the transaction.
DockerCall(a) ==
    LET c == call[a].id IN
    /\ At(a, "docker")
    /\ \/ call[a].op = "start" /\ ContainerStart(c)
       \/ call[a].op = "stop" /\ ContainerStop(c)
    /\ slipped' = [slipped EXCEPT ![c] = FALSE]
    /\ Goto(a, "commit")
    /\ UNCHANGED <<connected, row, lock, expired, now, loose, faults, crashes>>

\* The status a Start or a Stop writes.
NewStatus(op) == IF op = "start" THEN "running" ELSE "stopped"

\* What the commit of a Start or a Stop makes of the table.
WriteBack(a) ==
    row' = [row EXCEPT ![call[a].id] =
               [@ EXCEPT !.status = NewStatus(call[a].op),
                         !.startedAt = call[a].startedAt]]

Commit(a) ==
    LET c == call[a].id IN
    /\ At(a, "commit")
    /\ WriteBack(a)
    /\ lock' = [lock EXCEPT ![c] = None]
    /\ IF call[a].op = "start" THEN Goto(a, "reset") ELSE Return(a)
    /\ UNCHANGED <<dockerVars, expired, now, slipped, loose, faults, crashes>>

\* The UPDATE at the end of StartContainer, outside the transaction.
ResetHealth(a) ==
    LET c == call[a].id IN
    /\ At(a, "reset")
    /\ Free(c)
    /\ row' = IF row[c].present
              THEN [row EXCEPT ![c] = [@ EXCEPT !.health = "none",
                                                !.oomKilled = FALSE,
                                                !.circuitOpen = FALSE]]
              ELSE row
    /\ Return(a)
    /\ UNCHANGED <<dockerVars, lock, expired, now, slipped, loose, faults,
                   crashes>>

CommitDelete(a) ==
    LET c == call[a].id IN
    /\ At(a, "commitDelete")
    /\ row' = [row EXCEPT ![c].present = FALSE]
    /\ lock' = [lock EXCEPT ![c] = None]
    /\ Goto(a, "cleanupStop")
    /\ UNCHANGED <<dockerVars, expired, now, slipped, loose, faults, crashes>>

\* RemoveContainer after its commit: ContainerStop (its error is ignored), then
\* ContainerRemove with Force.
CleanupStop(a) ==
    /\ At(a, "cleanupStop")
    /\ ContainerStop(call[a].id)
    /\ Goto(a, "cleanupRemove")
    /\ UNCHANGED <<connected, row, lock, expired, now, slipped, loose,
                   faults, crashes>>

CleanupRemove(a) ==
    /\ At(a, "cleanupRemove")
    /\ ContainerRemove(call[a].id)
    /\ Return(a)
    /\ UNCHANGED <<connected, row, lock, expired, now, slipped, loose,
                   faults, crashes>>

-----------------------------------------------------------------------------
\* The watcher: checkAndStopExpiredContainers.

\* status='running' AND started_at < now - timeout
Expired(c) == /\ row[c].present
              /\ row[c].status = "running"
              /\ row[c].startedAt + AutoStopTimeout < now

GetRunningContainersOlderThan == {c \in Containers : Expired(c)}

WatcherTick ==
    /\ At(Watcher, "idle")
    /\ expired = {}
    /\ expired' = GetRunningContainersOlderThan
    /\ UNCHANGED <<dockerVars, row, lock, call, now, slipped, loose, faults,
                   crashes>>

\* The loop calls StopContainer with the project ID; what the list says of the
\* row is not looked at again.  A row that is gone is only logged.
StopExpired(c) ==
    /\ At(Watcher, "idle")
    /\ c \in expired
    /\ expired' = expired \ {c}
    /\ IF row[c].present THEN Begin(Watcher, "stop", c) ELSE UNCHANGED call
    /\ UNCHANGED <<dockerVars, row, lock, now, slipped, loose, faults, crashes>>

-----------------------------------------------------------------------------
\* Failures.

Fault == faults < MaxFaults /\ faults' = faults + 1

\* Mutant: no deferred tx.Rollback.
KeepLocks(a) == lock' = lock

ReleaseLocks(a) ==
    lock' = [c \in Containers |-> IF lock[c] = a THEN None ELSE lock[c]]

\* A step fails without effect (an error, or the request's context ends) and the
\* deferred tx.Rollback undoes the transaction.  Docker's effect stays.
Abort(a) ==
    LET c == call[a].id IN
    /\ call[a].pc \in {"update", "delete", "reset"} \cup Writing
    /\ Fault
    /\ IF At(a, "commit") THEN Slip(c) ELSE UNCHANGED slipped
    /\ ReleaseLocks(a)
    /\ Return(a)
    /\ UNCHANGED <<dockerVars, row, expired, now, loose, crashes>>

\* The Docker call returns an error (say, its context ends) although the daemon
\* has accepted it: it may carry it out at any later time.
DockerCallGivenUp(a) ==
    /\ At(a, "docker")
    /\ Fault
    /\ late' = late \cup {[op |-> call[a].op, id |-> call[a].id]}
    /\ ReleaseLocks(a)
    /\ Return(a)
    /\ UNCHANGED <<dockerVars, row, expired, now, slipped, orphans, crashes>>

\* The daemon carries it out, unless the container is gone by then.
LateDockerEffect(e) ==
    /\ e \in late
    /\ late' = late \ {e}
    /\ \/ docker[e.id] = "absent" /\ UNCHANGED <<docker, events>>
       \/ docker[e.id] # "absent" /\ e.op = "start" /\ ContainerStart(e.id)
       \/ docker[e.id] # "absent" /\ e.op = "stop" /\ ContainerStop(e.id)
    /\ Slip(e.id)
    /\ UNCHANGED <<connected, row, lock, call, expired, now, orphans, faults,
                   crashes>>

\* The COMMIT takes effect but reports an error: the method returns that error.
\* StartContainer leaves out its last UPDATE, RemoveContainer its cleanup.
LateCommit(a) ==
    LET c == call[a].id IN
    /\ Fault
    /\ \/ At(a, "commit") /\ WriteBack(a) /\ UNCHANGED orphans
       \/ /\ At(a, "commitDelete")
          /\ row' = [row EXCEPT ![c].present = FALSE]
          /\ orphans' = orphans \cup {c}
    /\ lock' = [lock EXCEPT ![c] = None]
    /\ Return(a)
    /\ UNCHANGED <<dockerVars, expired, now, late, slipped, crashes>>

\* Mutant: RemoveContainer returns when the stop fails.
CleanupGivesUp(a) ==
    /\ At(a, "cleanupStop")
    /\ Fault
    /\ Return(a)
    /\ UNCHANGED <<dockerVars, row, lock, expired, now, slipped, loose,
                   crashes>>

\* The stop before the removal fails: its error is ignored.
CleanupStopFails(a) ==
    /\ At(a, "cleanupStop")
    /\ Fault
    /\ Goto(a, "cleanupRemove")
    /\ UNCHANGED <<dockerVars, row, lock, expired, now, slipped, loose,
                   crashes>>

\* The removal fails: "orphan container ... needs manual cleanup" is logged.
CleanupRemoveFails(a) ==
    /\ At(a, "cleanupRemove")
    /\ Fault
    /\ orphans' = orphans \cup {call[a].id}
    /\ Return(a)
    /\ UNCHANGED <<dockerVars, row, lock, expired, now, late, slipped, crashes>>

\* The two minutes of the watcher's context are over: every StopContainer that
\* is left fails at BeginTx.
WatcherTimeout ==
    /\ At(Watcher, "idle")
    /\ expired # {}
    /\ Fault
    /\ expired' = {}
    /\ UNCHANGED <<dockerVars, row, lock, call, now, slipped, loose, crashes>>

\* The container's process ends by itself.
ContainerExits(c) ==
    /\ Len(events) < MaxEvents
    /\ ProcessExit(c)
    /\ Slip(c)
    /\ UNCHANGED <<connected, row, lock, call, expired, now, loose,
                   faults, crashes>>

\* The containers of the calls that are at one of these pcs.
CallsAt(pcs) == {call[a].id : a \in {b \in Actors : call[b].pc \in pcs}}

\* The server goes down and comes up again: the goroutines are gone, the
\* database rolls their transactions back, and nothing is reconciled.  The
\* daemon may have accepted calls that nobody waits for any more.
ServerCrash ==
    /\ crashes < MaxCrashes
    /\ crashes' = crashes + 1
    /\ slipped' = [c \in Containers |-> slipped[c] \/ c \in CallsAt({"commit"})]
    /\ orphans' = orphans \cup CallsAt(Cleaning)
    /\ \E accepted \in SUBSET {a \in Actors : At(a, "docker")} :
          late' = late \cup {[op |-> call[a].op, id |-> call[a].id] : a \in accepted}
    /\ call' = [a \in Actors |-> NoCall]
    /\ lock' = [c \in Containers |-> None]
    /\ expired' = {}
    /\ events' = <<>>
    /\ connected' = FALSE
    /\ UNCHANGED <<docker, row, now, faults>>

Tick ==
    /\ now < MaxTime
    /\ now' = now + 1
    /\ UNCHANGED <<dockerVars, row, lock, call, expired, slipped, loose,
                   faults, crashes>>

-----------------------------------------------------------------------------
\* What an actor does next when nothing fails.
Progress(a) ==
    \/ UpdateContainer(a)
    \/ DockerCall(a)
    \/ Commit(a)
    \/ ResetHealth(a)
    \/ DeleteContainer(a)
    \/ CommitDelete(a)
    \/ CleanupStop(a)
    \/ CleanupRemove(a)

Failure(a) ==
    \/ Abort(a)
    \/ DockerCallGivenUp(a)
    \/ LateCommit(a)
    \/ CleanupStopFails(a)
    \/ CleanupRemoveFails(a)

\* The steps of the manager that a crash of the server does not include.
ManagerStep ==
    \/ \E r \in Requests, op \in ApiCalls, c \in Containers : BeginCall(r, op, c)
    \/ \E a \in Actors : Progress(a) \/ Failure(a)
    \/ \E e \in late : LateDockerEffect(e)
    \/ WatcherTick
    \/ \E c \in Containers : StopExpired(c)
    \/ WatcherTimeout
    \/ \E c \in Containers : ContainerExits(c)
    \/ Tick

ManagerNext == ManagerStep \/ ServerCrash

ManagerSpec == ManagerInit /\ [][ManagerNext]_vars

\* A waiter for a row lock is served in turn by the database, whatever other
\* transactions do with the row in between: strong fairness.  The ticker fires
\* and the loop over its list goes on: weak fairness.
ManagerFairness ==
    /\ \A a \in Actors : SF_vars(Progress(a))
    /\ WF_vars(WatcherTick)
    /\ WF_vars(\E c \in Containers : StopExpired(c))

FairManagerSpec == ManagerSpec /\ ManagerFairness

-----------------------------------------------------------------------------
\* Properties.

Agrees(status, state) == (status = "running") <=> (state = "running")

(***************************************************************************)
(* StatusAgrees: outside a transaction on its row, a container that the    *)
(* table calls running runs and one it calls stopped does not, unless one  *)
(* of the causes of slipped separated the two since the last successful    *)
(* Docker call.  This is what the order write - Docker - commit and the    *)
(* deferred rollback of StopContainer and StartContainer are for, and it   *)
(* holds only because the uncommitted write keeps every other Start, Stop  *)
(* and Remove of the row waiting during the Docker call.                   *)
(***************************************************************************)
StatusAgrees ==
    \A c \in Containers :
        (row[c].present /\ Free(c) /\ ~slipped[c])
            => Agrees(row[c].status, docker[c])

(***************************************************************************)
(* RowHasContainer: no row outlives its container, whatever fails and      *)
(* whenever the server crashes: RemoveContainer deletes the row first      *)
(* ("DB d'abord") and a Start or Stop that waited for that row finds none. *)
(***************************************************************************)
RowHasContainer ==
    \A c \in Containers : row[c].present => docker[c] # "absent"

(***************************************************************************)
(* NoUntracked: a container without a row is gone from Docker or some      *)
(* RemoveContainer is about to remove it, except the ones that orphans     *)
(* records: a cleanup that failed or that a crash or an errored COMMIT of  *)
(* the DELETE prevented.  In particular no Start and no restart that was   *)
(* under way when the row was deleted, and no Docker call carried out      *)
(* late, brings a container back, whether or not its process had ended.    *)
(***************************************************************************)
NoUntracked ==
    \A c \in Containers :
        ~row[c].present =>
            \/ docker[c] = "absent"
            \/ \E a \in Actors : call[a].id = c /\ call[a].pc \in Cleaning
            \/ c \in orphans

(***************************************************************************)
(* ExpiredIsStopped: a container that has been running for longer than the *)
(* timeout is stopped, removed or started anew, although a stop may fail,  *)
(* the watcher's context may end and other requests compete for the row:   *)
(* the deferred rollback always gives the row back and the next tick of    *)
(* checkAndStopExpiredContainers lists the container again.                *)
(***************************************************************************)
ExpiredIsStopped ==
    \A c \in Containers : Expired(c) ~> ~Expired(c)

\* The status that c has when the transaction on its row is through.
Pending(c) ==
    IF lock[c] # None /\ call[lock[c]].pc = "commit"
    THEN NewStatus(call[lock[c]].op)
    ELSE row[c].status

\* The status that the manager answers for: that of the table once it stands.
SettledStatus ==
    [c \in Containers |-> IF row[c].present THEN Pending(c) ELSE "gone"]

Contract == INSTANCE ContainerContract
                WITH status <- SettledStatus, machine <- docker, owed <- late,
                     mishaps <- faults + crashes

(***************************************************************************)
(* ImplementsContract: StartContainer, StopContainer and RemoveContainer,  *)
(* each a sequence of SQL statements and Docker calls among which those of *)
(* other requests and of the watcher fall, behave like single steps: the   *)
(* Docker call is where a start or a stop takes effect on row and          *)
(* container together, and the commit of the DELETE where a removal does.  *)
(* No interleaving shows anything else, and a failure at any point only    *)
(* what the contract calls a mishap.                                       *)
(***************************************************************************)
ImplementsContract == Contract!Spec
=============================================================================

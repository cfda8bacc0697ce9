-------------------------- MODULE RecoveryService ---------------------------
(***************************************************************************)
(* service/containerEventsService.go and service/recoveryService.go: the   *)
(* listener on Docker's event stream and the circuit breaker that restarts *)
(* crashed containers, composed with ContainerManager on the same rows.    *)
(*                                                                         *)
(* dispatch starts a goroutine per event, so events of one container are   *)
(* handled concurrently and in any order.  A goroutine is a member of      *)
(* Handlers; each of its statements (an UPDATE outside any transaction, a  *)
(* sleep, the Docker call, the notification) is a step.                    *)
(***************************************************************************)
EXTENDS ContainerManager

CONSTANTS Handlers,      \* bound: event goroutines alive at one time
          MaxRestarts,   \* max_auto_restarts of the owner's plan
          MaxCount       \* bound: the history counter saturates here

\* Every plan of migrations/ allows at least three restarts.
ASSUME RecoveryAssumption ==
    /\ IsFiniteSet(Handlers)
    /\ MaxRestarts \in Nat \ {0}
    /\ MaxCount \in Nat

VARIABLES hnd,          \* hnd[h]: where the goroutine is, and its container
          restarts,     \* history: ContainerRestart calls since ResetCircuit
          notices,      \* table notifications
          lost          \* history: the write that ends a restart was lost

recoveryVars == <<hnd, restarts, notices, lost>>
allVars == <<vars, recoveryVars>>

HandlerPCs == {"idle", "lookup", "open", "backoff", "restart", "mark", "failed",
               "oom", "tellOpened", "tellRestarted", "tellUnhealthy"}
                  \cup HealthStatuses
NoticeTypes == {"circuit_breaker_opened", "container_restarted",
                "container_unhealthy"}

RecoveryTypeOK ==
    /\ TypeOK
    /\ hnd \in [Handlers -> [pc : HandlerPCs, id : Containers \cup {None}]]
    /\ restarts \in [Containers -> Nat]
    /\ notices \subseteq [type : NoticeTypes, id : Containers]
    /\ lost \subseteq Containers

NoHandler == [pc |-> "idle", id |-> None]

RecoveryInit ==
    /\ ManagerInit
    /\ hnd = [h \in Handlers |-> NoHandler]
    /\ restarts = [c \in Containers |-> 0]
    /\ notices = {}
    /\ lost = {}

-----------------------------------------------------------------------------
\* ContainerEventsService.

\* listen opens the stream: only events from now on are seen.
Connect ==
    /\ ~connected
    /\ connected' = TRUE
    /\ UNCHANGED <<docker, events, managerVars, recoveryVars>>

\* The stream breaks: what was not read is lost, and the outer loop reconnects.
StreamDrops ==
    /\ connected
    /\ Fault
    /\ connected' = FALSE
    /\ events' = <<>>
    /\ UNCHANGED <<docker, row, lock, call, expired, now, slipped, loose, crashes,
                   recoveryVars>>

\* Mutant: dispatch starts only HandleOOM for a crash.
HandlerForOOM(t) == IF t = "crash" THEN "oom" ELSE t

\* The goroutine that dispatch starts for an event: HandleCrash, HandleOOM or
\* HandleHealthChange.  A die with exit code 0 starts none.
HandlerFor(t) == IF t = "crash" THEN "lookup" ELSE t

Dispatch(h) ==
    LET e == Head(events) IN
    /\ events # <<>>
    /\ hnd[h].pc = "idle"
    /\ events' = Tail(events)
    /\ hnd' = IF e.type = "clean" THEN hnd
              ELSE [hnd EXCEPT ![h] = [pc |-> HandlerFor(e.type), id |-> e.id]]
    /\ UNCHANGED <<docker, connected, managerVars, restarts, notices, lost>>

\* Docker reports a health check of a running container.
HealthCheck(c, s) ==
    /\ Len(events) < MaxEvents
    /\ HealthReport(c, s)
    /\ UNCHANGED <<connected, managerVars, recoveryVars>>

-----------------------------------------------------------------------------
\* HandleCrash.

HGoto(h, pc) == hnd' = [hnd EXCEPT ![h].pc = pc]
HReturn(h) == hnd' = [hnd EXCEPT ![h] = NoHandler]

\* The SELECT reads the committed row; the decision is taken on that copy.
Decision(r) ==
    IF r.restartCount >= MaxRestarts THEN "open" ELSE "backoff"

Lookup(h) ==
    LET r == row[hnd[h].id] IN
    /\ hnd[h].pc = "lookup"
    /\ IF r.present /\ ~r.circuitOpen THEN HGoto(h, Decision(r)) ELSE HReturn(h)
    /\ UNCHANGED <<vars, restarts, notices, lost>>

\* An UPDATE of one row outside a transaction: it waits for the row's lock and
\* changes nothing when the row is gone.  new is the row it leaves.
UpdateRow(c, new) ==
    /\ Free(c)
    /\ row' = IF row[c].present THEN [row EXCEPT ![c] = new] ELSE row
    /\ UNCHANGED <<dockerVars, lock, call, expired, now, slipped, loose, faults,
                   crashes>>

\* Mutant: HandleCrash returns before it notifies.
OpenCircuitSilently(h) ==
    LET c == hnd[h].id IN
    /\ hnd[h].pc = "open"
    /\ UpdateRow(c, [row[c] EXCEPT !.circuitOpen = TRUE, !.status = "stopped"])
    /\ HReturn(h)
    /\ UNCHANGED <<restarts, notices, lost>>

OpenCircuit(h) ==
    LET c == hnd[h].id IN
    /\ hnd[h].pc = "open"
    /\ UpdateRow(c, [row[c] EXCEPT !.circuitOpen = TRUE, !.status = "stopped"])
    /\ HGoto(h, "tellOpened")
    /\ UNCHANGED <<restarts, notices, lost>>

\* Mutant: the attempt is not counted.
ForgetRestart(h) ==
    LET c == hnd[h].id IN
    /\ hnd[h].pc = "backoff"
    /\ UpdateRow(c, [row[c] EXCEPT !.status = "starting"])
    /\ HGoto(h, "restart")
    /\ lost' = lost \ {c}
    /\ UNCHANGED <<restarts, notices>>

\* After the sleep: the counter and the status, in one UPDATE.
CountRestart(h) ==
    LET c == hnd[h].id IN
    /\ hnd[h].pc = "backoff"
    /\ UpdateRow(c, [row[c] EXCEPT !.restartCount = @ + 1, !.status = "starting"])
    /\ HGoto(h, "restart")
    /\ lost' = lost \ {c}
    /\ UNCHANGED <<restarts, notices>>

CountCall(c) ==
    restarts' = [restarts EXCEPT ![c] = IF @ < MaxCount THEN @ + 1 ELSE @]

\* The call of ContainerRestart: it works, or the container no longer exists.
Restart(h) ==
    LET c == hnd[h].id IN
    /\ hnd[h].pc = "restart"
    /\ \/ ContainerRestart(c) /\ HGoto(h, "mark")
       \/ docker[c] = "absent" /\ HGoto(h, "failed") /\ UNCHANGED <<docker, events>>
    /\ CountCall(c)
    /\ UNCHANGED <<connected, managerVars, notices, lost>>

\* Mutant: only started_at is written after the restart.
MarkStarted(h) ==
    LET c == hnd[h].id IN
    /\ hnd[h].pc = "mark"
    /\ UpdateRow(c, [row[c] EXCEPT !.startedAt = now])
    /\ HGoto(h, "tellRestarted")
    /\ UNCHANGED <<restarts, notices, lost>>

MarkRunning(h) ==
    LET c == hnd[h].id IN
    /\ hnd[h].pc = "mark"
    /\ UpdateRow(c, [row[c] EXCEPT !.status = "running", !.startedAt = now])
    /\ HGoto(h, "tellRestarted")
    /\ UNCHANGED <<restarts, notices, lost>>

MarkStopped(h) ==
    LET c == hnd[h].id IN
    /\ hnd[h].pc = "failed"
    /\ UpdateRow(c, [row[c] EXCEPT !.status = "stopped"])
    /\ HReturn(h)
    /\ UNCHANGED <<restarts, notices, lost>>

\* HandleOOM.
MarkOOM(h) ==
    LET c == hnd[h].id IN
    /\ hnd[h].pc = "oom"
    /\ UpdateRow(c, [row[c] EXCEPT !.oomKilled = TRUE])
    /\ HReturn(h)
    /\ UNCHANGED <<restarts, notices, lost>>

\* HandleHealthChange.
MarkHealth(h) ==
    LET c == hnd[h].id IN
    /\ hnd[h].pc \in HealthStatuses
    /\ UpdateRow(c, [row[c] EXCEPT !.health = hnd[h].pc])
    /\ IF hnd[h].pc = "unhealthy" THEN HGoto(h, "tellUnhealthy") ELSE HReturn(h)
    /\ UNCHANGED <<restarts, notices, lost>>

\* persistAndNotify.  The user and the name of an unhealthy container are read
\* now: with no row left there is nobody to tell.
NoticeOf(pc) == CASE pc = "tellOpened" -> "circuit_breaker_opened"
                  [] pc = "tellRestarted" -> "container_restarted"
                  [] pc = "tellUnhealthy" -> "container_unhealthy"

Tell(h) ==
    LET c == hnd[h].id  pc == hnd[h].pc IN
    /\ pc \in {"tellOpened", "tellRestarted", "tellUnhealthy"}
    /\ notices' = IF pc = "tellUnhealthy" /\ ~row[c].present THEN notices
                  ELSE notices \cup {[type |-> NoticeOf(pc), id |-> c]}
    /\ HReturn(h)
    /\ UNCHANGED <<vars, restarts, lost>>

\* A statement of a handler fails without effect.  Only the UPDATE of the
\* counter is checked for an error; ContainerRestart's error marks the row; the
\* other errors are ignored.
AfterError(pc) == CASE pc = "open" -> "tellOpened"
                    [] pc = "restart" -> "failed"
                    [] pc = "mark" -> "tellRestarted"
                    [] pc = "unhealthy" -> "tellUnhealthy"
                    [] OTHER -> "idle"

HandlerError(h) ==
    LET next == AfterError(hnd[h].pc) IN
    /\ hnd[h].pc # "idle"
    /\ Fault
    /\ IF next = "idle" THEN HReturn(h) ELSE HGoto(h, next)
    /\ IF hnd[h].pc = "restart" THEN CountCall(hnd[h].id) ELSE UNCHANGED restarts
    /\ lost' = IF hnd[h].pc \in {"mark", "failed"} THEN lost \cup {hnd[h].id}
               ELSE lost
    /\ UNCHANGED <<dockerVars, row, lock, call, expired, now, slipped, loose,
                   crashes, notices>>

\* The owner resets the circuit breaker (POST .../reset-circuit).
ResetCircuit(c) ==
    /\ row[c].present
    /\ UpdateRow(c, [row[c] EXCEPT !.circuitOpen = FALSE, !.restartCount = 0,
                                   !.oomKilled = FALSE])
    /\ restarts' = [restarts EXCEPT ![c] = 0]
    /\ UNCHANGED <<hnd, notices, lost>>

\* The crash of the server takes the sleeping handlers with it.
RecoveryCrash ==
    /\ ServerCrash
    /\ hnd' = [h \in Handlers |-> NoHandler]
    /\ lost' = lost \cup {hnd[h].id : h \in {g \in Handlers :
                               hnd[g].pc \in {"restart", "mark", "failed"}}}
    /\ UNCHANGED <<restarts, notices>>

-----------------------------------------------------------------------------
HandlerStep(h) ==
    \/ Lookup(h)
    \/ OpenCircuit(h)
    \/ CountRestart(h)
    \/ Restart(h)
    \/ MarkRunning(h)
    \/ MarkStopped(h)
    \/ MarkOOM(h)
    \/ MarkHealth(h)
    \/ Tell(h)

\* What the owner, the containers' processes and the environment do.
UserStep ==
    \/ \E r \in Requests, op \in ApiCalls, c \in Containers : BeginCall(r, op, c)
    \/ \E c \in Containers : ContainerExits(c)

RecoveryStep ==
    \/ Connect
    \/ StreamDrops
    \/ \E h \in Handlers : Dispatch(h) \/ HandlerStep(h) \/ HandlerError(h)
    \/ \E c \in Containers, s \in HealthStatuses : HealthCheck(c, s)
    \/ \E c \in Containers : ResetCircuit(c)
    \/ RecoveryCrash

RecoveryNext ==
    \/ ManagerStep /\ UNCHANGED recoveryVars
    \/ RecoveryStep

RecoverySpec == RecoveryInit /\ [][RecoveryNext]_allVars

\* Goroutines run, row locks are granted in turn, and the stream is read.
RecoveryFairness ==
    /\ \A a \in Actors : SF_allVars(Progress(a) /\ UNCHANGED recoveryVars)
    /\ \A h \in Handlers : SF_allVars(HandlerStep(h))
    /\ WF_allVars(\E h \in Handlers : Dispatch(h))
    /\ WF_allVars(Connect)

FairRecoverySpec == RecoverySpec /\ RecoveryFairness

-----------------------------------------------------------------------------
\* Properties.

\* The handlers that are at pc for container c.
HandlersAt(pc, c) == {h \in Handlers : hnd[h].pc = pc /\ hnd[h].id = c}

(***************************************************************************)
(* RestartBudget: the check of restart_count in HandleCrash is taken on a  *)
(* copy that is stale after the sleep, so concurrent handlers overshoot    *)
(* the plan's max_auto_restarts, but by no more than one each: the counter *)
(* stays below MaxRestarts plus the number of handlers, and Docker is not  *)
(* asked for more restarts since the last ResetCircuit than the counter    *)
(* shows plus the handlers that ResetCircuit overtook.  With one handler   *)
(* at a time the counter never passes the plan's limit.                    *)
(***************************************************************************)
RestartBudget ==
    \A c \in Containers : row[c].present =>
        /\ row[c].restartCount < MaxRestarts + Cardinality(Handlers)
        /\ restarts[c] <= row[c].restartCount + Cardinality(Handlers)

(***************************************************************************)
(* OpenedIsTold: whenever a circuit is open, its owner has been told that  *)
(* it opened or the handler that opened it is about to (nothing having     *)
(* failed): no handler that finds the circuit open, and no reset or start  *)
(* in between, makes HandleCrash skip the notification.                    *)
(***************************************************************************)
OpenedIsTold ==
    \A c \in Containers :
        (row[c].circuitOpen /\ faults = 0 /\ crashes = 0) =>
            \/ [type |-> "circuit_breaker_opened", id |-> c] \in notices
            \/ HandlersAt("tellOpened", c) # {}

(***************************************************************************)
(* StartingIsTransient: status 'starting' is left again: the handler that  *)
(* wrote it goes on to 'running' or, when ContainerRestart fails, to       *)
(* 'stopped', although the owner's requests and other handlers compete for *)
(* the row.  Only when the UPDATE that ends the restart itself fails, or   *)
(* a crash of the server takes the handler in between, is the row left     *)
(* behind: lost records that, and nothing in src/ repairs it.              *)
(***************************************************************************)
StartingIsTransient ==
    \A c \in Containers :
        (row[c].present /\ row[c].status = "starting")
            ~> \/ row[c].present => row[c].status # "starting"
               \/ c \in lost

(***************************************************************************)
(* CrashIsHandled: a crash that the stream has reported does not leave a   *)
(* dead container listed as running: HandleCrash opens the circuit or      *)
(* writes 'starting' and restarts it, unless the owner was faster.  (Not   *)
(* so while the circuit is open: then the crash is dropped, also one that  *)
(* comes between the commit of a manual start and the UPDATE that closes   *)
(* the circuit, and the row of that one stays 'running'.  And a stream     *)
(* that breaks loses what was not yet read.)                               *)
(***************************************************************************)
CrashIsHandled ==
    \A c \in Containers :
        (/\ \E i \in 1 .. Len(events) : events[i] = Event("crash", c)
         /\ ~row[c].circuitOpen)
            ~> \/ row[c].present => row[c].status # "running" \/ docker[c] = "running"
               \/ faults + crashes > 0

(***************************************************************************)
(* RecoveryQuiesces: once users, processes and health checks leave the     *)
(* containers alone, recovery comes to rest.  ContainerRestart of a        *)
(* container that runs is itself a non-zero "die", which HandleCrash       *)
(* answers with a restart: only the circuit breaker ends that loop.        *)
(***************************************************************************)
RecoveryQuiesces ==
    <>[][/\ ~UserStep
         /\ \A c \in Containers : ~ResetCircuit(c)
         /\ \A c \in Containers, s \in HealthStatuses : ~HealthCheck(c, s)]_allVars
        => <>[](\A h \in Handlers : hnd[h].pc = "idle")

(***************************************************************************)
(* StopIsNotACrash: a container that was stopped through the API is not    *)
(* taken for crashed (comment in dispatch: "exitCode 0 = clean stop (user  *)
(* pressed Stop); non-zero = crash").                                      *)
(***************************************************************************)
StopIsNotACrash ==
    [][\A h \in Handlers :
          (hnd[h].pc = "lookup" /\ hnd'[h].pc = "backoff")
              => row[hnd[h].id].status # "stopped"]_allVars
=============================================================================

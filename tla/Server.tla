------------------------------- MODULE Server -------------------------------
(***************************************************************************)
(* The pool of database connections (db_config/db.go), the requests and    *)
(* the auto-stop watcher that share it, and the end of main (main.go):     *)
(* Shutdown of the HTTP server, the deferred Close of the pool, exit.      *)
(*                                                                         *)
(* CreateContainer, StartContainer, StopContainer and RemoveContainer are  *)
(* reduced here to their use of connections: BeginTx takes one for the     *)
(* transaction, which a create holds while it pulls and starts the image,  *)
(* for up to two minutes; the others send a query through the pool, which  *)
(* takes a second connection while the first is held.  What they do with   *)
(* the row and with Docker is in ContainerManager and Provisioning.        *)
(***************************************************************************)
EXTENDS Naturals, FiniteSets

CONSTANTS Requests,   \* concurrent HTTP requests
          Watcher,    \* the auto-stop watcher, calling StopContainer
          MaxConns    \* cfg.MaxConns: 10

ASSUME ServerAssumption ==
    /\ IsFiniteSet(Requests)
    /\ Watcher \notin Requests
    /\ MaxConns \in Nat \ {0}

VARIABLES proc,     \* proc[p]: where a request, or the watcher, is
          inUse,    \* connections that are out of the pool
          phase     \* how far main is

serverVars == <<proc, inUse, phase>>

Procs == Requests \cup {Watcher}
Ops == {"create", "start", "stop", "remove"}

(***************************************************************************)
(* A call: pc is where it is, op what it does, and ctx whether its context *)
(* has not ended.                                                          *)
(* idle      not in a call                                                 *)
(* begin     waits for a connection, in BeginTx                            *)
(* query     in the transaction, waits for a second one                    *)
(* reading   has both                                                      *)
(* tx        in the transaction, at a statement, Docker or the commit      *)
(* rollback  has failed: the deferred undoing of a create, and Rollback    *)
(* reset     waits for one, for StartContainer's trailing UPDATE           *)
(* update    has it                                                        *)
(* cleanup   RemoveContainer's Docker calls after its commit               *)
(***************************************************************************)
NoCall == [pc |-> "idle", op |-> "stop", ctx |-> FALSE]
NewCall(o) == [pc |-> "begin", op |-> o, ctx |-> TRUE]

Waiting == {"begin", "query", "reset"}

\* The connections that a process at pc holds.
Held(pc) == CASE pc \in {"query", "tx", "rollback", "update"} -> 1
              [] pc = "reading" -> 2
              [] OTHER -> 0

\* main is "serving", then "draining" in Shutdown, then "closing" in the deferred
\* Close of the pool, and then "exited".
ServerInit ==
    /\ proc = [p \in Procs |-> NoCall]
    /\ inUse = 0
    /\ phase = "serving"

Up == phase # "exited"
At(p, pc) == proc[p].pc = pc
Goto(p, pc) == proc' = [proc EXCEPT ![p].pc = pc]
Return(p) == proc' = [proc EXCEPT ![p] = NoCall]

-----------------------------------------------------------------------------
\* Requests and the watcher.

Arrive(r, op) ==
    /\ phase = "serving"
    /\ At(r, "idle")
    /\ proc' = [proc EXCEPT ![r] = NewCall(op)]
    /\ UNCHANGED <<inUse, phase>>

\* A tick, or the next container of its list: the loop looks at stopChan, which
\* StopAutoStopWatcher closes, only between ticks.
WatcherTick ==
    /\ Up
    /\ At(Watcher, "idle")
    /\ proc' = [proc EXCEPT ![Watcher] = NewCall("stop")]
    /\ UNCHANGED <<inUse, phase>>

\* The context ends: after two minutes (a create, the watcher) or 30 seconds, or
\* because the client of a request has gone.
ContextEnds(p) ==
    /\ Up
    /\ ~At(p, "idle")
    /\ proc[p].ctx
    /\ proc' = [proc EXCEPT ![p].ctx = FALSE]
    /\ UNCHANGED <<inUse, phase>>

\* A connection of the pool, while it is open.
Take == phase \in {"serving", "draining"} /\ inUse < MaxConns /\ inUse' = inUse + 1

\* The queries of a create are all sent through its transaction.
AfterAcquire(pc, op) == CASE pc = "begin" -> IF op = "create" THEN "tx" ELSE "query"
                          [] pc = "query" -> "reading"
                          [] pc = "reset" -> "update"

Acquire(p) ==
    /\ proc[p].pc \in Waiting
    /\ proc[p].ctx
    /\ Take
    /\ Goto(p, AfterAcquire(proc[p].pc, proc[p].op))
    /\ UNCHANGED phase

\* Once the pool is closed a waiter that gets its turn is told so.
TurnedAway == phase = "closing" /\ inUse < MaxConns

\* A wait for a connection fails: BeginTx and the trailing UPDATE hold nothing,
\* Start and Stop return to their deferred Rollback, Remove drops the error of
\* its query and goes on.
WaitFails(p) ==
    /\ CASE At(p, "query") -> Goto(p, IF proc[p].op = "remove" THEN "tx" ELSE "rollback")
         [] OTHER -> Return(p)
    /\ UNCHANGED <<inUse, phase>>

\* Mutant: the wait does not look at the context.
AcquireFailsAtTurn(p) ==
    /\ Up
    /\ proc[p].pc \in Waiting
    /\ inUse < MaxConns
    /\ WaitFails(p)

\* The context ends the wait; or, at the waiter's turn, the pool is closed or no
\* connection can be made, or BEGIN fails, which gives it back at once.
AcquireFails(p) ==
    /\ Up
    /\ proc[p].pc \in Waiting
    /\ ~proc[p].ctx \/ inUse < MaxConns
    /\ WaitFails(p)

\* The row has been read: the second connection goes back.
FinishQuery(p) ==
    /\ Up
    /\ At(p, "reading")
    /\ Goto(p, "tx")
    /\ inUse' = inUse - 1
    /\ UNCHANGED phase

\* The query fails, or Start and Stop find no row.  Remove reads the networks
\* here, and drops the error.
QueryFails(p) ==
    /\ Up
    /\ At(p, "reading")
    /\ Goto(p, IF proc[p].op = "remove" THEN "tx" ELSE "rollback")
    /\ inUse' = inUse - 1
    /\ UNCHANGED phase

AfterCommit(op) == CASE op = "start" -> "reset"
                     [] op \in {"create", "stop"} -> "idle"
                     [] op = "remove" -> "cleanup"

Commit(p) ==
    /\ Up
    /\ At(p, "tx")
    /\ proc[p].ctx
    /\ IF AfterCommit(proc[p].op) = "idle" THEN Return(p)
                                           ELSE Goto(p, AfterCommit(proc[p].op))
    /\ inUse' = inUse - 1
    /\ UNCHANGED phase

\* A commit that reports an error has given the connection back as well: the
\* deferred Rollback finds the transaction closed.
CommitFails(p) ==
    /\ Up
    /\ At(p, "tx")
    /\ Return(p)
    /\ inUse' = inUse - 1
    /\ UNCHANGED phase

\* A statement of the transaction fails or finds no row (Remove's is before its
\* query), the plan is full, or Docker reports an error; the end of the context
\* makes each of them fail.
TransactionFails(p) ==
    /\ Up
    /\ At(p, "tx") \/ (At(p, "query") /\ proc[p].op = "remove")
    /\ Goto(p, "rollback")
    /\ UNCHANGED <<inUse, phase>>

\* Mutant: an error return without tx.Rollback.
ReturnWithoutRollback(p) ==
    /\ Up
    /\ At(p, "rollback")
    /\ Return(p)
    /\ UNCHANGED <<inUse, phase>>

\* The deferred calls: a create undoes what it did in Docker and on the disk
\* first, then Rollback gives the connection back, whether or not it can still
\* be sent.
Rollback(p) ==
    /\ Up
    /\ At(p, "rollback")
    /\ Return(p)
    /\ inUse' = inUse - 1
    /\ UNCHANGED phase

\* The trailing UPDATE of a start, or the cleanup of a removal, is through; their
\* errors are dropped.
Finish(p) ==
    /\ Up
    /\ proc[p].pc \in {"update", "cleanup"}
    /\ Return(p)
    /\ inUse' = inUse - Held(proc[p].pc)
    /\ UNCHANGED phase

-----------------------------------------------------------------------------
\* The end of main.

\* SIGINT or SIGTERM: Shutdown accepts no more requests.
Signal ==
    /\ phase = "serving"
    /\ phase' = "draining"
    /\ UNCHANGED <<proc, inUse>>

\* Shutdown returns when no request is under way, or after ten seconds with an
\* error that is dropped: it may return whatever the requests do.  The deferred
\* calls follow: StopAutoStopWatcher, Close of the Docker client and of the pool.
Shutdown ==
    /\ phase = "draining"
    /\ phase' = "closing"
    /\ UNCHANGED <<proc, inUse>>

\* Mutant: the pool is not closed before main returns.
ExitWithoutClose ==
    /\ phase = "closing"
    /\ phase' = "exited"
    /\ UNCHANGED <<proc, inUse>>

\* pool.Close waits until every connection is back.
Exit ==
    /\ phase = "closing"
    /\ inUse = 0
    /\ phase' = "exited"
    /\ UNCHANGED <<proc, inUse>>

\* A step of the code of a call.
CallStep(p) ==
    \/ Acquire(p)
    \/ AcquireFails(p)
    \/ FinishQuery(p)
    \/ QueryFails(p)
    \/ TransactionFails(p)
    \/ Commit(p)
    \/ CommitFails(p)
    \/ Rollback(p)
    \/ Finish(p)

ServerNext ==
    \/ \E r \in Requests, op \in Ops : Arrive(r, op)
    \/ WatcherTick
    \/ \E p \in Procs : ContextEnds(p) \/ CallStep(p)
    \/ Signal
    \/ Shutdown
    \/ Exit
=============================================================================
